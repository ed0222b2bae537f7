---------------------------- MODULE SinkFateProofs ----------------------------
(***************************************************************************)
(* What becomes of each buffer that BufferedSink accepts, what the window  *)
(* is worth, what a stop leaves, and that the sink implements OrderedSink, *)
(* for every number of producers, window, batch size, timeout and bound.   *)
(***************************************************************************)
EXTENDS BufferedSinkProofs, FiniteSetTheorems

-----------------------------------------------------------------------------
(* The inductive invariant.                                                *)

\* Buffers leave the input queue in the order of addData(): the first Inserted
\* buffers have been inserted into the sorted queue.
Inserted == Len(arrived) - Len(inputQueue) - Len(batch)

Numbered ==
  /\ Inserted \in Nat
  /\ \A i \in 1 .. Len(batch) : batch[i].id = Inserted + i
  /\ \A i \in 1 .. Len(inputQueue) : inputQueue[i].id = Inserted + Len(batch) + i

\* A buffer keeps the time it came with.
Stamped(b) == b.s_time = arrived[b.id]
Placeable(b) == b.id \in 1 .. Inserted /\ Stamped(b)
TimesKept ==
  /\ \A i \in 1 .. Len(inputQueue) : Stamped(inputQueue[i])
  /\ \A i \in 1 .. Len(batch) : Stamped(batch[i])
  /\ \A i \in 1 .. Len(sortedQueue) : Placeable(sortedQueue[i])
  /\ \A i \in 1 .. Len(outputBuffers) : Placeable(outputBuffers[i])
  /\ \A i \in 1 .. Len(written) : Placeable(written[i])

\* From the sink over what is being written to the sorted queue, buffers of one
\* time are in the order of addData().
Before(b, c) == b.s_time = c.s_time => b.id < c.id
EqualsInOrder ==
  /\ \A i, j \in 1 .. Len(sortedQueue) : i < j => Before(sortedQueue[i], sortedQueue[j])
  /\ \A i, j \in 1 .. Len(outputBuffers) : i < j => Before(outputBuffers[i], outputBuffers[j])
  /\ \A i \in 1 .. Len(outputBuffers), j \in 1 .. Len(sortedQueue) :
       Before(outputBuffers[i], sortedQueue[j])
  /\ \A i, j \in 1 .. Len(written) : i < j => Before(written[i], written[j])
  /\ \A i \in 1 .. Len(written), j \in 1 .. Len(outputBuffers) :
       j > iov => Before(written[i], outputBuffers[j])
  /\ \A i \in 1 .. Len(written), j \in 1 .. Len(sortedQueue) :
       Before(written[i], sortedQueue[j])

\* No buffer that was inserted is forgotten, and none is deleted early.
Kept(n) ==
  \/ n \in deleted
  \/ \E i \in 1 .. Len(sortedQueue) : sortedQueue[i].id = n
  \/ \E i \in 1 .. Len(outputBuffers) : i > iov /\ outputBuffers[i].id = n
  \/ \E i \in 1 .. Len(written) : written[i].id = n
NoneForgotten ==
  /\ \A n \in 1 .. Inserted : Kept(n)
  /\ deleted \subseteq 1 .. Inserted
  /\ pc["stop"] # "destroyed" => deleted = {}

\* Nothing is late before the first output.
LateAfterOutput == written = <<>> => lastEmitted = 0

\* The number of buffers.
Counted ==
  /\ Cardinality(deleted) \in Nat
  /\ Len(inputQueue) + Len(batch) + Len(sortedQueue) + (Len(outputBuffers) - iov)
       + Len(written) + Cardinality(deleted) = Len(arrived)

FateInv ==
  /\ Numbered
  /\ TimesKept
  /\ EqualsInOrder
  /\ NoneForgotten
  /\ LateAfterOutput
  /\ Counted

SinkInv == OrderInv /\ FateInv

-----------------------------------------------------------------------------
(* Facts about the state.                                                  *)

LEMMA Elements ==
  ASSUME TypeOK
  PROVE  /\ Len(inputQueue) \in Nat /\ Len(batch) \in Nat /\ Len(sortedQueue) \in Nat
         /\ Len(outputBuffers) \in Nat /\ Len(written) \in Nat /\ Len(arrived) \in Nat
         /\ iov \in Nat
         /\ \A i \in 1 .. Len(inputQueue) : inputQueue[i] \in Buffer
         /\ \A i \in 1 .. Len(batch) : batch[i] \in Buffer
         /\ \A i \in 1 .. Len(sortedQueue) : sortedQueue[i] \in Buffer
         /\ \A i \in 1 .. Len(outputBuffers) : outputBuffers[i] \in Buffer
         /\ \A i \in 1 .. Len(written) : written[i] \in Buffer
         /\ \A i \in 1 .. Len(arrived) : arrived[i] \in Nat
         /\ \A b \in Buffer : b.id \in Nat \ {0} /\ b.s_time \in Nat
<1>1. /\ Len(inputQueue) \in Nat /\ Len(batch) \in Nat /\ Len(sortedQueue) \in Nat
      /\ Len(outputBuffers) \in Nat /\ Len(written) \in Nat /\ Len(arrived) \in Nat
  BY DEF TypeOK
<1>2. iov \in Nat
  BY <1>1 DEF TypeOK
<1>3. /\ \A i \in 1 .. Len(inputQueue) : inputQueue[i] \in Buffer
      /\ \A i \in 1 .. Len(batch) : batch[i] \in Buffer
      /\ \A i \in 1 .. Len(sortedQueue) : sortedQueue[i] \in Buffer
      /\ \A i \in 1 .. Len(outputBuffers) : outputBuffers[i] \in Buffer
      /\ \A i \in 1 .. Len(written) : written[i] \in Buffer
  BY ElementOfSeq DEF TypeOK
<1>4. \A i \in 1 .. Len(arrived) : arrived[i] \in Nat
  <2>1. \A i \in 1 .. Len(arrived) : arrived[i] \in Times
    BY ElementOfSeq DEF TypeOK
  <2>2. Times \subseteq Nat
    BY TimeAssumption DEF Times
  <2>3. QED
    BY <2>1, <2>2
<1>5. \A b \in Buffer : b.id \in Nat \ {0} /\ b.s_time \in Nat
  BY TimeAssumption DEF Buffer, Times
<1>6. QED
  BY <1>1, <1>2, <1>3, <1>4, <1>5

\* The number of a buffer in the input queue or the batch is the number of an
\* accepted buffer that has not been inserted.
LEMMA Numbers ==
  ASSUME TypeOK, Numbered
  PROVE  /\ Inserted + Len(batch) + Len(inputQueue) = Len(arrived)
         /\ Inserted \in 0 .. Len(arrived)
         /\ \A i \in 1 .. Len(batch) : batch[i].id \in Inserted + 1 .. Len(arrived)
         /\ \A i \in 1 .. Len(inputQueue) : inputQueue[i].id \in Inserted + 1 .. Len(arrived)
  BY Elements, SMTT(30) DEF Numbered, Inserted

-----------------------------------------------------------------------------
(* What each step does to the queues.                                      *)

\* Steps that move no buffer.
Still ==
  UNCHANGED <<inputQueue, batch, sortedQueue, outputBuffers, iov, lastEmitted,
              arrived, written, late, deleted>>

LEMMA StillSteps ==
  ASSUME TypeInv,
         \/ \E p \in Producers : PushFails(p) \/ NotifyOne(p)
         \/ \E r \in Threads : EndPop(r) \/ EndSort(r) \/ WriteFails(r)
         \/ LoopTop \/ WaitForInput \/ WakeTimeout \/ Tick
         \/ StopThreads \/ NotifyAll \/ Join \/ Exit \/ UNCHANGED vars
         \/ (Flush /\ sortedQueue = <<>>)
  PROVE  Still /\ (pc["stop"] = "destroyed" <=> pc'["stop"] = "destroyed")
                /\ (timedOut' <=> timedOut)
<1> USE DEF TypeInv, TypeOK, StopAfterPoll, Threads, queues, history, Still
<1>1. CASE \E p \in Producers : PushFails(p) \/ NotifyOne(p)
  BY <1>1 DEF PushFails, NotifyOne, Woken
<1>2. CASE \E r \in Threads : EndPop(r) \/ EndSort(r) \/ WriteFails(r)
  BY <1>2 DEF EndPop, EndSort, WriteFails
<1>3. CASE LoopTop \/ WaitForInput \/ WakeTimeout \/ Tick
  BY <1>3 DEF LoopTop, WaitForInput, WakeTimeout, Tick, Woken
<1>4. CASE StopThreads \/ NotifyAll
  BY <1>4 DEF StopThreads, NotifyAll, Woken
<1>5. CASE Join \/ Exit \/ UNCHANGED vars
  BY <1>5 DEF Join, Exit, vars
<1>6. CASE Flush /\ sortedQueue = <<>>
  BY <1>6 DEF Flush
<1>7. QED
  BY <1>1, <1>2, <1>3, <1>4, <1>5, <1>6

\* addData() appends a buffer with the next number.
LEMMA PushFacts ==
  ASSUME TypeInv, NEW p \in Producers, Push(p)
  PROVE  \E t \in Times :
           /\ Len(inputQueue') = Len(inputQueue) + 1
           /\ \A i \in 1 .. Len(inputQueue) : inputQueue'[i] = inputQueue[i]
           /\ inputQueue'[Len(inputQueue) + 1] = [id |-> Len(arrived) + 1, s_time |-> t]
           /\ arrived' = Append(arrived, t)
           /\ Len(arrived') = Len(arrived) + 1
           /\ \A i \in 1 .. Len(arrived) : arrived'[i] = arrived[i]
           /\ arrived'[Len(arrived) + 1] = t
<1>1. PICK t \in Times :
        /\ inputQueue' = Append(inputQueue, [id |-> Len(arrived) + 1, s_time |-> t])
        /\ arrived' = Append(arrived, t)
  BY DEF Push
<1> DEFINE b == [id |-> Len(arrived) + 1, s_time |-> t]
<1>2. b \in Buffer /\ inputQueue \in Seq(Buffer) /\ arrived \in Seq(Times)
  BY DEF TypeInv, TypeOK, Buffer
<1> HIDE DEF b
<1>3. /\ Len(inputQueue') = Len(inputQueue) + 1
      /\ \A i \in 1 .. Len(inputQueue) : inputQueue'[i] = inputQueue[i]
      /\ inputQueue'[Len(inputQueue) + 1] = b
  BY <1>1, <1>2, AppendProperties DEF b
<1>4. /\ Len(arrived') = Len(arrived) + 1
      /\ \A i \in 1 .. Len(arrived) : arrived'[i] = arrived[i]
      /\ arrived'[Len(arrived) + 1] = t
  BY <1>1, <1>2, AppendProperties
<1>5. QED
  BY <1>1, <1>3, <1>4 DEF b

\* Taking the front off a queue.
LEMMA FrontFacts ==
  ASSUME NEW q \in Seq(Buffer), q # <<>>
  PROVE  /\ Head(q) \in Buffer /\ Head(q) = q[1] /\ Len(q) \in Nat \ {0}
         /\ Len(Tail(q)) = Len(q) - 1
         /\ \A i \in 1 .. Len(q) - 1 : Tail(q)[i] = q[i + 1]
<1>1. Len(q) \in Nat \ {0}
  BY EmptySeq
<1>2. Head(q) \in Buffer /\ Head(q) = q[1]
  BY HeadTailProperties
<1>3. QED
  BY <1>1, <1>2, HeadTailProperties

\* A buffer goes from the front of the input queue to the back of the batch.
LEMMA PopFacts ==
  ASSUME TypeInv, NEW r \in Threads, Pop(r)
  PROVE  /\ Len(inputQueue) \in Nat \ {0}
         /\ Len(inputQueue') = Len(inputQueue) - 1
         /\ \A i \in 1 .. Len(inputQueue) - 1 : inputQueue'[i] = inputQueue[i + 1]
         /\ Len(batch') = Len(batch) + 1
         /\ \A i \in 1 .. Len(batch) : batch'[i] = batch[i]
         /\ batch'[Len(batch) + 1] = inputQueue[1]
<1>1. /\ inputQueue # <<>> /\ inputQueue' = Tail(inputQueue)
      /\ batch' = Append(batch, Head(inputQueue))
  BY DEF Pop, BatchOpen
<1>2. inputQueue \in Seq(Buffer) /\ batch \in Seq(Buffer)
  BY DEF TypeInv, TypeOK
<1>3. /\ Head(inputQueue) \in Buffer /\ Head(inputQueue) = inputQueue[1]
      /\ Len(inputQueue) \in Nat \ {0}
      /\ Len(Tail(inputQueue)) = Len(inputQueue) - 1
      /\ \A i \in 1 .. Len(inputQueue) - 1 : Tail(inputQueue)[i] = inputQueue[i + 1]
  BY <1>1, <1>2, FrontFacts
<1>4. QED
  BY <1>1, <1>2, <1>3, AppendProperties

\* The front of the batch goes behind the last buffer that is not after it.
LEMMA InsertFacts ==
  ASSUME OrderInv, NEW r \in Threads, InsertBuffer(r)
  PROVE  /\ batch # <<>> /\ Len(batch) \in Nat \ {0} /\ batch[1] \in Buffer
         /\ Len(batch') = Len(batch) - 1
         /\ \A j \in 1 .. Len(batch) - 1 : batch'[j] = batch[j + 1]
         /\ outputBuffers = <<>> /\ Len(outputBuffers) = 0 /\ iov = 0
         /\ \E i \in 1 .. Len(sortedQueue) + 1 :
              /\ Len(sortedQueue') = Len(sortedQueue) + 1
              /\ \A j \in 1 .. Len(sortedQueue) + 1 :
                   sortedQueue'[j] = IF j < i THEN sortedQueue[j]
                                     ELSE IF j = i THEN batch[1] ELSE sortedQueue[j - 1]
              /\ \A j \in i .. Len(sortedQueue) : batch[1].s_time < sortedQueue[j].s_time
         /\ late' = IF batch[1].s_time < lastEmitted THEN late \cup {batch[1].id} ELSE late
<1> DEFINE b == Head(batch)
<1>1. PICK i \in 1 .. Len(sortedQueue) + 1 :
        /\ InsertionPoint(sortedQueue, b.s_time, i)
        /\ sortedQueue' = InsertAt(sortedQueue, i, b)
  BY DEF InsertBuffer
<1>2. sortedQueue \in Seq(Buffer) /\ batch \in Seq(Buffer) /\ batch # <<>> /\ batch' = Tail(batch)
  BY DEF OrderInv, TypeInv, TypeOK, InsertBuffer
<1>3. /\ b = batch[1] /\ b \in Buffer /\ Len(batch) \in Nat \ {0}
      /\ Len(Tail(batch)) = Len(batch) - 1
      /\ \A j \in 1 .. Len(batch) - 1 : Tail(batch)[j] = batch[j + 1]
  BY <1>2, FrontFacts
<1>4. /\ Len(sortedQueue') = Len(sortedQueue) + 1
      /\ \A j \in 1 .. Len(sortedQueue) + 1 :
           sortedQueue'[j] = IF j < i THEN sortedQueue[j]
                             ELSE IF j = i THEN b ELSE sortedQueue[j - 1]
  <2>1. b \in Buffer /\ sortedQueue \in Seq(Buffer)
    BY <1>2, <1>3
  <2> HIDE DEF b
  <2>2. QED
    BY <1>1, <2>1, InsertAtProperties, SMTT(30)
<1>5. \A j \in 1 .. Len(sortedQueue) : sortedQueue[j].s_time \in Nat
  BY Elements DEF OrderInv, TypeInv
<1>6. b.s_time \in Nat /\ Len(sortedQueue) \in Nat
  BY <1>2, <1>3, Elements DEF OrderInv, TypeInv
<1>7. \A j \in i .. Len(sortedQueue) : b.s_time < sortedQueue[j].s_time
  <2> HIDE DEF b
  <2>1. CASE sortedQueue = <<>>
    BY <1>1, <1>6, <2>1, EmptySeq DEF InsertionPoint
  <2>2. CASE sortedQueue # <<>>
    <3>1. /\ Len(sortedQueue) \in Nat \ {0} /\ Head(sortedQueue) = sortedQueue[1]
      BY <1>2, <2>2, EmptySeq
    <3>2. \A j \in 1 .. Len(sortedQueue) : sortedQueue[1].s_time <= sortedQueue[j].s_time
      BY <1>5, <3>1 DEF OrderInv, SinkInOrder, SortedQueueOrdered, SortedByTime
    <3>3. CASE i = Len(sortedQueue) + 1
      BY <3>1, <3>3
    <3>4. CASE i = 1 /\ b.s_time < sortedQueue[1].s_time
      BY <1>5, <1>6, <3>1, <3>2, <3>4
    <3>5. CASE \A j \in i .. Len(sortedQueue) : sortedQueue[j].s_time > b.s_time
      BY <1>5, <1>6, <3>5
    <3>6. QED
      BY <1>1, <2>2, <3>1, <3>3, <3>4, <3>5 DEF InsertionPoint
  <2>3. QED
    BY <2>1, <2>2
<1>8. late' = IF b.s_time < lastEmitted THEN late \cup {b.id} ELSE late
  BY DEF InsertBuffer, IsLate
<1>9. outputBuffers = <<>> /\ Len(outputBuffers) = 0 /\ iov = 0
  <2>1. \A s \in Threads : pc[s] # "write"
    BY DEF InsertBuffer, OrderInv, TypeInv, StopAfterPoll, Threads
  <2>2. QED
    BY <2>1, EmptySeq DEF OrderInv, SinkInOrder, StackEmpty
<1> HIDE DEF b
<1>10. QED
  BY <1>2, <1>3, <1>4, <1>7, <1>8, <1>9

\* The part of the queue up to a time goes to the output.
LEMMA TakeFacts ==
  ASSUME OrderInv, NEW r \in Threads, NEW until, pc[r] = "check", Take(r, until)
  PROVE  \E k \in 0 .. Len(sortedQueue) :
           /\ Len(outputBuffers') = k
           /\ \A j \in 1 .. k : /\ outputBuffers'[j] = sortedQueue[j]
                                /\ sortedQueue[j].s_time <= until
           /\ Len(sortedQueue') = Len(sortedQueue) - k
           /\ \A j \in 1 .. Len(sortedQueue) - k : sortedQueue'[j] = sortedQueue[j + k]
           /\ k < Len(sortedQueue) => sortedQueue[k + 1].s_time > until
           /\ Len(outputBuffers) = 0 /\ iov = 0 /\ iov' = 0 /\ batch = <<>>
           /\ pc' = [pc EXCEPT ![r] = "write"]
<1>1. PICK k \in 0 .. Len(sortedQueue) :
        /\ \A i \in 1 .. k : sortedQueue[i].s_time <= until
        /\ k < Len(sortedQueue) => sortedQueue[k + 1].s_time > until
        /\ outputBuffers' = SubSeq(sortedQueue, 1, k)
        /\ sortedQueue' = SubSeq(sortedQueue, k + 1, Len(sortedQueue))
  BY DEF Take
<1>2. sortedQueue \in Seq(Buffer)
  BY DEF OrderInv, TypeInv, TypeOK
<1>3. /\ Len(outputBuffers') = k
      /\ \A j \in 1 .. k : outputBuffers'[j] = sortedQueue[j]
      /\ Len(sortedQueue') = Len(sortedQueue) - k
      /\ \A j \in 1 .. Len(sortedQueue) - k : sortedQueue'[j] = sortedQueue[j + k]
  BY <1>1, <1>2, SplitProperties
<1>4. /\ \A s \in Threads : pc[s] # "write"
      /\ \A s \in Threads : pc[s] \notin {"drain", "sort"}
  BY DEF OrderInv, TypeInv, StopAfterPoll, Threads
<1>5. outputBuffers = <<>> /\ iov = 0 /\ batch = <<>>
  BY <1>4 DEF OrderInv, SinkInOrder, StackEmpty
<1>6. Len(outputBuffers) = 0
  BY <1>5, EmptySeq
<1>7. iov' = 0 /\ pc' = [pc EXCEPT ![r] = "write"]
  BY DEF Take
<1>8. QED
  BY <1>1, <1>3, <1>5, <1>6, <1>7

LEMMA WriteFacts ==
  ASSUME OrderInv, NEW r \in Threads, WriteNext(r)
  PROVE  /\ iov \in Nat /\ iov' = iov + 1 /\ iov' \in 1 .. Len(outputBuffers)
         /\ Len(written') = Len(written) + 1
         /\ \A i \in 1 .. Len(written) : written'[i] = written[i]
         /\ written'[Len(written) + 1] = outputBuffers[iov']
         /\ written' = Append(written, outputBuffers[iov'])
         /\ written' # <<>>
<1>1. written' = Append(written, outputBuffers[iov']) /\ iov' = iov + 1 /\ iov < Len(outputBuffers)
  BY DEF WriteNext
<1>2. iov \in Nat /\ iov' \in 1 .. Len(outputBuffers)
  BY <1>1, Elements DEF OrderInv, TypeInv
<1>3. outputBuffers[iov'] \in Buffer /\ written \in Seq(Buffer)
  BY <1>2, Elements DEF OrderInv, TypeInv, TypeOK
<1>4. QED
  BY <1>1, <1>2, <1>3, AppendProperties

\* The output ends with something in the sink.
LEMMA FinishFacts ==
  ASSUME OrderInv, NEW r \in Threads, FinishOutput(r)
  PROVE  /\ iov = Len(outputBuffers) /\ iov' = 0 /\ Len(outputBuffers') = 0
         /\ written # <<>> /\ batch = <<>>
         /\ pc[r] = "write"
         /\ pc' = [pc EXCEPT ![r] = IF r = "poll" THEN "loop" ELSE "stopped"]
<1>1. /\ pc[r] = "write" /\ iov = Len(outputBuffers) /\ iov' = 0 /\ outputBuffers' = <<>>
      /\ pc' = [pc EXCEPT ![r] = IF r = "poll" THEN "loop" ELSE "stopped"]
  BY DEF FinishOutput
<1>2. outputBuffers # <<>>
  BY <1>1 DEF OrderInv, SinkInOrder, NoEmptyOutput
<1>3. iov > 0
  BY <1>1, <1>2, EmptySeq DEF OrderInv, TypeInv, TypeOK
<1>4. written # <<>>
  BY <1>3 DEF OrderInv, SinkInOrder, LastEmittedWritten
<1>5. batch = <<>>
  BY <1>1 DEF OrderInv, SinkInOrder, StackEmpty, TypeInv, StopAfterPoll, Threads
<1>6. QED
  BY <1>1, <1>4, <1>5, EmptySeq

LEMMA DeleteFacts ==
  ASSUME OrderInv, DeleteQueues
  PROVE  /\ batch = <<>> /\ Len(batch) = 0
         /\ Len(outputBuffers) = 0 /\ iov = 0
         /\ Len(inputQueue') = 0 /\ Len(sortedQueue') = 0
         /\ \A n : n \in deleted' <=>
              \/ \E i \in 1 .. Len(inputQueue) : inputQueue[i].id = n
              \/ \E i \in 1 .. Len(sortedQueue) : sortedQueue[i].id = n
         /\ pc["stop"] = "stopped" /\ pc' = [pc EXCEPT !["stop"] = "destroyed"]
<1>1. /\ pc["stop"] = "stopped" /\ pc' = [pc EXCEPT !["stop"] = "destroyed"]
      /\ inputQueue' = <<>> /\ sortedQueue' = <<>>
      /\ deleted' = {b.id : b \in ToSet(inputQueue) \cup ToSet(sortedQueue)}
  BY DEF DeleteQueues
<1>2. batch = <<>> /\ outputBuffers = <<>> /\ iov = 0
  BY <1>1 DEF OrderInv, SinkInOrder, StackEmpty, TypeInv, StopAfterPoll, Threads
<1>3. \A b : b \in ToSet(inputQueue) \cup ToSet(sortedQueue) <=>
               \/ \E i \in 1 .. Len(inputQueue) : inputQueue[i] = b
               \/ \E i \in 1 .. Len(sortedQueue) : sortedQueue[i] = b
  BY DEF ToSet
<1>4. \A n : n \in deleted' <=>
        \/ \E i \in 1 .. Len(inputQueue) : inputQueue[i].id = n
        \/ \E i \in 1 .. Len(sortedQueue) : sortedQueue[i].id = n
  BY <1>1, <1>3
<1>5. QED
  BY <1>1, <1>2, <1>4, EmptySeq

-----------------------------------------------------------------------------
(* Invariance: what becomes of each buffer.                                *)

LEMMA FateInit == Init => FateInv
<1> SUFFICES ASSUME Init PROVE FateInv
  OBVIOUS
<1>1. /\ Len(inputQueue) = 0 /\ Len(batch) = 0 /\ Len(sortedQueue) = 0
      /\ Len(outputBuffers) = 0 /\ Len(written) = 0 /\ Len(arrived) = 0
      /\ iov = 0 /\ lastEmitted = 0 /\ deleted = {}
  BY EmptySeq DEF Init
<1>2. Cardinality(deleted) = 0
  BY <1>1, FS_EmptySet
<1>3. Inserted = 0
  BY <1>1 DEF Inserted
<1>4. Numbered /\ TimesKept
  BY <1>1, <1>3 DEF Numbered, TimesKept
<1>5. EqualsInOrder /\ NoneForgotten
  BY <1>1, <1>3 DEF EqualsInOrder, NoneForgotten
<1>6. LateAfterOutput /\ Counted
  BY <1>1, <1>2 DEF LateAfterOutput, Counted
<1>7. QED
  BY <1>4, <1>5, <1>6 DEF FateInv

LEMMA StillFate ==
  ASSUME SinkInv, Still, pc'["stop"] # "destroyed" => pc["stop"] # "destroyed" PROVE FateInv'
<1>1. Inserted' = Inserted
  BY DEF Still, Inserted
<1>2. Numbered' /\ TimesKept'
  BY <1>1 DEF SinkInv, FateInv, Still, Numbered, TimesKept, Stamped, Placeable
<1>3. EqualsInOrder' /\ NoneForgotten'
  BY <1>1 DEF SinkInv, FateInv, Still, EqualsInOrder, Before, NoneForgotten, Kept
<1>4. LateAfterOutput' /\ Counted'
  BY DEF SinkInv, FateInv, Still, LateAfterOutput, Counted
<1>5. QED
  BY <1>2, <1>3, <1>4 DEF FateInv

LEMMA PushFate ==
  ASSUME SinkInv, NEW p \in Producers, Push(p) PROVE FateInv'
<1> USE DEF SinkInv, OrderInv, TypeInv, FateInv
<1>1. PICK t \in Times :
        /\ Len(inputQueue') = Len(inputQueue) + 1
        /\ \A i \in 1 .. Len(inputQueue) : inputQueue'[i] = inputQueue[i]
        /\ inputQueue'[Len(inputQueue) + 1] = [id |-> Len(arrived) + 1, s_time |-> t]
        /\ Len(arrived') = Len(arrived) + 1
        /\ \A i \in 1 .. Len(arrived) : arrived'[i] = arrived[i]
        /\ arrived'[Len(arrived) + 1] = t
  BY PushFacts
<1>2. /\ UNCHANGED <<batch, sortedQueue, outputBuffers, iov, lastEmitted, written, late, deleted>>
      /\ pc' = pc
  BY DEF Push
<1>3. /\ Len(inputQueue) \in Nat /\ Len(batch) \in Nat /\ Len(arrived) \in Nat
      /\ Len(sortedQueue) \in Nat /\ Len(outputBuffers) \in Nat /\ Len(written) \in Nat
      /\ iov \in Nat
  BY Elements
<1>4. Inserted' = Inserted /\ Inserted \in 0 .. Len(arrived)
  BY <1>1, <1>2, <1>3, Numbers DEF Inserted
<1>5. Numbered'
  <2>1. ASSUME NEW i \in 1 .. Len(inputQueue')
        PROVE  inputQueue'[i].id = Inserted + Len(batch) + i
    <3>1. CASE i = Len(inputQueue) + 1
      <4>1. inputQueue'[i].id = Len(arrived) + 1
        BY <1>1, <3>1
      <4>2. QED
        BY <1>3, <1>4, <3>1, <4>1, Numbers
    <3>2. CASE i # Len(inputQueue) + 1
      <4>1. i \in 1 .. Len(inputQueue) /\ inputQueue'[i] = inputQueue[i]
        BY <1>1, <1>3, <3>2
      <4>2. QED
        BY <4>1 DEF Numbered
    <3>3. QED
      BY <3>1, <3>2
  <2>2. QED
    BY <1>2, <1>4, <2>1 DEF Numbered
<1>6. TimesKept'
  <2>1. \A b : Stamped(b) /\ b.id \in 1 .. Len(arrived) => Stamped(b)'
    BY <1>1 DEF Stamped
  <2>2. \A b : Placeable(b) => Placeable(b)'
    BY <1>3, <1>4, <2>1 DEF Placeable
  <2>3. \A i \in 1 .. Len(batch') : Stamped(batch[i])'
    BY <1>2, <1>3, <1>4, <2>1, Numbers DEF TimesKept
  <2>4. ASSUME NEW i \in 1 .. Len(inputQueue') PROVE Stamped(inputQueue[i])'
    <3>1. CASE i = Len(inputQueue) + 1
      BY <1>1, <1>3, <3>1 DEF Stamped
    <3>2. CASE i # Len(inputQueue) + 1
      <4>1. i \in 1 .. Len(inputQueue) /\ inputQueue'[i] = inputQueue[i]
        BY <1>1, <1>3, <3>2
      <4>2. Stamped(inputQueue[i]) /\ inputQueue[i].id \in 1 .. Len(arrived)
        BY <1>3, <1>4, <4>1, Numbers DEF TimesKept
      <4>3. QED
        BY <1>1, <4>1, <4>2 DEF Stamped
    <3>3. QED
      BY <3>1, <3>2
  <2>5. QED
    BY <1>2, <2>2, <2>3, <2>4 DEF TimesKept
<1>7. EqualsInOrder' /\ NoneForgotten'
  <2>1. EqualsInOrder'
    BY <1>2 DEF EqualsInOrder, Before
  <2>2. \A n : Kept(n) => Kept(n)'
    BY <1>2 DEF Kept
  <2>3. QED
    BY <1>2, <1>4, <2>1, <2>2 DEF NoneForgotten
<1>8. LateAfterOutput' /\ Counted'
  <2>1. LateAfterOutput'
    BY <1>2 DEF LateAfterOutput
  <2>2. Counted'
    BY <1>1, <1>2, <1>3 DEF Counted
  <2>3. QED
    BY <2>1, <2>2
<1>9. QED
  BY <1>5, <1>6, <1>7, <1>8

LEMMA PopFate ==
  ASSUME SinkInv, NEW r \in Threads, Pop(r) PROVE FateInv'
<1> USE DEF SinkInv, OrderInv, TypeInv, FateInv
<1>1. /\ Len(inputQueue) \in Nat \ {0}
      /\ Len(inputQueue') = Len(inputQueue) - 1
      /\ \A i \in 1 .. Len(inputQueue) - 1 : inputQueue'[i] = inputQueue[i + 1]
      /\ Len(batch') = Len(batch) + 1
      /\ \A i \in 1 .. Len(batch) : batch'[i] = batch[i]
      /\ batch'[Len(batch) + 1] = inputQueue[1]
  BY PopFacts
<1>2. /\ UNCHANGED <<sortedQueue, outputBuffers, iov, lastEmitted, arrived, written, late, deleted>>
      /\ pc' = pc
  BY DEF Pop, history
<1>3. /\ Len(inputQueue) \in Nat /\ Len(batch) \in Nat /\ Len(arrived) \in Nat
      /\ Len(sortedQueue) \in Nat /\ Len(outputBuffers) \in Nat /\ Len(written) \in Nat
      /\ iov \in Nat
  BY Elements
<1>4. Inserted' = Inserted /\ Inserted \in Nat
  BY <1>1, <1>2, <1>3, Numbers DEF Inserted
<1>5. Numbered'
  <2>1. ASSUME NEW i \in 1 .. Len(batch')
        PROVE  batch'[i].id = Inserted + i
    <3>1. CASE i = Len(batch) + 1
      <4>1. inputQueue[1].id = Inserted + Len(batch) + 1 /\ batch'[i] = inputQueue[1]
        BY <1>1, <3>1 DEF Numbered
      <4>2. QED
        BY <1>3, <1>4, <3>1, <4>1
    <3>2. CASE i # Len(batch) + 1
      <4>1. i \in 1 .. Len(batch) /\ batch'[i] = batch[i]
        BY <1>1, <1>3, <3>2
      <4>2. QED
        BY <4>1 DEF Numbered
    <3>3. QED
      BY <3>1, <3>2
  <2>2. ASSUME NEW i \in 1 .. Len(inputQueue')
        PROVE  inputQueue'[i].id = Inserted + Len(batch') + i
    <3>1. i + 1 \in 1 .. Len(inputQueue) /\ inputQueue'[i] = inputQueue[i + 1]
      BY <1>1
    <3>2. inputQueue[i + 1].id = Inserted + Len(batch) + (i + 1)
      BY <3>1 DEF Numbered
    <3>3. QED
      BY <1>1, <1>3, <1>4, <3>1, <3>2
  <2>3. QED
    BY <1>4, <2>1, <2>2 DEF Numbered
<1>6. TimesKept'
  <2>1. ASSUME NEW i \in 1 .. Len(batch')
        PROVE  Stamped(batch[i])'
    <3>1. CASE i = Len(batch) + 1
      BY <1>1, <1>2, <1>3, <3>1 DEF TimesKept, Stamped
    <3>2. CASE i # Len(batch) + 1
      BY <1>1, <1>2, <1>3, <3>2, SMTT(30) DEF TimesKept, Stamped
    <3>3. QED
      BY <3>1, <3>2
  <2>2. ASSUME NEW i \in 1 .. Len(inputQueue')
        PROVE  Stamped(inputQueue[i])'
    BY <1>1, <1>2 DEF TimesKept, Stamped
  <2>3. QED
    BY <1>2, <1>4, <2>1, <2>2 DEF TimesKept, Stamped, Placeable
<1>7. EqualsInOrder' /\ NoneForgotten' /\ LateAfterOutput'
  <2>1. EqualsInOrder' /\ LateAfterOutput'
    BY <1>2 DEF EqualsInOrder, Before, LateAfterOutput
  <2>2. \A n : Kept(n) => Kept(n)'
    BY <1>2 DEF Kept
  <2>3. QED
    BY <1>2, <1>4, <2>1, <2>2 DEF NoneForgotten
<1>8. Counted'
  BY <1>1, <1>2, <1>3 DEF Counted
<1>9. QED
  BY <1>5, <1>6, <1>7, <1>8

LEMMA InsertFate ==
  ASSUME SinkInv, NEW r \in Threads, InsertBuffer(r) PROVE FateInv'
<1> USE DEF SinkInv, OrderInv, TypeInv, FateInv
<1>0. PICK b : b = batch[1]
  OBVIOUS
<1>1. PICK i \in 1 .. Len(sortedQueue) + 1 :
        /\ Len(sortedQueue') = Len(sortedQueue) + 1
        /\ \A j \in 1 .. Len(sortedQueue) + 1 :
             sortedQueue'[j] = IF j < i THEN sortedQueue[j]
                               ELSE IF j = i THEN b ELSE sortedQueue[j - 1]
        /\ \A j \in i .. Len(sortedQueue) : b.s_time < sortedQueue[j].s_time
  BY <1>0, InsertFacts
<1>2. /\ Len(batch) \in Nat \ {0} /\ b \in Buffer
      /\ Len(batch') = Len(batch) - 1
      /\ \A j \in 1 .. Len(batch) - 1 : batch'[j] = batch[j + 1]
      /\ Len(outputBuffers) = 0 /\ iov = 0
  BY <1>0, InsertFacts
<1>3. /\ UNCHANGED <<inputQueue, outputBuffers, iov, lastEmitted, arrived, written, deleted>>
      /\ pc' = pc
  BY DEF InsertBuffer
<1>4. /\ Len(inputQueue) \in Nat /\ Len(arrived) \in Nat
      /\ Len(sortedQueue) \in Nat /\ Len(written) \in Nat
      /\ \A j \in 1 .. Len(sortedQueue) : sortedQueue[j].s_time \in Nat
      /\ b.s_time \in Nat
  BY <1>2, Elements
<1>5. Inserted' = Inserted + 1 /\ Inserted \in Nat
  BY <1>2, <1>3, <1>4, Numbers DEF Inserted
<1>6. b.id = Inserted + 1 /\ Stamped(b)
  BY <1>0, <1>2 DEF Numbered, TimesKept
<1>7. Numbered'
  <2>1. ASSUME NEW j \in 1 .. Len(batch')
        PROVE  batch'[j].id = Inserted' + j
    <3>1. j + 1 \in 1 .. Len(batch) /\ batch'[j] = batch[j + 1]
      BY <1>2
    <3>2. batch[j + 1].id = Inserted + (j + 1)
      BY <3>1 DEF Numbered
    <3>3. QED
      BY <1>5, <3>1, <3>2
  <2>2. QED
    BY <1>2, <1>3, <1>4, <1>5, <2>1 DEF Numbered
<1>8. \A c : Placeable(c) => Placeable(c)'
  BY <1>3, <1>5 DEF Placeable, Stamped
<1>9. Placeable(b)'
  <2>1. Inserted + 1 \in 1 .. Inserted'
    BY <1>5
  <2>2. QED
    BY <1>3, <1>6, <2>1 DEF Placeable, Stamped
<1>10. TimesKept'
  <2>1. ASSUME NEW j \in 1 .. Len(batch')
        PROVE  Stamped(batch[j])'
    BY <1>2, <1>3 DEF TimesKept, Stamped
  <2>2. ASSUME NEW j \in 1 .. Len(sortedQueue')
        PROVE  Placeable(sortedQueue[j])'
    <3>1. CASE j < i
      <4>1. j \in 1 .. Len(sortedQueue) /\ sortedQueue'[j] = sortedQueue[j]
        BY <1>1, <1>4, <3>1
      <4>2. QED
        BY <1>3, <1>5, <4>1 DEF TimesKept, Placeable, Stamped
    <3>2. CASE j = i
      <4>1. sortedQueue'[j] = b
        BY <1>1, <3>2
      <4>2. QED
        BY <1>9, <4>1 DEF Placeable, Stamped
    <3>3. CASE j > i
      <4>1. j - 1 \in 1 .. Len(sortedQueue) /\ sortedQueue'[j] = sortedQueue[j - 1]
        BY <1>1, <1>4, <3>3
      <4>2. QED
        BY <1>3, <1>5, <4>1 DEF TimesKept, Placeable, Stamped
    <3>4. QED
      BY <3>1, <3>2, <3>3
  <2>3. QED
    BY <1>3, <1>8, <2>1, <2>2 DEF TimesKept, Stamped
<1>11. \A c : Placeable(c) => Before(c, b)
  BY <1>5, <1>6 DEF Placeable, Before
<1>12. EqualsInOrder'
  <2>1. ASSUME NEW j \in 1 .. Len(sortedQueue'), NEW k \in 1 .. Len(sortedQueue'), j < k
        PROVE  Before(sortedQueue'[j], sortedQueue'[k])
    <3>1. CASE k < i
      <4>1. /\ j \in 1 .. Len(sortedQueue) /\ sortedQueue'[j] = sortedQueue[j]
            /\ k \in 1 .. Len(sortedQueue) /\ sortedQueue'[k] = sortedQueue[k]
        BY <1>1, <1>4, <2>1, <3>1
      <4>2. QED
        BY <2>1, <4>1 DEF EqualsInOrder
    <3>2. CASE k = i
      <4>1. /\ j \in 1 .. Len(sortedQueue) /\ sortedQueue'[j] = sortedQueue[j]
            /\ sortedQueue'[k] = b
        BY <1>1, <1>4, <2>1, <3>2
      <4>2. QED
        BY <1>11, <4>1 DEF TimesKept
    <3>3. CASE k > i /\ j = i
      <4>1. /\ k - 1 \in i .. Len(sortedQueue) /\ sortedQueue'[k] = sortedQueue[k - 1]
            /\ sortedQueue'[j] = b
        BY <1>1, <1>4, <3>3
      <4>2. b.s_time < sortedQueue[k - 1].s_time /\ sortedQueue[k - 1].s_time \in Nat
        BY <1>1, <1>4, <4>1
      <4>3. QED
        BY <1>4, <4>1, <4>2 DEF Before
    <3>4. CASE k > i /\ j < i
      <4>1. /\ j \in 1 .. Len(sortedQueue) /\ sortedQueue'[j] = sortedQueue[j]
            /\ k - 1 \in 1 .. Len(sortedQueue) /\ sortedQueue'[k] = sortedQueue[k - 1]
            /\ j < k - 1
        BY <1>1, <1>4, <3>4
      <4>2. QED
        BY <4>1 DEF EqualsInOrder
    <3>5. CASE j > i
      <4>1. /\ j - 1 \in 1 .. Len(sortedQueue) /\ sortedQueue'[j] = sortedQueue[j - 1]
            /\ k - 1 \in 1 .. Len(sortedQueue) /\ sortedQueue'[k] = sortedQueue[k - 1]
            /\ j - 1 < k - 1
        BY <1>1, <1>4, <2>1, <3>5
      <4>2. QED
        BY <4>1 DEF EqualsInOrder
    <3>6. QED
      BY <2>1, <3>1, <3>2, <3>3, <3>4, <3>5
  <2>2. ASSUME NEW j \in 1 .. Len(written), NEW k \in 1 .. Len(sortedQueue')
        PROVE  Before(written[j], sortedQueue'[k])
    <3>1. CASE k < i
      <4>1. k \in 1 .. Len(sortedQueue) /\ sortedQueue'[k] = sortedQueue[k]
        BY <1>1, <1>4, <3>1
      <4>2. QED
        BY <4>1 DEF EqualsInOrder
    <3>2. CASE k = i
      <4>1. sortedQueue'[k] = b
        BY <1>1, <3>2
      <4>2. QED
        BY <1>11, <4>1 DEF TimesKept
    <3>3. CASE k > i
      <4>1. k - 1 \in 1 .. Len(sortedQueue) /\ sortedQueue'[k] = sortedQueue[k - 1]
        BY <1>1, <1>4, <3>3
      <4>2. QED
        BY <4>1 DEF EqualsInOrder
    <3>4. QED
      BY <3>1, <3>2, <3>3
  <2>3. Len(outputBuffers') = 0
    BY <1>2, <1>3
  <2>4. \A j, k \in 1 .. Len(written) : j < k => Before(written[j], written[k])
    BY DEF EqualsInOrder
  <2>5. QED
    BY <1>3, <2>1, <2>2, <2>3, <2>4 DEF EqualsInOrder, Before
<1>13. NoneForgotten'
  <2>1. ASSUME NEW n \in 1 .. Inserted' PROVE Kept(n)'
    <3>1. CASE n = Inserted + 1
      BY <1>1, <1>6, <3>1 DEF Kept
    <3>2. CASE n # Inserted + 1
      <4>1. Kept(n)
        BY <1>5, <3>2 DEF NoneForgotten
      <4>2. ASSUME NEW j \in 1 .. Len(sortedQueue), sortedQueue[j].id = n
            PROVE  \E k \in 1 .. Len(sortedQueue') : sortedQueue'[k].id = n
        <5>1. CASE j < i
          BY <1>1, <1>4, <4>2, <5>1
        <5>2. CASE j >= i
          <6>1. j + 1 \in 1 .. Len(sortedQueue') /\ sortedQueue'[j + 1] = sortedQueue[j]
            BY <1>1, <1>4, <5>2
          <6>2. QED
            BY <4>2, <6>1
        <5>3. QED
          BY <1>1, <1>4, <5>1, <5>2
      <4>3. QED
        BY <1>3, <4>1, <4>2 DEF Kept
    <3>3. QED
      BY <3>1, <3>2
  <2>2. deleted' \subseteq 1 .. Inserted'
    BY <1>3, <1>5 DEF NoneForgotten
  <2>3. QED
    BY <1>3, <2>1, <2>2 DEF NoneForgotten
<1>14. LateAfterOutput' /\ Counted'
  BY <1>1, <1>2, <1>3, <1>4 DEF LateAfterOutput, Counted
<1>15. QED
  BY <1>7, <1>10, <1>12, <1>13, <1>14

LEMMA TakeFate ==
  ASSUME SinkInv, NEW r \in Threads, NEW until, pc[r] = "check", Take(r, until),
         UNCHANGED <<inputQueue, batch, arrived, written, deleted, lastEmitted>>
  PROVE  FateInv'
<1> USE DEF SinkInv, OrderInv, TypeInv, FateInv
<1>1. PICK k \in 0 .. Len(sortedQueue) :
        /\ Len(outputBuffers') = k
        /\ \A j \in 1 .. k : outputBuffers'[j] = sortedQueue[j]
        /\ Len(sortedQueue') = Len(sortedQueue) - k
        /\ \A j \in 1 .. Len(sortedQueue) - k : sortedQueue'[j] = sortedQueue[j + k]
        /\ Len(outputBuffers) = 0 /\ iov = 0 /\ iov' = 0
        /\ pc' = [pc EXCEPT ![r] = "write"]
  BY TakeFacts
<1>2. /\ Len(inputQueue) \in Nat /\ Len(batch) \in Nat /\ Len(arrived) \in Nat
      /\ Len(sortedQueue) \in Nat /\ Len(written) \in Nat
  BY Elements
<1>3. Inserted' = Inserted
  BY DEF Inserted
<1>4. Numbered' /\ LateAfterOutput'
  BY <1>3 DEF Numbered, LateAfterOutput
<1>5. \A j \in 1 .. Len(outputBuffers') :
         j \in 1 .. Len(sortedQueue) /\ outputBuffers'[j] = sortedQueue[j]
  BY <1>1, <1>2
<1>6. \A j \in 1 .. Len(sortedQueue') :
         j + k \in 1 .. Len(sortedQueue) /\ sortedQueue'[j] = sortedQueue[j + k]
  BY <1>1, <1>2
<1>7. TimesKept'
  <2>1. \A c : Placeable(c) => Placeable(c)'
    BY <1>3 DEF Placeable, Stamped
  <2>2. ASSUME NEW j \in 1 .. Len(outputBuffers') PROVE Placeable(outputBuffers[j])'
    BY <1>3, <1>5 DEF TimesKept, Placeable, Stamped
  <2>3. ASSUME NEW j \in 1 .. Len(sortedQueue') PROVE Placeable(sortedQueue[j])'
    BY <1>3, <1>6 DEF TimesKept, Placeable, Stamped
  <2>4. QED
    BY <2>1, <2>2, <2>3 DEF TimesKept, Stamped
<1>8. EqualsInOrder'
  <2>1. ASSUME NEW i \in 1 .. Len(sortedQueue'), NEW j \in 1 .. Len(sortedQueue'), i < j
        PROVE  Before(sortedQueue'[i], sortedQueue'[j])
    <3>1. i + k < j + k
      BY <1>1, <2>1
    <3>2. QED
      BY <1>6, <3>1 DEF EqualsInOrder
  <2>2. ASSUME NEW i \in 1 .. Len(outputBuffers'), NEW j \in 1 .. Len(outputBuffers'), i < j
        PROVE  Before(outputBuffers'[i], outputBuffers'[j])
    BY <1>5, <2>2 DEF EqualsInOrder
  <2>3. ASSUME NEW i \in 1 .. Len(outputBuffers'), NEW j \in 1 .. Len(sortedQueue')
        PROVE  Before(outputBuffers'[i], sortedQueue'[j])
    <3>1. i < j + k
      BY <1>1, <1>2
    <3>2. QED
      BY <1>5, <1>6, <3>1 DEF EqualsInOrder
  <2>4. ASSUME NEW i \in 1 .. Len(written), NEW j \in 1 .. Len(outputBuffers')
        PROVE  Before(written[i], outputBuffers'[j])
    BY <1>5 DEF EqualsInOrder
  <2>5. ASSUME NEW i \in 1 .. Len(written), NEW j \in 1 .. Len(sortedQueue')
        PROVE  Before(written[i], sortedQueue'[j])
    BY <1>6 DEF EqualsInOrder
  <2>6. QED
    BY <2>1, <2>2, <2>3, <2>4, <2>5 DEF EqualsInOrder, Before
<1>9. NoneForgotten'
  <2>1. ASSUME NEW n \in 1 .. Inserted PROVE Kept(n)'
    <3>1. Kept(n)
      BY DEF NoneForgotten
    <3>2. ASSUME NEW i \in 1 .. Len(sortedQueue), sortedQueue[i].id = n
          PROVE  Kept(n)'
      <4>1. CASE i <= k
        <5>1. i \in 1 .. Len(outputBuffers') /\ i > iov' /\ outputBuffers'[i] = sortedQueue[i]
          BY <1>1, <4>1
        <5>2. QED
          BY <3>2, <5>1 DEF Kept
      <4>2. CASE i > k
        <5>1. i - k \in 1 .. Len(sortedQueue') /\ sortedQueue'[i - k] = sortedQueue[i]
          BY <1>1, <1>2, <4>2
        <5>2. QED
          BY <3>2, <5>1 DEF Kept
      <4>3. QED
        BY <1>1, <4>1, <4>2
    <3>3. CASE n \in deleted \/ \E i \in 1 .. Len(written) : written[i].id = n
      BY <3>3 DEF Kept
    <3>4. QED
      BY <1>1, <3>1, <3>2, <3>3 DEF Kept
  <2>2. pc'["stop"] # "destroyed" => pc["stop"] # "destroyed"
    BY <1>1 DEF TypeOK, Threads
  <2>3. QED
    BY <1>3, <2>1, <2>2 DEF NoneForgotten
<1>10. Counted'
  BY <1>1, <1>2 DEF Counted
<1>11. QED
  BY <1>4, <1>7, <1>8, <1>9, <1>10

LEMMA WriteFate ==
  ASSUME SinkInv, NEW r \in Threads, WriteNext(r) PROVE FateInv'
<1> USE DEF SinkInv, OrderInv, TypeInv, FateInv
<1>1. /\ iov \in Nat /\ iov' = iov + 1 /\ iov' \in 1 .. Len(outputBuffers)
      /\ Len(written') = Len(written) + 1
      /\ \A i \in 1 .. Len(written) : written'[i] = written[i]
      /\ written'[Len(written) + 1] = outputBuffers[iov']
      /\ written' # <<>>
  BY WriteFacts
<1>2. UNCHANGED <<inputQueue, batch, sortedQueue, outputBuffers, lastEmitted, pc,
                  arrived, deleted>>
  BY DEF WriteNext
<1>3. /\ Len(inputQueue) \in Nat /\ Len(batch) \in Nat /\ Len(arrived) \in Nat
      /\ Len(sortedQueue) \in Nat /\ Len(outputBuffers) \in Nat /\ Len(written) \in Nat
  BY Elements
<1>4. Inserted' = Inserted
  BY <1>2 DEF Inserted
<1>5. Numbered' /\ LateAfterOutput'
  BY <1>1, <1>2, <1>4 DEF Numbered, LateAfterOutput
<1>6. \A i \in 1 .. Len(written') :
        \/ i = Len(written) + 1 /\ written'[i] = outputBuffers[iov']
        \/ i \in 1 .. Len(written) /\ written'[i] = written[i]
  BY <1>1, <1>3
<1>7. TimesKept'
  <2>1. ASSUME NEW i \in 1 .. Len(written') PROVE Placeable(written[i])'
    BY <1>1, <1>2, <1>4, <1>6 DEF TimesKept, Placeable, Stamped
  <2>2. QED
    BY <1>2, <1>4, <2>1 DEF TimesKept, Placeable, Stamped
<1>8. EqualsInOrder'
  <2>1. ASSUME NEW i \in 1 .. Len(written'), NEW j \in 1 .. Len(written'), i < j
        PROVE  Before(written'[i], written'[j])
    <3>1. i \in 1 .. Len(written) /\ written'[i] = written[i]
      BY <1>1, <1>3, <2>1
    <3>2. CASE j \in 1 .. Len(written) /\ written'[j] = written[j]
      BY <2>1, <3>1, <3>2 DEF EqualsInOrder
    <3>3. CASE written'[j] = outputBuffers[iov']
      <4>1. iov' > iov
        BY <1>1
      <4>2. QED
        BY <1>1, <3>1, <3>3, <4>1 DEF EqualsInOrder
    <3>4. QED
      BY <1>6, <3>2, <3>3
  <2>2. ASSUME NEW i \in 1 .. Len(written'), NEW j \in 1 .. Len(outputBuffers), j > iov'
        PROVE  Before(written'[i], outputBuffers[j])
    <3>1. j > iov
      BY <1>1, <2>2
    <3>2. QED
      BY <1>1, <1>6, <2>2, <3>1 DEF EqualsInOrder
  <2>3. ASSUME NEW i \in 1 .. Len(written'), NEW j \in 1 .. Len(sortedQueue)
        PROVE  Before(written'[i], sortedQueue[j])
    BY <1>1, <1>6 DEF EqualsInOrder
  <2>4. QED
    BY <1>2, <2>1, <2>2, <2>3 DEF EqualsInOrder, Before
<1>9. NoneForgotten'
  <2>1. ASSUME NEW n \in 1 .. Inserted PROVE Kept(n)'
    <3>1. Kept(n)
      BY DEF NoneForgotten
    <3>2. CASE n \in deleted \/ \E i \in 1 .. Len(sortedQueue) : sortedQueue[i].id = n
      BY <1>2, <3>2 DEF Kept
    <3>3. ASSUME NEW i \in 1 .. Len(written), written[i].id = n PROVE Kept(n)'
      <4>1. i \in 1 .. Len(written') /\ written'[i] = written[i]
        BY <1>1, <1>3
      <4>2. QED
        BY <3>3, <4>1 DEF Kept
    <3>4. ASSUME NEW i \in 1 .. Len(outputBuffers), i > iov, outputBuffers[i].id = n
          PROVE  Kept(n)'
      <4>1. CASE i = iov'
        <5>1. Len(written) + 1 \in 1 .. Len(written')
          BY <1>1, <1>3
        <5>2. QED
          BY <1>1, <3>4, <4>1, <5>1 DEF Kept
      <4>2. CASE i # iov'
        <5>1. i > iov'
          BY <1>1, <3>4, <4>2
        <5>2. QED
          BY <1>2, <3>4, <5>1 DEF Kept
      <4>3. QED
        BY <4>1, <4>2
    <3>5. QED
      BY <3>1, <3>2, <3>3, <3>4 DEF Kept
  <2>2. QED
    BY <1>2, <1>4, <2>1 DEF NoneForgotten
<1>10. Counted'
  BY <1>1, <1>2, <1>3 DEF Counted
<1>11. QED
  BY <1>5, <1>7, <1>8, <1>9, <1>10

LEMMA FinishFate ==
  ASSUME SinkInv, NEW r \in Threads, FinishOutput(r) PROVE FateInv'
<1> USE DEF SinkInv, OrderInv, TypeInv, FateInv
<1>1. /\ iov = Len(outputBuffers) /\ iov' = 0 /\ Len(outputBuffers') = 0
      /\ written # <<>>
      /\ pc[r] = "write"
      /\ pc' = [pc EXCEPT ![r] = IF r = "poll" THEN "loop" ELSE "stopped"]
  BY FinishFacts
<1>2. UNCHANGED <<inputQueue, batch, sortedQueue, arrived, written, deleted>>
  BY DEF FinishOutput, history
<1>3. /\ Len(inputQueue) \in Nat /\ Len(batch) \in Nat /\ Len(arrived) \in Nat
      /\ Len(sortedQueue) \in Nat /\ Len(outputBuffers) \in Nat /\ Len(written) \in Nat
  BY Elements
<1>4. Inserted' = Inserted
  BY <1>2 DEF Inserted
<1>5. Numbered' /\ LateAfterOutput'
  BY <1>1, <1>2, <1>4 DEF Numbered, LateAfterOutput
<1>6. TimesKept'
  BY <1>1, <1>2, <1>4 DEF TimesKept, Placeable, Stamped
<1>7. EqualsInOrder'
  BY <1>1, <1>2 DEF EqualsInOrder, Before
<1>8. NoneForgotten'
  <2>1. ASSUME NEW n \in 1 .. Inserted PROVE Kept(n)'
    <3>1. Kept(n)
      BY DEF NoneForgotten
    <3>2. \A i \in 1 .. Len(outputBuffers) : ~(i > iov)
      BY <1>1, <1>3
    <3>3. QED
      BY <1>2, <3>1, <3>2 DEF Kept
  <2>2. pc'["stop"] # "destroyed" => pc["stop"] # "destroyed"
    BY <1>1 DEF TypeOK, Threads
  <2>3. QED
    BY <1>2, <1>4, <2>1, <2>2 DEF NoneForgotten
<1>9. Counted'
  BY <1>1, <1>2, <1>3 DEF Counted
<1>10. QED
  BY <1>5, <1>6, <1>7, <1>8, <1>9

\* The numbers of the buffers that ~BufferedSink() frees are all different.
LEMMA FreedBuffers ==
  ASSUME SinkInv, DeleteQueues
  PROVE  Cardinality(deleted') = Len(inputQueue) + Len(sortedQueue)
<1> USE DEF SinkInv, OrderInv, TypeInv, FateInv
<1> DEFINE m == Len(inputQueue)
           q == Len(sortedQueue)
           id == [i \in 1 .. m + q |-> IF i <= m THEN inputQueue[i].id
                                                 ELSE sortedQueue[i - m].id]
<1>1. /\ m \in Nat /\ q \in Nat /\ Len(batch) = 0 /\ Inserted \in Nat
      /\ \A n : n \in deleted' <=>
            \/ \E i \in 1 .. m : inputQueue[i].id = n
            \/ \E i \in 1 .. q : sortedQueue[i].id = n
  BY Elements, DeleteFacts, Numbers
<1>2. \A i \in 1 .. m : inputQueue[i].id = Inserted + i
  BY <1>1 DEF Numbered
<1>3. \A i \in 1 .. q : sortedQueue[i].id \in 1 .. Inserted
  BY DEF TimesKept, Placeable
<1>4. ASSUME NEW i \in 1 .. q, NEW j \in 1 .. q, i < j
      PROVE  sortedQueue[i].id # sortedQueue[j].id
  <2>1. sortedQueue[i].id = sortedQueue[j].id => sortedQueue[i].s_time = sortedQueue[j].s_time
    BY DEF TimesKept, Placeable, Stamped
  <2>2. Before(sortedQueue[i], sortedQueue[j])
    BY <1>4 DEF EqualsInOrder
  <2>3. QED
    BY <1>3, <2>1, <2>2 DEF Before
<1> HIDE DEF m, q
<1>5. id \in Surjection(1 .. m + q, deleted')
  <2>1. ASSUME NEW i \in 1 .. m + q PROVE id[i] \in deleted'
    <3>1. CASE i <= m
      BY <1>1, <3>1
    <3>2. CASE i > m
      <4>1. i - m \in 1 .. q /\ id[i] = sortedQueue[i - m].id
        BY <1>1, <3>2
      <4>2. QED
        BY <1>1, <4>1
    <3>3. QED
      BY <1>1, <3>1, <3>2
  <2>2. ASSUME NEW n \in deleted' PROVE \E i \in 1 .. m + q : id[i] = n
    <3>1. ASSUME NEW i \in 1 .. m, inputQueue[i].id = n PROVE \E j \in 1 .. m + q : id[j] = n
      <4>1. i \in 1 .. m + q /\ id[i] = n
        BY <1>1, <3>1
      <4>2. QED
        BY <4>1
    <3>2. ASSUME NEW i \in 1 .. q, sortedQueue[i].id = n PROVE \E j \in 1 .. m + q : id[j] = n
      <4>1. i + m \in 1 .. m + q /\ ~(i + m <= m) /\ (i + m) - m = i
        BY <1>1
      <4>2. id[i + m] = n
        BY <3>2, <4>1
      <4>3. QED
        BY <4>1, <4>2
    <3>3. QED
      BY <1>1, <3>1, <3>2
  <2> HIDE DEF id
  <2>3. id \in [1 .. m + q -> deleted']
    BY <2>1 DEF id
  <2>4. QED
    BY <2>2, <2>3 DEF Surjection
<1>6. id \in Injection(1 .. m + q, deleted')
  <2>1. ASSUME NEW i \in 1 .. m + q, NEW j \in 1 .. m + q, i < j
        PROVE  id[i] # id[j]
    <3>1. CASE j <= m
      BY <1>1, <1>2, <2>1, <3>1
    <3>2. CASE i <= m /\ j > m
      <4>1. j - m \in 1 .. q /\ id[j] = sortedQueue[j - m].id
        BY <1>1, <3>2
      <4>2. i \in 1 .. m /\ id[i] = inputQueue[i].id
        BY <1>1, <3>2
      <4>3. id[i] = Inserted + i /\ id[j] \in 1 .. Inserted
        BY <1>2, <1>3, <4>1, <4>2
      <4> HIDE DEF id
      <4>4. QED
        BY <1>1, <4>2, <4>3
    <3>3. CASE i > m
      <4>1. /\ j - m \in 1 .. q /\ id[j] = sortedQueue[j - m].id
            /\ i - m \in 1 .. q /\ id[i] = sortedQueue[i - m].id
            /\ i - m < j - m
        BY <1>1, <2>1, <3>3
      <4> HIDE DEF id
      <4>2. QED
        BY <1>4, <4>1
    <3>4. QED
      BY <1>1, <3>1, <3>2, <3>3
  <2> HIDE DEF id
  <2>2. \A i, j \in 1 .. m + q : id[i] = id[j] => i = j
    <3>1. \A i, j \in 1 .. m + q : i < j \/ j < i \/ i = j
      BY <1>1
    <3>2. QED
      BY <2>1, <3>1
  <2>3. QED
    BY <1>5, <2>2 DEF Injection, IsInjective, Surjection
<1> HIDE DEF id
<1>7. m + q \in Nat
  BY <1>1
<1>8. IsFiniteSet(1 .. m + q) /\ Cardinality(1 .. m + q) = m + q
  BY <1>7, FS_Interval
<1>9. Cardinality(deleted') = m + q
  BY <1>5, <1>6, <1>8, FS_Surjection
<1>10. QED
  BY <1>9 DEF m, q

LEMMA DeleteFate ==
  ASSUME SinkInv, DeleteQueues PROVE FateInv'
<1> USE DEF SinkInv, OrderInv, TypeInv, FateInv
<1>1. /\ Len(batch) = 0 /\ Len(outputBuffers) = 0 /\ iov = 0
      /\ Len(inputQueue') = 0 /\ Len(sortedQueue') = 0
      /\ \A n : n \in deleted' <=>
            \/ \E i \in 1 .. Len(inputQueue) : inputQueue[i].id = n
            \/ \E i \in 1 .. Len(sortedQueue) : sortedQueue[i].id = n
      /\ pc["stop"] = "stopped" /\ pc' = [pc EXCEPT !["stop"] = "destroyed"]
  BY DeleteFacts
<1>2. UNCHANGED <<batch, outputBuffers, iov, lastEmitted, arrived, written>>
  BY DEF DeleteQueues
<1>3. /\ Len(inputQueue) \in Nat /\ Len(arrived) \in Nat
      /\ Len(sortedQueue) \in Nat /\ Len(written) \in Nat
  BY Elements
<1>4. Inserted + Len(inputQueue) = Len(arrived) /\ Inserted \in 0 .. Len(arrived)
  BY <1>1, Numbers, <1>3
<1>5. Inserted' = Len(arrived)
  BY <1>1, <1>2, <1>3 DEF Inserted
<1>6. Numbered' /\ LateAfterOutput'
  BY <1>1, <1>2, <1>3, <1>5 DEF Numbered, LateAfterOutput
<1>7. TimesKept'
  <2>1. ASSUME NEW i \in 1 .. Len(written) PROVE Placeable(written[i])'
    BY <1>2, <1>3, <1>4, <1>5 DEF TimesKept, Placeable, Stamped
  <2>2. QED
    BY <1>1, <1>2, <2>1 DEF TimesKept
<1>8. EqualsInOrder'
  BY <1>1, <1>2 DEF EqualsInOrder, Before
<1>9. NoneForgotten'
  <2>1. ASSUME NEW n \in 1 .. Len(arrived) PROVE Kept(n)'
    <3>1. CASE n \in 1 .. Inserted
      <4>1. deleted = {}
        BY <1>1 DEF NoneForgotten
      <4>2. Kept(n)
        BY <3>1 DEF NoneForgotten
      <4>3. QED
        BY <1>1, <1>2, <4>1, <4>2 DEF Kept
    <3>2. CASE n \notin 1 .. Inserted
      <4>1. n - Inserted \in 1 .. Len(inputQueue)
        BY <1>3, <1>4, <3>2
      <4>2. inputQueue[n - Inserted].id = n
        BY <1>1, <1>4, <4>1 DEF Numbered
      <4>3. QED
        BY <1>1, <4>1, <4>2 DEF Kept
    <3>3. QED
      BY <3>1, <3>2
  <2>2. pc'["stop"] = "destroyed"
    BY <1>1 DEF TypeOK, Threads
  <2>3. ASSUME NEW n \in deleted' PROVE n \in 1 .. Len(arrived)
    <3>1. CASE \E i \in 1 .. Len(inputQueue) : inputQueue[i].id = n
      BY <3>1, <1>3, <1>4, Numbers
    <3>2. CASE \E i \in 1 .. Len(sortedQueue) : sortedQueue[i].id = n
      BY <3>2, <1>3, <1>4 DEF TimesKept, Placeable
    <3>3. QED
      BY <1>1, <3>1, <3>2
  <2>4. QED
    BY <1>5, <2>1, <2>2, <2>3 DEF NoneForgotten
<1>10. Counted'
  <2>1. Cardinality(deleted) = 0
    BY <1>1, FS_EmptySet DEF NoneForgotten
  <2>2. Cardinality(deleted') = Len(inputQueue) + Len(sortedQueue)
    BY FreedBuffers
  <2>3. QED
    BY <1>1, <1>2, <1>3, <2>1, <2>2 DEF Counted
<1>11. QED
  BY <1>6, <1>7, <1>8, <1>9, <1>10

LEMMA SinkStep == SinkInv /\ [Next]_vars => SinkInv'
<1> SUFFICES ASSUME SinkInv, [Next]_vars PROVE FateInv'
  BY OrderStep DEF SinkInv
<1> USE DEF SinkInv
<1>1. TypeInv
  BY DEF OrderInv
<1>2. CASE QuietStep
  <2>1. CASE \E p \in Producers : Push(p)
    BY <2>1, PushFate
  <2>2. CASE \E r \in Threads : Pop(r)
    BY <2>2, PopFate
  <2>3. CASE ~(\E p \in Producers : Push(p)) /\ ~(\E r \in Threads : Pop(r))
    <3>1. Still /\ (pc["stop"] = "destroyed" <=> pc'["stop"] = "destroyed")
      BY <1>1, <1>2, <2>3, StillSteps DEF QuietStep
    <3>2. QED
      BY <3>1, StillFate
  <2>4. QED
    BY <2>1, <2>2, <2>3
<1>3. ASSUME NEW r \in Threads, InsertBuffer(r) \/ WriteNext(r) \/ FinishOutput(r)
      PROVE  FateInv'
  BY <1>3, InsertFate, WriteFate, FinishFate
<1>4. CASE OutputWindow
  BY <1>4, TakeFate DEF OutputWindow, Threads, history
<1>5. CASE OutputOnTimeout
  BY <1>5, TakeFate DEF OutputOnTimeout, Threads
<1>6. CASE Flush /\ sortedQueue # <<>>
  BY <1>6, TakeFate DEF Flush, Threads, history
<1>7. CASE DeleteQueues
  BY <1>7, DeleteFate
<1>8. QED
  BY <1>2, <1>3, <1>4, <1>5, <1>6, <1>7
  DEF Next, Step, Poll, Stop, Drain, Output, Terminated, QuietStep, Threads

LEMMA SinkSafe == Spec => []SinkInv
<1>1. Init => SinkInv
  BY OrderInit, FateInit DEF SinkInv
<1>2. QED
  BY <1>1, SinkStep, PTL DEF Spec

-----------------------------------------------------------------------------
(* What the invariant says about the sink.                                 *)

\* Two data sources of one event: their buffers keep the order of addData()
\* through the batches, insertBuffer() and both kinds of output.
THEOREM EqualTimesInPushOrder == Spec => []SameTimeInPushOrder
<1>1. SinkInv => SameTimeInPushOrder
  BY DEF SinkInv, FateInv, EqualsInOrder, Before, SameTimeInPushOrder
<1>2. QED
  BY <1>1, SinkSafe, PTL

Ids(q) == {q[i].id : i \in 1 .. Len(q)}

LEMMA IdsOfConcat ==
  ASSUME NEW q \in Seq(Buffer), NEW s \in Seq(Buffer)
  PROVE  /\ q \o s \in Seq(Buffer) /\ Len(q \o s) = Len(q) + Len(s)
         /\ Ids(q \o s) = Ids(q) \cup Ids(s)
<1>1. /\ q \o s \in Seq(Buffer) /\ Len(q \o s) = Len(q) + Len(s)
      /\ \A i \in 1 .. Len(q) + Len(s) :
           (q \o s)[i] = IF i <= Len(q) THEN q[i] ELSE s[i - Len(q)]
  BY ConcatProperties
<1>2. Len(q) \in Nat /\ Len(s) \in Nat
  OBVIOUS
<1> DEFINE c == q \o s
<1> HIDE DEF c
<1>3. ASSUME NEW n \in Ids(c) PROVE n \in Ids(q) \cup Ids(s)
  <2>1. PICK i \in 1 .. Len(q) + Len(s) : n = c[i].id
    BY <1>1, <1>3 DEF Ids, c
  <2>2. CASE i <= Len(q)
    BY <1>1, <1>2, <2>1, <2>2 DEF Ids, c
  <2>3. CASE i > Len(q)
    <3>1. i - Len(q) \in 1 .. Len(s) /\ c[i] = s[i - Len(q)]
      BY <1>1, <1>2, <2>3 DEF c
    <3>2. QED
      BY <2>1, <3>1 DEF Ids
  <2>4. QED
    BY <1>2, <2>2, <2>3
<1>4. ASSUME NEW n \in Ids(q) PROVE n \in Ids(c)
  <2>1. PICK i \in 1 .. Len(q) : n = q[i].id
    BY <1>4 DEF Ids
  <2>2. i \in 1 .. Len(c) /\ c[i] = q[i]
    BY <1>1, <1>2 DEF c
  <2>3. QED
    BY <2>1, <2>2 DEF Ids
<1>5. ASSUME NEW n \in Ids(s) PROVE n \in Ids(c)
  <2>1. PICK i \in 1 .. Len(s) : n = s[i].id
    BY <1>5 DEF Ids
  <2>2. /\ i + Len(q) \in 1 .. Len(q) + Len(s) /\ ~(i + Len(q) <= Len(q))
        /\ (i + Len(q)) - Len(q) = i
    BY <1>2
  <2>3. i + Len(q) \in 1 .. Len(c) /\ c[i + Len(q)] = s[i]
    BY <1>1, <2>2 DEF c
  <2>4. QED
    BY <2>1, <2>3 DEF Ids
<1>6. QED
  BY <1>1, <1>3, <1>4, <1>5 DEF c

\* Every accepted buffer is in one place, whatever is interleaved with the
\* moves between the queues: none is lost, written twice or freed when written.
THEOREM OnePlaceEach == Spec => []EachBufferOnce
<1>1. ASSUME SinkInv PROVE EachBufferOnce
  <2> USE DEF SinkInv, OrderInv, TypeInv, FateInv
  <2> DEFINE out == SubSeq(outputBuffers, iov + 1, Len(outputBuffers))
  <2>1. /\ inputQueue \in Seq(Buffer) /\ batch \in Seq(Buffer) /\ sortedQueue \in Seq(Buffer)
        /\ outputBuffers \in Seq(Buffer) /\ written \in Seq(Buffer)
    BY <1>1 DEF TypeOK
  <2>2. /\ Len(inputQueue) \in Nat /\ Len(batch) \in Nat /\ Len(arrived) \in Nat
        /\ Len(sortedQueue) \in Nat /\ Len(outputBuffers) \in Nat /\ Len(written) \in Nat
        /\ iov \in 0 .. Len(outputBuffers)
    BY <1>1, Elements DEF TypeOK
  <2>3. /\ out \in Seq(Buffer) /\ Len(out) = Len(outputBuffers) - iov
        /\ \A j \in 1 .. Len(outputBuffers) - iov : out[j] = outputBuffers[j + iov]
    BY <2>1, <2>2, SplitProperties
  <2> HIDE DEF out
  <2>4. /\ Len(Placed) = Len(inputQueue) + Len(batch) + Len(sortedQueue) + Len(out) + Len(written)
        /\ Ids(Placed) = Ids(inputQueue) \cup Ids(batch) \cup Ids(sortedQueue)
                           \cup Ids(out) \cup Ids(written)
    <3>1. Placed = (((inputQueue \o batch) \o sortedQueue) \o out) \o written
      BY DEF Placed, Held, out
    <3> DEFINE q1 == inputQueue \o batch
               q2 == q1 \o sortedQueue
               q3 == q2 \o out
    <3>2. /\ q1 \in Seq(Buffer) /\ Len(q1) = Len(inputQueue) + Len(batch)
          /\ Ids(q1) = Ids(inputQueue) \cup Ids(batch)
      BY <2>1, IdsOfConcat
    <3> HIDE DEF q1
    <3>3. /\ q2 \in Seq(Buffer) /\ Len(q2) = Len(q1) + Len(sortedQueue)
          /\ Ids(q2) = Ids(q1) \cup Ids(sortedQueue)
      BY <2>1, <3>2, IdsOfConcat
    <3> HIDE DEF q2
    <3>4. /\ q3 \in Seq(Buffer) /\ Len(q3) = Len(q2) + Len(out)
          /\ Ids(q3) = Ids(q2) \cup Ids(out)
      BY <2>3, <3>3, IdsOfConcat
    <3> HIDE DEF q3
    <3>5. /\ Len(q3 \o written) = Len(q3) + Len(written)
          /\ Ids(q3 \o written) = Ids(q3) \cup Ids(written)
      BY <2>1, <3>4, IdsOfConcat
    <3>6. Placed = q3 \o written
      BY <3>1 DEF q1, q2, q3
    <3>7. Len(Placed) = Len(inputQueue) + Len(batch) + Len(sortedQueue) + Len(out) + Len(written)
      BY <3>2, <3>3, <3>4, <3>5, <3>6
    <3>8. QED
      BY <3>2, <3>3, <3>4, <3>5, <3>6, <3>7
  <2>5. Len(Placed) + Cardinality(deleted) = Len(arrived)
    BY <1>1, <2>2, <2>3, <2>4 DEF Counted
  <2>6. /\ Inserted \in 0 .. Len(arrived)
        /\ Inserted + Len(batch) + Len(inputQueue) = Len(arrived)
    BY <1>1, Numbers
  <2>7. ASSUME NEW n \in Ids(Placed) \cup deleted PROVE n \in 1 .. Len(arrived)
    <3>1. Ids(inputQueue) \subseteq 1 .. Len(arrived) /\ Ids(batch) \subseteq 1 .. Len(arrived)
      BY <1>1, <2>2, <2>6, Numbers, SMTT(30) DEF Ids
    <3>2. 1 .. Inserted \subseteq 1 .. Len(arrived)
      BY <2>2, <2>6
    <3>3. Ids(sortedQueue) \subseteq 1 .. Inserted /\ Ids(written) \subseteq 1 .. Inserted
      BY <1>1 DEF Ids, TimesKept, Placeable
    <3>4. Ids(out) \subseteq 1 .. Inserted
      <4>1. ASSUME NEW j \in 1 .. Len(out) PROVE out[j].id \in 1 .. Inserted
        <5>1. j + iov \in 1 .. Len(outputBuffers) /\ out[j] = outputBuffers[j + iov]
          BY <2>2, <2>3
        <5>2. QED
          BY <1>1, <5>1 DEF TimesKept, Placeable
      <4>2. QED
        BY <4>1 DEF Ids
    <3>5. deleted \subseteq 1 .. Inserted
      BY <1>1 DEF NoneForgotten
    <3>6. QED
      BY <2>4, <2>7, <3>1, <3>2, <3>3, <3>4, <3>5
  <2>8. ASSUME NEW n \in 1 .. Len(arrived) PROVE n \in Ids(Placed) \cup deleted
    <3>1. CASE n <= Inserted
      <4>1. Kept(n)
        BY <1>1, <2>6, <3>1 DEF NoneForgotten
      <4>2. ASSUME NEW i \in 1 .. Len(outputBuffers), i > iov, outputBuffers[i].id = n
            PROVE  n \in Ids(out)
        <5>1. i - iov \in 1 .. Len(out) /\ (i - iov) + iov = i
          BY <2>2, <2>3, <4>2
        <5>2. out[i - iov] = outputBuffers[i]
          BY <2>3, <5>1
        <5>3. QED
          BY <4>2, <5>1, <5>2 DEF Ids
      <4>3. QED
        BY <2>4, <4>1, <4>2 DEF Kept, Ids
    <3>2. CASE n > Inserted /\ n <= Inserted + Len(batch)
      <4>1. n - Inserted \in 1 .. Len(batch) /\ Inserted + (n - Inserted) = n
        BY <2>2, <2>6, <3>2
      <4>2. batch[n - Inserted].id = n
        BY <1>1, <4>1 DEF Numbered
      <4>3. QED
        BY <2>4, <4>1, <4>2 DEF Ids
    <3>3. CASE n > Inserted + Len(batch)
      <4>1. /\ n - Inserted - Len(batch) \in 1 .. Len(inputQueue)
            /\ Inserted + Len(batch) + (n - Inserted - Len(batch)) = n
        BY <2>2, <2>6, <3>3
      <4>2. inputQueue[n - Inserted - Len(batch)].id = n
        BY <1>1, <4>1 DEF Numbered
      <4>3. QED
        BY <2>4, <4>1, <4>2 DEF Ids
    <3>4. QED
      BY <2>2, <2>6, <3>1, <3>2, <3>3
  <2>9. QED
    BY <2>5, <2>7, <2>8 DEF EachBufferOnce, Ids
<1>2. QED
  BY <1>1, SinkSafe, PTL

-----------------------------------------------------------------------------
(* The inductive invariants.                                               *)

\* One call of stopThreads() takes one batch off what was queued at the join.
Left(n) == IF backlog > n * BatchSize THEN backlog - n * BatchSize ELSE 0
StopInv ==
  /\ stops > 0 => pc["poll"] = "done"
  /\ pc["stop"] \in {"drain", "sort", "check", "write", "stopped"} => stops > 0
  /\ pc["stop"] = "drain" =>
       /\ Len(batch) <= BatchSize
       /\ Len(inputQueue) + Len(batch) = Left(stops - 1)
  /\ pc["stop"] \in {"sort", "check", "write", "stopped"} => Len(inputQueue) = Left(stops)
  /\ pc["stop"] \in {"notify", "join"} /\ stops > 0 => Len(inputQueue) = Left(stops)
  /\ pc["stop"] \in {"write", "stopped"} => sortedQueue = <<>>

\* A buffer that the window let out is more than a window older than one that
\* was inserted, until the first flush.
BeforeFlush == stops = 0 \/ (stops = 1 /\ pc["stop"] \in {"drain", "sort", "check"})
Overtaken(b) == \E n \in 1 .. Inserted : b.s_time + Window <= arrived[n]
Calm == ~Skewed /\ ~timedOut /\ stops < 2
WindowInv ==
  Calm =>
    /\ SortedByTime(written)
    /\ \A i \in 1 .. Len(written), j \in 1 .. Len(outputBuffers) :
         j > iov => written[i].s_time <= outputBuffers[j].s_time
    /\ \A i \in 1 .. Len(written), j \in 1 .. Len(sortedQueue) :
         written[i].s_time <= sortedQueue[j].s_time
    /\ BeforeFlush =>
         /\ \A i \in 1 .. Len(written) : Overtaken(written[i])
         /\ \A i \in 1 .. Len(outputBuffers) : Overtaken(outputBuffers[i])

-----------------------------------------------------------------------------
(* Invariance: what a stop leaves behind.                                  *)

LEMMA StopInit == Init => StopInv
  BY DEF Init, StopInv, Threads

\* Before the first join there is nothing to show.
LEMMA BeforeJoin ==
  ASSUME stops' = 0, pc'["stop"] \in {"idle", "notify", "join"} PROVE StopInv'
  BY DEF StopInv

LEMMA SameStop ==
  ASSUME StopInv, UNCHANGED <<inputQueue, batch, sortedQueue, stops, backlog, pc>>
  PROVE  StopInv'
  BY DEF StopInv, Left

\* While the output thread runs no stop has joined.
LEMMA PollStep ==
  ASSUME TypeInv, StopInv, pc["poll"] # "done", stops' = stops, pc'["stop"] = pc["stop"]
  PROVE  StopInv'
<1>1. stops = 0 /\ pc["stop"] \in {"idle", "notify", "join"}
  BY DEF TypeInv, TypeOK, StopAfterPoll, StopLocs, StopInv
<1>2. QED
  BY <1>1, BeforeJoin

\* drainAndSort() in the caller of stopThreads() ends with a full batch or with
\* the input queue empty.
LEMMA BatchTaken ==
  ASSUME TypeInv, StopInv, EndPop("stop")
  PROVE  Len(inputQueue) = Left(stops)
<1>1. /\ stops \in {1, 2} /\ Len(batch) <= BatchSize
      /\ Len(inputQueue) + Len(batch) = Left(stops - 1)
  BY DEF EndPop, StopInv, TypeInv, TypeOK
<1>2. Len(batch) \in Nat /\ Len(inputQueue) \in Nat /\ backlog \in Nat /\ BatchSize \in Nat \ {0}
  BY BatchAssumption DEF TypeInv, TypeOK
<1>3. Len(batch) = BatchSize \/ Len(inputQueue) = 0
  BY <1>1, <1>2, EmptySeq DEF EndPop, BatchOpen
<1>4. CASE stops = 1
  <2>1. Len(inputQueue) + Len(batch) = backlog
    BY <1>1, <1>2, <1>4 DEF Left
  <2>2. Left(stops) = IF backlog > BatchSize THEN backlog - BatchSize ELSE 0
    BY <1>2, <1>4 DEF Left
  <2>3. QED
    BY <1>1, <1>2, <1>3, <2>1, <2>2
<1>5. CASE stops = 2
  <2>1. Len(inputQueue) + Len(batch) = IF backlog > BatchSize THEN backlog - BatchSize ELSE 0
    BY <1>1, <1>2, <1>5 DEF Left
  <2>2. Left(stops) = IF backlog > BatchSize + BatchSize
                        THEN backlog - (BatchSize + BatchSize) ELSE 0
    BY <1>2, <1>5 DEF Left
  <2>3. QED
    BY <1>1, <1>2, <1>3, <2>1, <2>2
<1>6. QED
  BY <1>1, <1>4, <1>5

\* A flush takes the whole sorted queue.
LEMMA FlushTakesAll ==
  ASSUME OrderInv, NEW r \in Threads, pc[r] = "check", sortedQueue # <<>>, Take(r, FlushUntil)
  PROVE  sortedQueue' = <<>>
<1> USE DEF OrderInv, TypeInv
<1>1. PICK k \in 0 .. Len(sortedQueue) :
        /\ Len(sortedQueue') = Len(sortedQueue) - k
        /\ k < Len(sortedQueue) => sortedQueue[k + 1].s_time > FlushUntil
  BY TakeFacts
<1>2. /\ sortedQueue \in Seq(Buffer) /\ Len(sortedQueue) \in Nat \ {0}
      /\ \A i \in 1 .. Len(sortedQueue) : sortedQueue[i].s_time \in Nat
      /\ FlushUntil = sortedQueue[Len(sortedQueue)].s_time
  BY Elements, EmptySeq DEF TypeOK, FlushUntil, Last
<1>3. CASE k < Len(sortedQueue)
  <2>1. k + 1 \in 1 .. Len(sortedQueue) /\ (k + 1 < Len(sortedQueue) \/ k + 1 = Len(sortedQueue))
    BY <1>2, <1>3
  <2>2. sortedQueue[k + 1].s_time <= sortedQueue[Len(sortedQueue)].s_time
    BY <1>2, <2>1 DEF SinkInOrder, SortedQueueOrdered, SortedByTime
  <2>3. QED
    BY <1>1, <1>2, <1>3, <2>1, <2>2
<1>4. CASE k = Len(sortedQueue)
  <2>1. Len(sortedQueue') = 0
    BY <1>1, <1>2, <1>4
  <2>2. sortedQueue' \in Seq(Buffer)
    BY <1>2, SplitProperties DEF Take
  <2>3. QED
    BY <2>1, <2>2, EmptySeq
<1>5. QED
  BY <1>1, <1>3, <1>4, <1>2

LEMMA StopStep == OrderInv /\ StopInv /\ [Next]_vars => StopInv'
<1> SUFFICES ASSUME OrderInv, StopInv, [Next]_vars PROVE StopInv'
  OBVIOUS
<1> USE DEF queues, history
<1>1. TypeInv
  BY DEF OrderInv
<1>2. /\ pc \in [Threads -> PollLocs \cup StopLocs] /\ pc["stop"] \in StopLocs
      /\ stops \in 0 .. 2 /\ backlog \in Nat /\ BatchSize \in Nat \ {0}
      /\ Len(inputQueue) \in Nat /\ Len(batch) \in Nat
  BY <1>1, BatchAssumption DEF TypeInv, TypeOK
<1>3. ASSUME NEW p \in Producers, Push(p) \/ PushFails(p)
      PROVE  StopInv'
  <2>1. pc["stop"] = "idle" /\ pc' = pc /\ stops' = stops /\ stops = 0
    BY <1>1, <1>3 DEF Push, PushFails, CanAdd, TypeInv, StopAfterPoll
  <2>2. QED
    BY <2>1, BeforeJoin
<1>4. ASSUME NEW p \in Producers, NotifyOne(p)
      PROVE  StopInv'
  <2>1. CASE pc["poll"] = "done"
    <3>1. pc' = pc
      BY <1>2, <1>4, <2>1 DEF NotifyOne, Woken, Threads
    <3>2. QED
      BY <1>4, <3>1, SameStop DEF NotifyOne
  <2>2. CASE pc["poll"] # "done"
    <3>1. pc'["stop"] = pc["stop"] /\ stops' = stops
      BY <1>2, <1>4 DEF NotifyOne, Woken, Threads
    <3>2. QED
      BY <1>1, <2>2, <3>1, PollStep
  <2>3. QED
    BY <2>1, <2>2
<1>5. ASSUME LoopTop \/ OutputWindow \/ OutputOnTimeout \/ WaitForInput \/ WakeTimeout \/ Tick
      PROVE  StopInv'
  <2>1. pc["poll"] # "done" /\ stops' = stops /\ pc'["stop"] = pc["stop"]
    BY <1>2, <1>5 DEF LoopTop, OutputWindow, OutputOnTimeout, WaitForInput, WakeTimeout,
       Tick, Take, Woken, Threads
  <2>2. QED
    BY <1>1, <2>1, PollStep
<1>6. ASSUME \/ Pop("poll") \/ EndPop("poll") \/ InsertBuffer("poll") \/ EndSort("poll")
             \/ WriteNext("poll") \/ FinishOutput("poll")
      PROVE  StopInv'
  <2>1. pc["poll"] # "done" /\ stops' = stops /\ pc'["stop"] = pc["stop"]
    BY <1>2, <1>6 DEF Pop, EndPop, InsertBuffer, EndSort, WriteNext, FinishOutput, Threads
  <2>2. QED
    BY <1>1, <2>1, PollStep
<1>7. ASSUME \/ \E r \in Threads : WriteFails(r)
             \/ Exit \/ UNCHANGED vars
      PROVE  StopInv'
  BY <1>7, SameStop DEF WriteFails, Exit, vars
<1>8. CASE StopThreads
  <2>1. CASE pc["stop"] = "idle"
    <3>1. stops' = 0 /\ pc'["stop"] = "notify"
      BY <1>1, <1>2, <1>8, <2>1 DEF StopThreads, TypeInv, StopAfterPoll, Threads
    <3>2. QED
      BY <3>1, BeforeJoin
  <2>2. CASE pc["stop"] = "stopped" /\ stops = 1
    <3>1. /\ UNCHANGED <<inputQueue, stops, backlog>>
          /\ pc'["stop"] = "notify" /\ pc'["poll"] = pc["poll"]
      BY <1>2, <1>8 DEF StopThreads, Threads
    <3>2. QED
      BY <2>2, <3>1 DEF StopInv, Left
  <2>3. QED
    BY <1>8, <2>1, <2>2 DEF StopThreads
<1>9. CASE NotifyAll
  <2>1. /\ UNCHANGED <<inputQueue, stops, backlog>>
        /\ pc["stop"] = "notify" /\ pc'["stop"] = "join"
        /\ pc["poll"] = "done" => pc'["poll"] = "done"
    BY <1>2, <1>9 DEF NotifyAll, Woken, Threads
  <2>2. QED
    BY <2>1 DEF StopInv, Left
<1>10. CASE Join
  <2>1. /\ UNCHANGED <<inputQueue, batch>> /\ stops' = stops + 1
        /\ pc["stop"] = "join" /\ pc'["stop"] = "drain"
        /\ pc["poll"] = "done" /\ pc'["poll"] = "done"
        /\ backlog' = IF stops = 0 THEN Len(inputQueue) ELSE backlog
    BY <1>2, <1>10 DEF Join, Threads
  <2>2. Len(batch) = 0
    <3>1. batch = <<>>
      BY <2>1 DEF OrderInv, SinkInOrder, StackEmpty, Threads
    <3>2. QED
      BY <3>1, EmptySeq
  <2>3. Len(inputQueue) = IF backlog' > stops * BatchSize
                            THEN backlog' - stops * BatchSize ELSE 0
    <3>1. CASE stops = 0
      BY <1>2, <2>1, <3>1
    <3>2. CASE stops # 0
      BY <1>2, <2>1, <3>2 DEF StopInv, Left
    <3>3. QED
      BY <3>1, <3>2
  <2>4. stops' - 1 = stops /\ Len(inputQueue') + Len(batch') = Len(inputQueue)
    BY <1>2, <2>1, <2>2
  <2>5. Len(batch') <= BatchSize /\ stops' > 0
    BY <1>2, <2>1, <2>2
  <2>6. QED
    BY <2>1, <2>3, <2>4, <2>5 DEF StopInv, Left
<1>11. CASE Pop("stop")
  <2>1. pc' = pc /\ pc["stop"] = "drain" /\ stops' = stops /\ backlog' = backlog
    BY <1>11 DEF Pop
  <2>2. /\ Len(inputQueue') = Len(inputQueue) - 1
        /\ Len(batch') = Len(batch) + 1 /\ Len(inputQueue) \in Nat \ {0}
    BY <1>1, <1>11, PopFacts DEF Threads
  <2>3. Len(batch') <= BatchSize
    BY <1>2, <1>11, <2>2 DEF Pop, BatchOpen
  <2>4. QED
    BY <1>2, <2>1, <2>2, <2>3 DEF StopInv, Left
<1>12. CASE EndPop("stop")
  <2>1. Len(inputQueue) = Left(stops)
    BY <1>1, <1>12, BatchTaken
  <2>2. /\ UNCHANGED <<inputQueue, stops, backlog>> /\ pc["stop"] = "drain"
        /\ pc'["poll"] = pc["poll"] /\ pc'["stop"] \in {"sort", "check"}
    BY <1>2, <1>12 DEF EndPop, Threads
  <2>3. QED
    BY <2>1, <2>2 DEF StopInv, Left
<1>13. CASE InsertBuffer("stop") \/ EndSort("stop")
  <2>1. /\ UNCHANGED <<inputQueue, stops, backlog>> /\ pc["stop"] = "sort"
        /\ pc'["poll"] = pc["poll"] /\ pc'["stop"] \in {"sort", "check"}
    BY <1>2, <1>13 DEF InsertBuffer, EndSort, Threads
  <2>2. QED
    BY <2>1 DEF StopInv, Left
<1>14. CASE Flush
  <2>1. /\ UNCHANGED <<inputQueue, stops, backlog>> /\ pc["stop"] = "check"
        /\ pc'["poll"] = pc["poll"] /\ pc'["stop"] \in {"write", "stopped"}
    BY <1>2, <1>14 DEF Flush, Take, Threads
  <2>2. sortedQueue' = <<>>
    BY <1>14, FlushTakesAll DEF Flush, Threads
  <2>3. QED
    BY <2>1, <2>2 DEF StopInv, Left
<1>15. CASE WriteNext("stop") \/ FinishOutput("stop")
  <2>1. /\ UNCHANGED <<inputQueue, sortedQueue, stops, backlog>> /\ pc["stop"] = "write"
        /\ pc'["poll"] = pc["poll"] /\ pc'["stop"] \in {"write", "stopped"}
    BY <1>2, <1>15 DEF WriteNext, FinishOutput, Threads
  <2>2. QED
    BY <2>1 DEF StopInv, Left
<1>16. CASE DeleteQueues
  <2>1. /\ stops' = stops /\ pc["stop"] = "stopped"
        /\ pc'["poll"] = pc["poll"] /\ pc'["stop"] = "destroyed"
    BY <1>2, <1>16 DEF DeleteQueues, Threads
  <2>2. QED
    BY <2>1 DEF StopInv
<1>17. QED
  BY <1>3, <1>4, <1>5, <1>6, <1>7, <1>8, <1>9, <1>10, <1>11, <1>12, <1>13, <1>14, <1>15, <1>16
  DEF Next, Step, Poll, Stop, Drain, Output, Terminated, Threads

\* stopThreads() flushes whatever has been sorted, but takes only one batch off
\* the input queue: what a stop leaves is the rest of the backlog, exactly.
THEOREM StopLeavesBacklog == Spec => []StopLeavesOnlyBacklog
<1>1. Spec => [](OrderInv /\ StopInv)
  <2>1. Init => OrderInv /\ StopInv
    BY OrderInit, StopInit
  <2>2. (OrderInv /\ StopInv) /\ [Next]_vars => (OrderInv /\ StopInv)'
    BY OrderStep, StopStep
  <2>3. QED
    BY <2>1, <2>2, PTL DEF Spec
<1>2. ASSUME OrderInv, StopInv PROVE StopLeavesOnlyBacklog
  <2>1. SUFFICES ASSUME pc["stop"] = "stopped" PROVE StopLeavesOnlyBacklog
    BY DEF StopLeavesOnlyBacklog
  <2>2. batch = <<>> /\ outputBuffers = <<>>
    BY <1>2, <2>1 DEF OrderInv, TypeInv, StopAfterPoll, SinkInOrder, StackEmpty, Threads
  <2>3. QED
    BY <1>2, <2>1, <2>2 DEF StopInv, Left, StopLeavesOnlyBacklog
<1>3. QED
  BY <1>1, <1>2, PTL

-----------------------------------------------------------------------------
(* Invariance: the window absorbs the skew of the sources.                 *)

LEMMA WindowInit == Init => WindowInv
<1> SUFFICES ASSUME Init PROVE WindowInv
  OBVIOUS
<1>1. Len(written) = 0 /\ Len(outputBuffers) = 0
  BY EmptySeq DEF Init
<1>2. QED
  BY <1>1 DEF WindowInv, SortedByTime

\* A timeout and a second stop are for ever; so is the first flush.
Onward ==
  /\ stops' < 2 => stops < 2
  /\ timedOut => timedOut'
  /\ BeforeFlush' => BeforeFlush

LEMMA StopsGoOn == TypeInv /\ [Next]_vars => Onward
<1> SUFFICES ASSUME TypeInv, [Next]_vars PROVE Onward
  OBVIOUS
<1> USE DEF queues, history
<1>1. /\ pc \in [Threads -> PollLocs \cup StopLocs] /\ stops \in 0 .. 2
  BY DEF TypeInv, TypeOK
<1>2. ASSUME UNCHANGED <<stops, timedOut>>, pc'["stop"] = pc["stop"] PROVE Onward
  BY <1>2 DEF Onward, BeforeFlush
<1>3. ASSUME NEW p \in Producers, Push(p) \/ PushFails(p) \/ NotifyOne(p) PROVE Onward
  BY <1>1, <1>2, <1>3 DEF Push, PushFails, NotifyOne, Woken, Threads
<1>4. ASSUME LoopTop \/ OutputWindow \/ WaitForInput \/ WakeTimeout \/ Tick PROVE Onward
  BY <1>1, <1>2, <1>4
  DEF LoopTop, OutputWindow, Take, WaitForInput, WakeTimeout, Woken, Tick, Threads
<1>5. ASSUME \/ Pop("poll") \/ EndPop("poll") \/ InsertBuffer("poll") \/ EndSort("poll")
             \/ WriteNext("poll") \/ FinishOutput("poll")
      PROVE  Onward
  BY <1>1, <1>2, <1>5 DEF Pop, EndPop, InsertBuffer, EndSort, WriteNext, FinishOutput, Threads
<1>6. CASE OutputOnTimeout
  <2>1. stops' = stops /\ pc'["stop"] = pc["stop"] /\ timedOut'
    BY <1>1, <1>6 DEF OutputOnTimeout, Take, Threads
  <2>2. QED
    BY <2>1 DEF Onward, BeforeFlush
<1>7. ASSUME (\E r \in Threads : WriteFails(r)) \/ Exit \/ UNCHANGED vars PROVE Onward
  BY <1>2, <1>7 DEF WriteFails, Exit, vars
<1>8. CASE StopThreads \/ NotifyAll
  <2>1. UNCHANGED <<stops, timedOut>> /\ pc'["stop"] \in {"notify", "join"}
    BY <1>1, <1>8 DEF StopThreads, NotifyAll, Woken, Threads
  <2>2. QED
    BY <2>1 DEF Onward, BeforeFlush
<1>9. CASE Join
  <2>1. stops' = stops + 1 /\ timedOut' = timedOut
    BY <1>9 DEF Join
  <2>2. QED
    BY <1>1, <2>1 DEF Onward, BeforeFlush
<1>10. ASSUME Pop("stop") \/ EndPop("stop") \/ InsertBuffer("stop") \/ EndSort("stop")
       PROVE  Onward
  <2>1. /\ UNCHANGED <<stops, timedOut>> /\ pc["stop"] \in {"drain", "sort"}
    BY <1>10 DEF Pop, EndPop, InsertBuffer, EndSort
  <2>2. QED
    BY <1>1, <2>1 DEF Onward, BeforeFlush
<1>11. ASSUME Flush \/ WriteNext("stop") \/ FinishOutput("stop") \/ DeleteQueues PROVE Onward
  <2>1. /\ UNCHANGED <<stops, timedOut>>
        /\ pc'["stop"] \in {"write", "stopped", "destroyed"}
    BY <1>1, <1>11 DEF Flush, Take, WriteNext, FinishOutput, DeleteQueues, Threads
  <2>2. QED
    BY <1>1, <2>1 DEF Onward, BeforeFlush
<1>12. QED
  BY <1>3, <1>4, <1>5, <1>6, <1>7, <1>8, <1>9, <1>10, <1>11
  DEF Next, Step, Poll, Stop, Drain, Output, Terminated, Threads

\* What has arrived stays as it is, and so does its skew.
LEMMA ArrivedGrows ==
  ASSUME TypeInv, [Next]_vars
  PROVE  /\ Skewed => Skewed'
         /\ \A n \in 1 .. Len(arrived) : arrived'[n] = arrived[n]
<1>1. CASE \E p \in Producers : Push(p)
  <2>1. /\ Len(arrived') = Len(arrived) + 1
        /\ \A i \in 1 .. Len(arrived) : arrived'[i] = arrived[i]
    BY <1>1, PushFacts
  <2>2. Len(arrived) \in Nat
    BY DEF TypeInv, TypeOK
  <2>3. ASSUME NEW i \in 1 .. Len(arrived), NEW j \in 1 .. Len(arrived),
               i < j /\ arrived[j] + Window < arrived[i]
        PROVE  Skewed'
    <3>1. i \in 1 .. Len(arrived') /\ j \in 1 .. Len(arrived')
      BY <2>1, <2>2
    <3>2. i < j /\ arrived'[j] + Window < arrived'[i]
      BY <2>1, <2>3
    <3>3. QED
      BY <3>1, <3>2 DEF Skewed
  <2>4. QED
    BY <2>1, <2>3 DEF Skewed
<1>2. CASE ~(\E p \in Producers : Push(p))
  <2>1. arrived' = arrived
    BY <1>2 DEF history, Next, Step, Poll, Stop, Drain, Output, Terminated, vars, PushFails,
       NotifyOne, LoopTop, Pop, EndPop, InsertBuffer, EndSort, OutputWindow, OutputOnTimeout,
       WaitForInput, WakeTimeout, WriteNext, FinishOutput, StopThreads, NotifyAll, Join, Flush,
       Exit, DeleteQueues, WriteFails, Tick
  <2>2. QED
    BY <2>1 DEF Skewed
<1>3. QED
  BY <1>1, <1>2

LEMMA CalmBefore ==
  ASSUME SinkInv, [Next]_vars
  PROVE  /\ Calm' => Calm
         /\ BeforeFlush' => BeforeFlush
         /\ \A b : Overtaken(b) /\ Inserted' >= Inserted => Overtaken(b)'
<1>1. TypeInv
  BY DEF SinkInv, OrderInv
<1>2. Onward
  BY <1>1, StopsGoOn
<1>3. Calm' => Calm
  BY <1>1, <1>2, ArrivedGrows DEF Onward, Calm
<1>4. ASSUME NEW b, Overtaken(b), Inserted' >= Inserted
      PROVE  \E n \in 1 .. Inserted' : b.s_time + Window <= arrived'[n]
  <2>1. PICK n \in 1 .. Inserted : b.s_time + Window <= arrived[n]
    BY <1>4 DEF Overtaken
  <2>2. Inserted \in 0 .. Len(arrived) /\ Inserted' \in Nat
    <3>1. SinkInv'
      BY SinkStep
    <3>2. Inserted' \in Nat
      BY <3>1 DEF SinkInv, FateInv, Numbered
    <3>3. QED
      BY <1>1, <3>2, Numbers DEF SinkInv, FateInv, TypeInv
  <2>3. n \in 1 .. Inserted' /\ arrived'[n] = arrived[n]
    BY <1>1, <1>4, <2>2, ArrivedGrows
  <2>4. QED
    BY <2>1, <2>3
<1>5. QED
  BY <1>2, <1>3, <1>4 DEF Onward, Overtaken

\* Steps that neither insert nor take nor write.
LEMMA WindowStill ==
  ASSUME SinkInv, WindowInv, [Next]_vars, Inserted' >= Inserted,
         UNCHANGED <<sortedQueue, outputBuffers, iov, written>>
  PROVE  WindowInv'
<1>1. SUFFICES ASSUME Calm' PROVE WindowInv'
  BY DEF WindowInv
<1>2. Calm
  BY <1>1, CalmBefore
<1>3. /\ SortedByTime(written)'
      /\ \A i \in 1 .. Len(written'), j \in 1 .. Len(outputBuffers') :
           j > iov' => written'[i].s_time <= outputBuffers'[j].s_time
      /\ \A i \in 1 .. Len(written'), j \in 1 .. Len(sortedQueue') :
           written'[i].s_time <= sortedQueue'[j].s_time
  BY <1>2 DEF WindowInv, SortedByTime
<1>4. ASSUME BeforeFlush'
      PROVE  /\ \A i \in 1 .. Len(written') : Overtaken(written[i])'
             /\ \A i \in 1 .. Len(outputBuffers') : Overtaken(outputBuffers[i])'
  <2>1. /\ \A i \in 1 .. Len(written) : Overtaken(written[i])
        /\ \A i \in 1 .. Len(outputBuffers) : Overtaken(outputBuffers[i])
    BY <1>2, <1>4, CalmBefore DEF WindowInv
  <2>2. \A b : Overtaken(b) => \E n \in 1 .. Inserted' : b.s_time + Window <= arrived'[n]
    BY CalmBefore DEF Overtaken
  <2>3. QED
    BY <2>1, <2>2 DEF Overtaken
<1>5. QED
  BY <1>3, <1>4 DEF WindowInv

LEMMA WindowFinish ==
  ASSUME SinkInv, WindowInv, [Next]_vars, Inserted' = Inserted, Len(outputBuffers') = 0,
         UNCHANGED <<sortedQueue, written>>
  PROVE  WindowInv'
<1>1. SUFFICES ASSUME Calm' PROVE WindowInv'
  BY DEF WindowInv
<1>2. Calm
  BY <1>1, CalmBefore
<1>3. /\ SortedByTime(written)'
      /\ \A i \in 1 .. Len(written'), j \in 1 .. Len(outputBuffers') :
           j > iov' => written'[i].s_time <= outputBuffers'[j].s_time
      /\ \A i \in 1 .. Len(written'), j \in 1 .. Len(sortedQueue') :
           written'[i].s_time <= sortedQueue'[j].s_time
  BY <1>2 DEF WindowInv, SortedByTime
<1>4. ASSUME BeforeFlush'
      PROVE  \A i \in 1 .. Len(written') : Overtaken(written[i])'
  <2>1. \A i \in 1 .. Len(written) : Overtaken(written[i])
    BY <1>2, <1>4, CalmBefore DEF WindowInv
  <2>2. Inserted' >= Inserted
    BY DEF SinkInv, FateInv, Numbered
  <2>3. \A b : Overtaken(b) => \E n \in 1 .. Inserted' : b.s_time + Window <= arrived'[n]
    BY <2>2, CalmBefore DEF Overtaken
  <2>4. QED
    BY <2>1, <2>3 DEF Overtaken
<1>5. QED
  BY <1>3, <1>4 DEF WindowInv

\* Before the first flush, what was written is more than a window older than an
\* earlier arrival, and without skew the buffer inserted now is not.
LEMMA WindowInsert ==
  ASSUME SinkInv, StopInv, WindowInv, [Next]_vars, NEW r \in Threads, InsertBuffer(r)
  PROVE  WindowInv'
<1> USE DEF SinkInv, OrderInv, TypeInv, FateInv
<1>1. SUFFICES ASSUME Calm' PROVE WindowInv'
  BY DEF WindowInv
<1>2. Calm
  BY <1>1, CalmBefore
<1>3. BeforeFlush
  BY <1>2 DEF InsertBuffer, StopInv, TypeOK, StopAfterPoll, StopLocs, Threads, Calm, BeforeFlush
<1>4. PICK b : b = batch[1]
  OBVIOUS
<1>5. PICK i \in 1 .. Len(sortedQueue) + 1 :
        /\ Len(sortedQueue') = Len(sortedQueue) + 1
        /\ \A j \in 1 .. Len(sortedQueue) + 1 :
             sortedQueue'[j] = IF j < i THEN sortedQueue[j]
                               ELSE IF j = i THEN b ELSE sortedQueue[j - 1]
  BY <1>4, InsertFacts
<1>6. /\ Len(batch) \in Nat \ {0} /\ b \in Buffer /\ Len(batch') = Len(batch) - 1
      /\ Len(outputBuffers) = 0
  BY <1>4, InsertFacts
<1>7. UNCHANGED <<inputQueue, outputBuffers, iov, arrived, written>>
  BY DEF InsertBuffer
<1>8. /\ Len(inputQueue) \in Nat /\ Len(arrived) \in Nat /\ Len(sortedQueue) \in Nat
      /\ \A n \in 1 .. Len(arrived) : arrived[n] \in Nat
      /\ \A j \in 1 .. Len(written) : written[j].s_time \in Nat
      /\ b.s_time \in Nat /\ Window \in Nat
  BY <1>6, Elements, TimeAssumption
<1>9. Inserted \in Nat /\ b.id = Inserted + 1 /\ b.s_time = arrived[b.id]
  BY <1>4, <1>6 DEF Numbered, TimesKept, Stamped
<1>10. Inserted' >= Inserted /\ b.id \in 1 .. Len(arrived)
  <2>1. Inserted' = Inserted + 1
    BY <1>6, <1>7, <1>8 DEF Inserted
  <2>2. 1 \in 1 .. Len(batch)
    BY <1>6
  <2>3. b.id \in Inserted + 1 .. Len(arrived)
    BY <1>4, <2>2, Numbers
  <2>4. QED
    BY <1>8, <1>9, <2>1, <2>3
<1>11. ASSUME NEW j \in 1 .. Len(written) PROVE written[j].s_time <= b.s_time
  <2>1. PICK n \in 1 .. Inserted : written[j].s_time + Window <= arrived[n]
    BY <1>2, <1>3 DEF WindowInv, Overtaken
  <2>2. n \in 1 .. Len(arrived) /\ n < b.id
    BY <1>8, <1>9, <1>10
  <2>3. ~(arrived[b.id] + Window < arrived[n])
    BY <1>2, <1>10, <2>2 DEF Calm, Skewed
  <2>4. /\ written[j].s_time \in Nat /\ arrived[n] \in Nat
        /\ ~(b.s_time + Window < arrived[n])
    BY <1>8, <1>9, <2>2, <2>3
  <2>5. QED
    BY <1>8, <2>1, <2>4, SMTT(30)
<1>12. ASSUME NEW k \in 1 .. Len(sortedQueue'), NEW j \in 1 .. Len(written)
       PROVE  written[j].s_time <= sortedQueue'[k].s_time
  <2>1. \A l \in 1 .. Len(sortedQueue) : written[j].s_time <= sortedQueue[l].s_time
    BY <1>2 DEF WindowInv
  <2>2. CASE k < i
    <3>1. k \in 1 .. Len(sortedQueue) /\ sortedQueue'[k] = sortedQueue[k]
      BY <1>5, <1>8, <2>2
    <3>2. QED
      BY <2>1, <3>1
  <2>3. CASE k = i
    BY <1>5, <1>11, <2>3
  <2>4. CASE k > i
    <3>1. k - 1 \in 1 .. Len(sortedQueue) /\ sortedQueue'[k] = sortedQueue[k - 1]
      BY <1>5, <1>8, <2>4
    <3>2. QED
      BY <2>1, <3>1
  <2>5. QED
    BY <1>5, <2>2, <2>3, <2>4
<1>13. /\ \A j \in 1 .. Len(written) : Overtaken(written[j])
       /\ SortedByTime(written)
  BY <1>2, <1>3 DEF WindowInv
<1>14. \A j \in 1 .. Len(written') : Overtaken(written[j])'
  <2>1. \A c : Overtaken(c) => \E n \in 1 .. Inserted' : c.s_time + Window <= arrived'[n]
    BY <1>10, CalmBefore DEF Overtaken
  <2>2. QED
    BY <1>7, <1>13, <2>1 DEF Overtaken
<1>15. QED
  BY SMTT(30), <1>6, <1>7, <1>12, <1>13, <1>14 DEF WindowInv, SortedByTime

\* What the window lets out is a window older than the newest buffer.
LEMMA WindowTake ==
  ASSUME SinkInv, WindowInv, [Next]_vars, NEW r \in Threads, NEW until, pc[r] = "check",
         Take(r, until), UNCHANGED <<inputQueue, batch, arrived, written>>,
         BeforeFlush' => \E n \in 1 .. Inserted :
                           /\ until \in Nat
                           /\ until + Window <= arrived[n]
  PROVE  WindowInv'
<1> USE DEF SinkInv, OrderInv, TypeInv, FateInv
<1>1. SUFFICES ASSUME Calm' PROVE WindowInv'
  BY DEF WindowInv
<1>2. Calm
  BY <1>1, CalmBefore
<1>3. PICK k \in 0 .. Len(sortedQueue) :
        /\ Len(outputBuffers') = k
        /\ \A j \in 1 .. k : /\ outputBuffers'[j] = sortedQueue[j]
                             /\ sortedQueue[j].s_time <= until
        /\ Len(sortedQueue') = Len(sortedQueue) - k
        /\ \A j \in 1 .. Len(sortedQueue) - k : sortedQueue'[j] = sortedQueue[j + k]
  BY TakeFacts
<1>4. /\ Len(sortedQueue) \in Nat /\ Len(arrived) \in Nat /\ Window \in Nat
      /\ \A j \in 1 .. Len(sortedQueue) : sortedQueue[j].s_time \in Nat
      /\ \A j \in 1 .. Len(arrived) : arrived[j] \in Nat
  BY Elements, TimeAssumption
<1>5. Inserted' = Inserted /\ Inserted \in 0 .. Len(arrived)
  BY Numbers DEF Inserted
<1>6. \A j \in 1 .. Len(outputBuffers') :
         j \in 1 .. Len(sortedQueue) /\ outputBuffers'[j] = sortedQueue[j]
                                     /\ sortedQueue[j].s_time <= until
  BY <1>3, <1>4
<1>7. \A j \in 1 .. Len(sortedQueue') :
         j + k \in 1 .. Len(sortedQueue) /\ sortedQueue'[j] = sortedQueue[j + k]
  BY <1>3, <1>4
<1>8. /\ SortedByTime(written)
      /\ \A i \in 1 .. Len(written), j \in 1 .. Len(sortedQueue) :
           written[i].s_time <= sortedQueue[j].s_time
  BY <1>2 DEF WindowInv
<1>9. /\ \A i \in 1 .. Len(written), j \in 1 .. Len(outputBuffers') :
           written[i].s_time <= outputBuffers'[j].s_time
      /\ \A i \in 1 .. Len(written), j \in 1 .. Len(sortedQueue') :
           written[i].s_time <= sortedQueue'[j].s_time
  BY <1>6, <1>7, <1>8
<1>10. ASSUME BeforeFlush'
       PROVE  /\ \A i \in 1 .. Len(written') : Overtaken(written[i])'
              /\ \A i \in 1 .. Len(outputBuffers') : Overtaken(outputBuffers[i])'
  <2>1. \A i \in 1 .. Len(written) : Overtaken(written[i])
    BY <1>2, <1>10, CalmBefore DEF WindowInv
  <2>2. PICK n \in 1 .. Inserted : until \in Nat /\ until + Window <= arrived[n]
    BY <1>10
  <2>3. ASSUME NEW i \in 1 .. Len(outputBuffers')
        PROVE  outputBuffers'[i].s_time + Window <= arrived'[n]
    <3>1. outputBuffers'[i].s_time \in Nat /\ outputBuffers'[i].s_time <= until
      BY <1>4, <1>6
    <3>2. arrived[n] \in Nat
      BY <1>4, <1>5
    <3>3. QED
      BY <1>4, <2>2, <3>1, <3>2
  <2>4. QED
    BY <1>5, <2>1, <2>3 DEF Overtaken
<1>11. QED
  BY <1>8, <1>9, <1>10 DEF WindowInv, SortedByTime

LEMMA WindowWrite ==
  ASSUME SinkInv, WindowInv, [Next]_vars, NEW r \in Threads, WriteNext(r)
  PROVE  WindowInv'
<1> USE DEF SinkInv, OrderInv, TypeInv, FateInv
<1>1. SUFFICES ASSUME Calm' PROVE WindowInv'
  BY DEF WindowInv
<1>2. Calm
  BY <1>1, CalmBefore
<1>3. /\ iov \in Nat /\ iov' = iov + 1 /\ iov' \in 1 .. Len(outputBuffers)
      /\ Len(written') = Len(written) + 1
      /\ \A i \in 1 .. Len(written) : written'[i] = written[i]
      /\ written'[Len(written) + 1] = outputBuffers[iov']
  BY WriteFacts
<1>4. UNCHANGED <<inputQueue, batch, sortedQueue, outputBuffers, arrived>>
  BY DEF WriteNext
<1>5. Len(written) \in Nat /\ Len(outputBuffers) \in Nat
  BY Elements
<1>6. \A i \in 1 .. Len(written') :
        \/ i = Len(written) + 1 /\ written'[i] = outputBuffers[iov']
        \/ i \in 1 .. Len(written) /\ written'[i] = written[i]
  BY <1>3, <1>5
<1>7. iov' > iov
  BY <1>3
<1>8. SortedByTime(written)'
  <2>1. ASSUME NEW i \in 1 .. Len(written'), NEW j \in 1 .. Len(written'), i < j
        PROVE  written'[i].s_time <= written'[j].s_time
    <3>1. i \in 1 .. Len(written) /\ written'[i] = written[i]
      BY <1>3, <1>5, <2>1
    <3>2. CASE j \in 1 .. Len(written) /\ written'[j] = written[j]
      BY <1>2, <2>1, <3>1, <3>2 DEF WindowInv, SortedByTime
    <3>3. CASE written'[j] = outputBuffers[iov']
      BY <1>2, <1>3, <1>7, <3>1, <3>3 DEF WindowInv
    <3>4. QED
      BY <1>6, <3>2, <3>3
  <2>2. QED
    BY <2>1 DEF SortedByTime
<1>9. ASSUME NEW i \in 1 .. Len(written'), NEW j \in 1 .. Len(outputBuffers), j > iov'
      PROVE  written'[i].s_time <= outputBuffers[j].s_time
  <2>1. CASE i \in 1 .. Len(written) /\ written'[i] = written[i]
    <3>1. j > iov
      BY <1>3, <1>9
    <3>2. QED
      BY <1>2, <2>1, <3>1 DEF WindowInv
  <2>2. CASE written'[i] = outputBuffers[iov']
    <3>1. iov' < j
      BY <1>3, <1>9
    <3>2. QED
      BY <1>3, <2>2, <3>1 DEF SinkInOrder, OutputBeforeQueue, SortedByTime
  <2>3. QED
    BY <1>6, <2>1, <2>2
<1>10. ASSUME NEW i \in 1 .. Len(written'), NEW j \in 1 .. Len(sortedQueue)
       PROVE  written'[i].s_time <= sortedQueue[j].s_time
  <2>1. CASE i \in 1 .. Len(written) /\ written'[i] = written[i]
    BY <1>2, <2>1 DEF WindowInv
  <2>2. CASE written'[i] = outputBuffers[iov']
    BY <1>3, <2>2 DEF SinkInOrder, OutputBeforeQueue
  <2>3. QED
    BY <1>6, <2>1, <2>2
<1>11. ASSUME BeforeFlush'
       PROVE  /\ \A i \in 1 .. Len(written') : Overtaken(written[i])'
              /\ \A i \in 1 .. Len(outputBuffers') : Overtaken(outputBuffers[i])'
  <2>1. /\ \A i \in 1 .. Len(written) : Overtaken(written[i])
        /\ \A i \in 1 .. Len(outputBuffers) : Overtaken(outputBuffers[i])
    BY <1>2, <1>11, CalmBefore DEF WindowInv
  <2>2. Inserted' = Inserted
    BY <1>4 DEF Inserted
  <2>3. QED
    BY <1>3, <1>4, <1>6, <2>1, <2>2 DEF Overtaken
<1>12. QED
  BY <1>4, <1>8, <1>9, <1>10, <1>11 DEF WindowInv

LEMMA WindowStep == SinkInv /\ StopInv /\ WindowInv /\ [Next]_vars => WindowInv'
<1> SUFFICES ASSUME SinkInv, StopInv, WindowInv, [Next]_vars PROVE WindowInv'
  OBVIOUS
<1> USE DEF SinkInv
<1>1. TypeInv
  BY DEF OrderInv
<1>2. /\ Len(inputQueue) \in Nat /\ Len(batch) \in Nat /\ Len(arrived) \in Nat
      /\ Len(sortedQueue) \in Nat /\ Inserted \in 0 .. Len(arrived)
      /\ \A i \in 1 .. Len(sortedQueue) : sortedQueue[i].s_time \in Nat
      /\ Window \in Nat
  BY <1>1, Elements, Numbers, TimeAssumption DEF FateInv, TypeInv
<1>3. CASE QuietStep
  <2>1. CASE \E p \in Producers : Push(p)
    <3>1. /\ UNCHANGED <<batch, sortedQueue, outputBuffers, iov, written>>
          /\ Len(arrived') = Len(arrived) + 1 /\ Len(inputQueue') = Len(inputQueue) + 1
      BY <1>1, <2>1, PushFacts DEF Push
    <3>2. Inserted' >= Inserted
      BY <1>2, <3>1 DEF Inserted
    <3>3. QED
      BY <3>1, <3>2, WindowStill
  <2>2. CASE \E r \in Threads : Pop(r)
    <3>1. /\ UNCHANGED <<sortedQueue, outputBuffers, iov, written, arrived>>
          /\ Len(batch') = Len(batch) + 1 /\ Len(inputQueue') = Len(inputQueue) - 1
      BY <1>1, <2>2, PopFacts DEF Pop, history
    <3>2. Inserted' >= Inserted
      BY <1>2, <3>1 DEF Inserted
    <3>3. QED
      BY <3>1, <3>2, WindowStill
  <2>3. CASE ~(\E p \in Producers : Push(p)) /\ ~(\E r \in Threads : Pop(r))
    <3>1. Still
      BY <1>1, <1>3, <2>3, StillSteps DEF QuietStep
    <3>2. Inserted' >= Inserted
      BY <1>2, <3>1 DEF Inserted, Still
    <3>3. QED
      BY <3>1, <3>2, WindowStill DEF Still
  <2>4. QED
    BY <2>1, <2>2, <2>3
<1>4. ASSUME NEW r \in Threads, InsertBuffer(r) \/ WriteNext(r)
      PROVE  WindowInv'
  BY <1>4, WindowInsert, WindowWrite
<1>5. ASSUME NEW r \in Threads, FinishOutput(r)
      PROVE  WindowInv'
  <2>1. /\ UNCHANGED <<inputQueue, batch, sortedQueue, arrived, written>>
        /\ Len(outputBuffers') = 0
    BY <1>5, FinishFacts DEF FinishOutput, history
  <2>2. Inserted' = Inserted
    BY <2>1 DEF Inserted
  <2>3. QED
    BY <2>1, <2>2, WindowFinish
<1>6. CASE OutputWindow
  <2>1. /\ pc["poll"] = "check" /\ Take("poll", WindowUntil)
        /\ UNCHANGED <<inputQueue, batch, arrived, written>>
    BY <1>6 DEF OutputWindow, history
  <2> DEFINE last == Len(sortedQueue)
  <2>2. /\ 1 \in 1 .. last /\ last \in 1 .. last /\ last > 1
        /\ Last(sortedQueue) = sortedQueue[last] /\ Head(sortedQueue) = sortedQueue[1]
    BY <1>1, <1>2, <1>6, EmptySeq DEF OutputWindow, WindowReady, Last, TypeInv, TypeOK
  <2>3. sortedQueue[1].s_time <= sortedQueue[last].s_time
    BY <2>2 DEF OrderInv, SinkInOrder, SortedQueueOrdered, SortedByTime
  <2>4. /\ Window <= sortedQueue[last].s_time
        /\ WindowUntil = sortedQueue[last].s_time - Window
    BY <1>2, <1>6, <2>2, <2>3 DEF OutputWindow, WindowReady, WindowUntil, FlushUntil, Sub
  <2>5. /\ sortedQueue[last].id \in 1 .. Inserted
        /\ sortedQueue[last].s_time = arrived[sortedQueue[last].id]
    BY <2>2 DEF FateInv, TimesKept, Placeable, Stamped
  <2>6. WindowUntil \in Nat /\ WindowUntil + Window <= arrived[sortedQueue[last].id]
    BY <1>2, <2>2, <2>4, <2>5
  <2>7. QED
    BY <2>1, <2>5, <2>6, WindowTake DEF Threads
<1>7. CASE OutputOnTimeout
  BY <1>7 DEF OutputOnTimeout, WindowInv, Calm
<1>8. CASE Flush /\ sortedQueue # <<>>
  <2>1. /\ pc["stop"] = "check" /\ Take("stop", FlushUntil)
        /\ UNCHANGED <<inputQueue, batch, arrived, written, stops>>
    BY <1>8 DEF Flush, history
  <2>2. ~BeforeFlush'
    BY <1>1, <2>1 DEF Take, StopInv, BeforeFlush, TypeInv, TypeOK, Threads
  <2>3. QED
    BY <2>1, <2>2, WindowTake DEF Threads
<1>9. CASE DeleteQueues
  <2>1. stops' = 2
    BY <1>9 DEF DeleteQueues
  <2>2. QED
    BY <2>1 DEF WindowInv, Calm
<1>10. QED
  BY <1>3, <1>4, <1>5, <1>6, <1>7, <1>8, <1>9
  DEF Next, Step, Poll, Stop, Drain, Output, Terminated, QuietStep, Threads

\* The purpose of the window: as long as no source is more than a window behind
\* another and nothing but the window lets buffers out, the sink is in order.
THEOREM SkewAbsorbed == Spec => []WindowAbsorbsSkew
<1>1. Spec => [](SinkInv /\ StopInv /\ WindowInv)
  <2>1. Init => SinkInv /\ StopInv /\ WindowInv
    BY OrderInit, FateInit, StopInit, WindowInit DEF SinkInv
  <2>2. (SinkInv /\ StopInv /\ WindowInv) /\ [Next]_vars => (SinkInv /\ StopInv /\ WindowInv)'
    BY SinkStep, StopStep, WindowStep DEF SinkInv
  <2>3. QED
    BY <2>1, <2>2, PTL DEF Spec
<1>2. WindowInv => WindowAbsorbsSkew
  BY DEF WindowInv, Calm, WindowAbsorbsSkew
<1>3. QED
  BY <1>1, <1>2, PTL

-----------------------------------------------------------------------------
(* BufferedSink implements OrderedSink.                                    *)

Destroyed == pc["stop"] = "destroyed"

LEMMA ContractInit == Init => Contract!Init
  BY DEF Init, Contract!Init, Threads

\* Moving buffers between the queues changes nothing in the contract.
LEMMA Stutter ==
  ASSUME UNCHANGED <<arrived, late, written, deleted>>, Destroyed' <=> Destroyed
  PROVE  UNCHANGED Contract!vars
  BY DEF Contract!vars, Destroyed

\* A pending buffer is one that is neither freed nor in the sink.
LEMMA PendingMeans ==
  ASSUME TypeInv
  PROVE  \A n : n \in Contract!Pending <=>
                 /\ n \in 1 .. Len(arrived) /\ n \notin deleted
                 /\ \A i \in 1 .. Len(written) : written[i].id # n
<1>1. \A n : n \in {b.id : b \in Contract!ToSet(written)} <=>
               \E i \in 1 .. Len(written) : written[i].id = n
  <2>1. DOMAIN written = 1 .. Len(written)
    BY DEF TypeInv, TypeOK
  <2>2. \A b : b \in Contract!ToSet(written) <=> \E i \in 1 .. Len(written) : written[i] = b
    BY <2>1 DEF Contract!ToSet
  <2>3. QED
    BY <2>2
<1>2. QED
  BY <1>1 DEF Contract!Pending

LEMMA AcceptStep ==
  ASSUME SinkInv, NEW p \in Producers, Push(p) PROVE Contract!Accept
<1>1. PICK t \in Times : arrived' = Append(arrived, t)
  BY DEF Push
<1>2. pc["stop"] = "idle" /\ pc' = pc /\ UNCHANGED <<late, written, deleted>>
  BY DEF Push, CanAdd
<1>3. QED
  BY <1>1, <1>2 DEF Contract!Accept

LEMMA ReportStep ==
  ASSUME SinkInv, NEW r \in Threads, InsertBuffer(r)
  PROVE  Contract!Next \/ UNCHANGED Contract!vars
<1> USE DEF SinkInv, OrderInv, TypeInv, FateInv
<1>0. PICK b : b = batch[1]
  OBVIOUS
<1>1. /\ batch # <<>> /\ Len(batch) \in Nat \ {0} /\ b \in Buffer
      /\ iov = 0
      /\ late' = IF b.s_time < lastEmitted THEN late \cup {b.id} ELSE late
  BY <1>0, InsertFacts
<1>2. pc' = pc /\ pc[r] = "sort" /\ UNCHANGED <<arrived, written, deleted>>
  BY DEF InsertBuffer
<1>3. ~Destroyed /\ ~Destroyed'
  BY <1>2 DEF StopAfterPoll, Threads, Destroyed
<1>4. CASE ~(b.s_time < lastEmitted)
  BY <1>1, <1>2, <1>3, <1>4, Stutter
<1>5. CASE b.s_time < lastEmitted
  <2>1. Inserted \in Nat /\ b.id = Inserted + 1 /\ b.s_time = arrived[b.id]
    BY <1>0, <1>1 DEF Numbered, TimesKept, Stamped
  <2>2. b.id \in 1 .. Len(arrived)
    BY <1>0, <1>1, <2>1, Numbers
  <2>3. b.id \notin deleted
    BY <2>1 DEF NoneForgotten
  <2>4. \A i \in 1 .. Len(written) : written[i].id # b.id
    BY <2>1 DEF TimesKept, Placeable
  <2>5. b.id \in Contract!Pending
    BY <2>2, <2>3, <2>4, PendingMeans
  <2>6. written # <<>> /\ Last(written).s_time = lastEmitted
    <3>1. lastEmitted # 0
      BY <1>1, <1>5, Elements
    <3>2. QED
      BY <1>1, <3>1 DEF LateAfterOutput, SinkInOrder, LastEmittedWritten
  <2>7. Contract!Report(b.id)
    BY <1>1, <1>2, <1>3, <1>5, <2>1, <2>6 DEF Contract!Report, Contract!Last, Last, Destroyed
  <2>8. QED
    BY <1>3, <2>5, <2>7 DEF Contract!Next, Destroyed
<1>6. QED
  BY <1>4, <1>5

LEMMA SinkWriteStep ==
  ASSUME SinkInv, NEW r \in Threads, WriteNext(r) PROVE Contract!Next
<1> USE DEF SinkInv, OrderInv, TypeInv, FateInv
<1>0. PICK b : b = outputBuffers[iov']
  OBVIOUS
<1>1. /\ iov \in Nat /\ iov' = iov + 1 /\ iov' \in 1 .. Len(outputBuffers)
      /\ Len(written') = Len(written) + 1
      /\ \A i \in 1 .. Len(written) : written'[i] = written[i]
      /\ written'[Len(written) + 1] = b
      /\ written' = Append(written, b)
  BY <1>0, WriteFacts
<1>2. pc' = pc /\ pc[r] = "write" /\ UNCHANGED <<arrived, late, deleted>>
  BY DEF WriteNext
<1>3. ~Destroyed /\ ~Destroyed' /\ deleted = {}
  BY <1>2 DEF StopAfterPoll, Threads, Destroyed, NoneForgotten
<1>4. /\ Len(arrived) \in Nat /\ Len(written) \in Nat /\ Len(outputBuffers) \in Nat
      /\ b \in Buffer
      /\ \A i \in 1 .. Len(written) : written[i].s_time \in Nat
      /\ b.s_time \in Nat
  BY <1>0, <1>1, Elements
<1>5. Inserted \in 0 .. Len(arrived) /\ b.id \in 1 .. Inserted /\ b.s_time = arrived[b.id]
  BY <1>0, <1>1, Numbers DEF TimesKept, Placeable, Stamped
<1>6. b = [id |-> b.id, s_time |-> arrived[b.id]]
  BY <1>4, <1>5 DEF Buffer
<1>7. b.id \in Contract!Pending
  <2>1. ASSUME NEW i \in 1 .. Len(written) PROVE written[i].id # b.id
    <3>1. iov' > iov
      BY <1>1
    <3>2. Before(written[i], b)
      BY <1>0, <1>1, <3>1 DEF EqualsInOrder
    <3>3. written[i].id = b.id => written[i].s_time = b.s_time
      BY <1>5 DEF TimesKept, Placeable, Stamped
    <3>4. QED
      BY <1>5, <3>2, <3>3 DEF Before
  <2>2. b.id \in 1 .. Len(arrived)
    BY <1>4, <1>5
  <2>3. QED
    BY <1>3, <2>1, <2>2, PendingMeans
<1>8. ASSUME NEW m \in Contract!Pending, arrived[m] = arrived[b.id] PROVE b.id <= m
  <2>1. /\ m \in 1 .. Len(arrived)
        /\ \A i \in 1 .. Len(written) : written[i].id # m
    BY <1>8, PendingMeans
  <2>2. CASE m > Inserted
    BY <1>5, <2>1, <2>2
  <2>3. CASE m <= Inserted
    <3>1. Kept(m)
      BY <1>4, <1>5, <2>1, <2>3 DEF NoneForgotten
    <3>2. ASSUME NEW i \in 1 .. Len(sortedQueue), sortedQueue[i].id = m PROVE b.id < m
      <4>1. Before(b, sortedQueue[i])
        BY <1>0, <1>1 DEF EqualsInOrder
      <4>2. sortedQueue[i].s_time = arrived[m]
        BY <3>2 DEF TimesKept, Placeable, Stamped
      <4>3. QED
        BY <1>5, <1>8, <3>2, <4>1, <4>2 DEF Before
    <3>3. ASSUME NEW i \in 1 .. Len(outputBuffers), i > iov, outputBuffers[i].id = m
          PROVE  b.id <= m
      <4>1. CASE i = iov'
        BY <1>0, <1>5, <3>3, <4>1
      <4>2. CASE i # iov'
        <5>1. iov' < i
          BY <1>1, <3>3, <4>2
        <5>2. Before(b, outputBuffers[i])
          BY <1>0, <1>1, <5>1 DEF EqualsInOrder
        <5>3. outputBuffers[i].s_time = arrived[m]
          BY <3>3 DEF TimesKept, Placeable, Stamped
        <5>4. b.id < m
          BY <1>5, <1>8, <3>3, <5>2, <5>3 DEF Before
        <5>5. QED
          BY <1>5, <2>1, <5>4
      <4>3. QED
        BY <4>1, <4>2
    <3>4. b.id < m => b.id <= m
      BY <1>5, <2>1
    <3>5. QED
      BY <1>3, <2>1, <3>1, <3>2, <3>3, <3>4 DEF Kept
  <2>4. QED
    BY <1>5, <2>1, <2>2, <2>3
<1>9. written # <<>> /\ Last(written).s_time > arrived[b.id] => b.id \in late
  <2>1. SUFFICES ASSUME written # <<>>, Last(written).s_time > arrived[b.id]
                 PROVE  b.id \in late
    OBVIOUS
  <2>2. BackStepsReported'
    BY WriteOrder DEF SinkInOrder
  <2>3. Len(written) \in 1 .. Len(written') - 1 /\ Last(written) = written[Len(written)]
    BY <1>1, <2>1, EmptySeq DEF TypeOK, Last
  <2>4. written'[Len(written) + 1].s_time < written'[Len(written)].s_time
    BY <1>1, <1>4, <1>5, <2>1, <2>3
  <2>5. QED
    BY <1>1, <1>2, <2>2, <2>3, <2>4 DEF BackStepsReported
<1>10. Contract!Write(b.id)
  BY <1>1, <1>2, <1>3, <1>6, <1>8, <1>9 DEF Contract!Write, Contract!Last, Last, Destroyed
<1>11. QED
  BY <1>3, <1>7, <1>10 DEF Contract!Next, Destroyed

LEMMA CloseStep ==
  ASSUME SinkInv, DeleteQueues PROVE Contract!Close
<1> USE DEF SinkInv, OrderInv, TypeInv, FateInv
<1>1. /\ Len(batch) = 0 /\ Len(outputBuffers) = 0 /\ iov = 0
      /\ Len(inputQueue') = 0 /\ Len(sortedQueue') = 0
      /\ \A n : n \in deleted' <=>
            \/ \E i \in 1 .. Len(inputQueue) : inputQueue[i].id = n
            \/ \E i \in 1 .. Len(sortedQueue) : sortedQueue[i].id = n
      /\ pc["stop"] = "stopped" /\ pc' = [pc EXCEPT !["stop"] = "destroyed"]
  BY DeleteFacts
<1>2. UNCHANGED <<batch, outputBuffers, arrived, late, written>>
  BY DEF DeleteQueues
<1>3. ~Destroyed /\ Destroyed' /\ deleted = {}
  BY <1>1 DEF TypeOK, Threads, Destroyed, NoneForgotten
<1>4. Inserted \in 0 .. Len(arrived) /\ Len(arrived) \in Nat
  BY Numbers, Elements
<1>5. ASSUME NEW n \in deleted' PROVE n \in Contract!Pending
  <2>1. CASE \E i \in 1 .. Len(inputQueue) : inputQueue[i].id = n
    <3>1. n \in Inserted + 1 .. Len(arrived)
      BY <2>1, Numbers
    <3>2. \A i \in 1 .. Len(written) : written[i].id # n
      BY <1>4, <3>1 DEF TimesKept, Placeable
    <3>3. n \in 1 .. Len(arrived)
      BY <1>4, <3>1
    <3>4. QED
      BY <1>3, <3>2, <3>3, PendingMeans
  <2>2. ASSUME NEW i \in 1 .. Len(sortedQueue), sortedQueue[i].id = n
        PROVE  n \in Contract!Pending
    <3>1. n \in 1 .. Inserted /\ sortedQueue[i].s_time = arrived[n]
      BY <2>2 DEF TimesKept, Placeable, Stamped
    <3>2. ASSUME NEW j \in 1 .. Len(written) PROVE written[j].id # n
      <4>1. Before(written[j], sortedQueue[i])
        BY DEF EqualsInOrder
      <4>2. written[j].id = n => written[j].s_time = arrived[n]
        BY DEF TimesKept, Placeable, Stamped
      <4>3. QED
        BY <2>2, <3>1, <4>1, <4>2 DEF Before
    <3>3. n \in 1 .. Len(arrived)
      BY <1>4, <3>1
    <3>4. QED
      BY <1>3, <3>2, <3>3, PendingMeans
  <2>3. QED
    BY <1>1, <1>5, <2>1, <2>2
<1>6. ASSUME NEW n \in Contract!Pending PROVE n \in deleted'
  <2>1. n \in 1 .. Len(arrived) /\ \A i \in 1 .. Len(written) : written[i].id # n
    BY <1>6, PendingMeans
  <2>2. Inserted' = Len(arrived)
    BY <1>1, <1>2, <1>4 DEF Inserted
  <2>3. Kept(n)'
    BY <2>1, <2>2, DeleteFate DEF NoneForgotten
  <2>4. QED
    BY <1>1, <1>2, <2>1, <2>3 DEF Kept
<1>7. deleted' = Contract!Pending
  BY <1>5, <1>6
<1>8. QED
  BY <1>2, <1>3, <1>7 DEF Contract!Close, Destroyed

LEMMA ContractStep == SinkInv /\ [Next]_vars => [Contract!Next]_(Contract!vars)
<1> SUFFICES ASSUME SinkInv, [Next]_vars
             PROVE  Contract!Next \/ UNCHANGED Contract!vars
  OBVIOUS
<1>1. TypeInv
  BY DEF SinkInv, OrderInv
<1>2. CASE QuietStep
  <2>1. CASE \E p \in Producers : Push(p)
    BY <2>1, AcceptStep DEF Contract!Next
  <2>2. CASE \E r \in Threads : Pop(r)
    BY <2>2, Stutter DEF Pop, history, Destroyed
  <2>3. CASE ~(\E p \in Producers : Push(p)) /\ ~(\E r \in Threads : Pop(r))
    BY <1>1, <1>2, <2>3, StillSteps, Stutter DEF QuietStep, Still, Destroyed
  <2>4. QED
    BY <2>1, <2>2, <2>3
<1>3. ASSUME NEW r \in Threads, InsertBuffer(r) \/ WriteNext(r)
      PROVE  Contract!Next \/ UNCHANGED Contract!vars
  BY <1>3, ReportStep, SinkWriteStep
<1>4. ASSUME NEW r \in Threads, FinishOutput(r)
      PROVE  UNCHANGED Contract!vars
  <2>1. pc[r] = "write" /\ pc' = [pc EXCEPT ![r] = IF r = "poll" THEN "loop" ELSE "stopped"]
        /\ UNCHANGED <<arrived, late, written, deleted>>
    BY <1>4 DEF FinishOutput, history
  <2>2. Destroyed' <=> Destroyed
    BY <1>1, <2>1 DEF TypeInv, TypeOK, Threads, Destroyed
  <2>3. QED
    BY <2>1, <2>2, Stutter
<1>5. CASE OutputWindow \/ OutputOnTimeout \/ (Flush /\ sortedQueue # <<>>)
  <2>1. \E r \in Threads : pc[r] = "check" /\ pc' = [pc EXCEPT ![r] = "write"]
    BY <1>5 DEF OutputWindow, OutputOnTimeout, Flush, Take, Threads
  <2>2. UNCHANGED <<arrived, late, written, deleted>>
    BY <1>5 DEF OutputWindow, OutputOnTimeout, Flush, history
  <2>3. Destroyed' <=> Destroyed
    BY <1>1, <2>1 DEF TypeInv, TypeOK, Threads, Destroyed
  <2>4. QED
    BY <2>2, <2>3, Stutter
<1>6. CASE DeleteQueues
  BY <1>6, CloseStep DEF Contract!Next
<1>7. QED
  BY <1>2, <1>3, <1>4, <1>5, <1>6
  DEF Next, Step, Poll, Stop, Drain, Output, Terminated, QuietStep, Threads

\* Producers, both threads, crashes, the two stops and the teardown only ever
\* do what OrderedSink allows: BufferedSink implements it.
THEOREM SinkImplementsContract == Spec => ContractSpec
<1>1. Init => Contract!Init
  BY ContractInit
<1>2. SinkInv /\ [Next]_vars => [Contract!Next]_(Contract!vars)
  BY ContractStep
<1>3. QED
  BY <1>1, <1>2, SinkSafe, PTL DEF Spec, ContractSpec, Contract!Spec
===============================================================================
