------------------------- MODULE BufferedSinkProofs -------------------------
(***************************************************************************)
(* Theorems about BufferedSink for every number of producers, window,      *)
(* batch size, timeout and bound.                                          *)
(***************************************************************************)
EXTENDS BufferedSink, SequenceTheorems, TLAPS

-----------------------------------------------------------------------------
(* Facts about the operators of the model.                                 *)

\* insert(): the buffers before the insertion point stay, those after it move
\* up by one.
LEMMA InsertAtProperties ==
  ASSUME NEW S, NEW q \in Seq(S), NEW e \in S, NEW i \in 1 .. Len(q) + 1
  PROVE  /\ InsertAt(q, i, e) \in Seq(S)
         /\ Len(InsertAt(q, i, e)) = Len(q) + 1
         /\ \A j \in 1 .. Len(q) + 1 :
              InsertAt(q, i, e)[j] = IF j < i THEN q[j]
                                     ELSE IF j = i THEN e ELSE q[j - 1]
<1> DEFINE a == SubSeq(q, 1, i - 1)
           c == SubSeq(q, i, Len(q))
<1>1. /\ a \in Seq(S) /\ Len(a) = i - 1
      /\ \A j \in 1 .. i - 1 : a[j] = q[j]
  BY SubSeqProperties
<1>2. /\ c \in Seq(S) /\ Len(c) = Len(q) + 1 - i
      /\ \A j \in 1 .. Len(q) + 1 - i : c[j] = q[j + i - 1]
  BY SubSeqProperties
<1>3. /\ a \o <<e>> \in Seq(S) /\ Len(a \o <<e>>) = i
      /\ \A j \in 1 .. i : (a \o <<e>>)[j] = IF j < i THEN q[j] ELSE e
  BY <1>1, ConcatProperties
<1>4. InsertAt(q, i, e) = (a \o <<e>>) \o c
  BY DEF InsertAt
<1> HIDE DEF a, c
<1>5. QED
  BY <1>2, <1>3, <1>4, ConcatProperties

\* The prefix and the rest that outputData() splits the sorted queue into.
LEMMA SplitProperties ==
  ASSUME NEW S, NEW q \in Seq(S), NEW k \in 0 .. Len(q)
  PROVE  /\ SubSeq(q, 1, k) \in Seq(S)
         /\ Len(SubSeq(q, 1, k)) = k
         /\ \A j \in 1 .. k : SubSeq(q, 1, k)[j] = q[j]
         /\ SubSeq(q, k + 1, Len(q)) \in Seq(S)
         /\ Len(SubSeq(q, k + 1, Len(q))) = Len(q) - k
         /\ \A j \in 1 .. Len(q) - k : SubSeq(q, k + 1, Len(q))[j] = q[j + k]
<1>1. CASE k = 0  BY <1>1, SubSeqProperties
<1>2. CASE k > 0  BY <1>2, SubSeqProperties
<1>3. QED  BY <1>1, <1>2

-----------------------------------------------------------------------------
(* Types, and the order in which the two threads consume.                  *)

LEMMA TypeInit == Init => TypeInv
<1> SUFFICES ASSUME Init PROVE TypeInv
  OBVIOUS
<1>1. /\ <<>> \in Seq(Buffer) /\ Len(<<>>) = 0 /\ <<>> \in Seq(Times)
  BY EmptySeq
<1>2. /\ pc \in [Threads -> PollLocs \cup StopLocs]
      /\ pc["poll"] \in PollLocs /\ pc["stop"] \in StopLocs
      /\ pc["stop"] = "idle"
  BY DEF Init, Threads, PollLocs, StopLocs
<1>3. lastEmitted \in Times /\ idle \in 0 .. TimeoutMs + 1
  BY TimeAssumption, TimeoutAssumption DEF Init, Times
<1>4. shutdown \in BOOLEAN /\ timedOut \in BOOLEAN
  BY Zenon DEF Init
<1>5. iov \in 0 .. Len(outputBuffers) /\ stops \in 0 .. 2 /\ refused \in Nat /\ backlog \in Nat
  BY <1>1 DEF Init
<1>6. /\ inputQueue \in Seq(Buffer) /\ sortedQueue \in Seq(Buffer)
      /\ batch \in Seq(Buffer) /\ outputBuffers \in Seq(Buffer)
      /\ arrived \in Seq(Times) /\ written \in Seq(Buffer)
  BY <1>1, Zenon DEF Init
<1>7. /\ notifying \subseteq Producers /\ process \in {"running", "exited", "crashed"}
      /\ late \subseteq Nat \ {0} /\ deleted \subseteq Nat \ {0}
  BY DEF Init
<1>8. stops = 0
  BY DEF Init
<1>9. QED
  BY <1>2, <1>3, <1>4, <1>5, <1>6, <1>7, <1>8 DEF TypeInv, TypeOK, StopAfterPoll

LEMMA TypeStep == TypeInv /\ [Next]_vars => TypeInv'
<1> SUFFICES ASSUME TypeInv, [Next]_vars
             PROVE  TypeInv'
  OBVIOUS
<1> USE TimeAssumption, TimeoutAssumption
    DEF TypeInv, TypeOK, StopAfterPoll, Threads, PollLocs, StopLocs, queues, history
<1>1. ASSUME NEW p \in Producers, Push(p) PROVE TypeInv'
  <2>1. PICK t \in Times :
          /\ inputQueue' = Append(inputQueue, [id |-> Len(arrived) + 1, s_time |-> t])
          /\ arrived' = Append(arrived, t)
    BY <1>1 DEF Push
  <2>2. inputQueue' \in Seq(Buffer) /\ arrived' \in Seq(Times)
    BY <2>1 DEF Buffer
  <2>3. QED  BY <1>1, <2>2 DEF Push
<1>2. ASSUME NEW p \in Producers, PushFails(p) PROVE TypeInv'
  BY <1>2 DEF PushFails
<1>3. ASSUME NEW p \in Producers, NotifyOne(p) PROVE TypeInv'
  BY <1>3 DEF NotifyOne, Woken
<1>4. ASSUME LoopTop PROVE TypeInv'
  BY <1>4 DEF LoopTop
<1>5. ASSUME NEW r \in Threads, Pop(r) PROVE TypeInv'
  BY <1>5 DEF Pop, BatchOpen
<1>6. ASSUME NEW r \in Threads, EndPop(r) PROVE TypeInv'
  BY <1>6 DEF EndPop
<1>7. ASSUME NEW r \in Threads, InsertBuffer(r) PROVE TypeInv'
  <2>1. PICK i \in 1 .. Len(sortedQueue) + 1 :
          sortedQueue' = InsertAt(sortedQueue, i, Head(batch))
    BY <1>7 DEF InsertBuffer
  <2>2. Head(batch) \in Buffer /\ batch' \in Seq(Buffer)
    BY <1>7 DEF InsertBuffer
  <2>3. sortedQueue' \in Seq(Buffer)
    BY <2>1, <2>2, InsertAtProperties
  <2>4. late' \subseteq Nat \ {0}
    BY <1>7, <2>2 DEF InsertBuffer, Buffer
  <2>5. QED  BY <1>7, <2>2, <2>3, <2>4 DEF InsertBuffer
<1>8. ASSUME NEW r \in Threads, EndSort(r) PROVE TypeInv'
  BY <1>8 DEF EndSort
<1>9. ASSUME NEW r \in Threads, NEW until, Take(r, until)
      PROVE  /\ sortedQueue' \in Seq(Buffer) /\ outputBuffers' \in Seq(Buffer)
             /\ iov' = 0 /\ pc' = [pc EXCEPT ![r] = "write"]
  BY <1>9, SplitProperties DEF Take
<1>10. ASSUME OutputWindow PROVE TypeInv'
  <2>1. Take("poll", WindowUntil)  BY <1>10 DEF OutputWindow
  <2>2. /\ sortedQueue' \in Seq(Buffer) /\ outputBuffers' \in Seq(Buffer)
        /\ iov' = 0 /\ pc' = [pc EXCEPT !["poll"] = "write"]
    BY <1>9, <2>1
  <2>3. QED  BY <1>10, <2>2 DEF OutputWindow
<1>11. ASSUME OutputOnTimeout PROVE TypeInv'
  <2>1. Take("poll", FlushUntil)  BY <1>11 DEF OutputOnTimeout
  <2>2. /\ sortedQueue' \in Seq(Buffer) /\ outputBuffers' \in Seq(Buffer)
        /\ iov' = 0 /\ pc' = [pc EXCEPT !["poll"] = "write"]
    BY <1>9, <2>1
  <2>3. QED  BY <1>11, <2>2 DEF OutputOnTimeout
<1>12. ASSUME WaitForInput PROVE TypeInv'
  BY <1>12 DEF WaitForInput
<1>13. ASSUME WakeTimeout PROVE TypeInv'
  BY <1>13 DEF WakeTimeout, Woken
<1>14. ASSUME NEW r \in Threads, WriteNext(r) PROVE TypeInv'
  BY <1>14 DEF WriteNext
<1>15. ASSUME NEW r \in Threads, FinishOutput(r) PROVE TypeInv'
  <2>1. CASE outputBuffers = <<>>
    BY <1>15, <2>1 DEF FinishOutput
  <2>2. CASE outputBuffers # <<>>
    <3>1. Last(outputBuffers) \in Buffer  BY <2>2, EmptySeq, ElementOfSeq DEF Last
    <3>2. lastEmitted' \in Times  BY <1>15, <2>2, <3>1 DEF FinishOutput, Buffer
    <3>3. QED  BY <1>15, <3>2 DEF FinishOutput
  <2>3. QED  BY <2>1, <2>2
<1>16. ASSUME NEW r \in Threads, WriteFails(r) PROVE TypeInv'
  BY <1>16 DEF WriteFails
<1>17. ASSUME Tick PROVE TypeInv'
  BY <1>17 DEF Tick
<1>18. ASSUME StopThreads PROVE TypeInv'
  BY <1>18 DEF StopThreads
<1>19. ASSUME NotifyAll PROVE TypeInv'
  BY <1>19 DEF NotifyAll, Woken
<1>20. ASSUME Join PROVE TypeInv'
  BY <1>20 DEF Join
<1>21. ASSUME Flush PROVE TypeInv'
  <2>1. CASE sortedQueue = <<>>  BY <1>21, <2>1 DEF Flush
  <2>2. CASE sortedQueue # <<>>
    <3>1. Take("stop", FlushUntil)  BY <1>21, <2>2 DEF Flush
    <3>2. QED  BY <1>9, <1>21, <2>2, <3>1 DEF Flush
  <2>3. QED  BY <2>1, <2>2
<1>22. ASSUME Exit PROVE TypeInv'
  BY <1>22 DEF Exit
<1>23. ASSUME DeleteQueues PROVE TypeInv'
  <2>1. ToSet(inputQueue) \subseteq Buffer /\ ToSet(sortedQueue) \subseteq Buffer
    BY DEF ToSet
  <2>2. deleted' \subseteq Nat \ {0}
    BY <1>23, <2>1 DEF DeleteQueues, Buffer
  <2>3. QED  BY <1>23, <2>2 DEF DeleteQueues
<1>24. ASSUME UNCHANGED vars PROVE TypeInv'
  BY <1>24 DEF vars
<1>25. QED
  BY <1>1, <1>2, <1>3, <1>4, <1>5, <1>6, <1>7, <1>8, <1>10, <1>11, <1>12, <1>13,
     <1>14, <1>15, <1>16, <1>17, <1>18, <1>19, <1>20, <1>21, <1>22, <1>23, <1>24
  DEF Next, Step, Poll, Stop, Drain, Output, Terminated

\* Every variable keeps its type, in every reachable state.
THEOREM TypeCorrect == Spec => []TypeOK
<1>1. Spec => []TypeInv  BY TypeInit, TypeStep, PTL DEF Spec
<1>2. TypeInv => TypeOK  BY DEF TypeInv
<1>3. QED  BY <1>1, <1>2, PTL

\* The output thread and the thread in stopThreads() never work on the sorted
\* queue together: the join orders them, on the first call and on the second.
THEOREM OneConsumer == Spec => []SingleConsumer
<1>1. Spec => []TypeInv  BY TypeInit, TypeStep, PTL DEF Spec
<1>2. TypeInv => SingleConsumer
  BY DEF TypeInv, StopAfterPoll, SingleConsumer, Consuming
<1>3. QED  BY <1>1, <1>2, PTL

-----------------------------------------------------------------------------
(* The order of the sink.                                                  *)

\* insertBuffer() keeps the queue in order.
LEMMA InsertKeepsOrder ==
  ASSUME NEW q \in Seq(Buffer), SortedByTime(q), NEW b \in Buffer,
         NEW i \in 1 .. Len(q) + 1, InsertionPoint(q, b.s_time, i)
  PROVE  SortedByTime(InsertAt(q, i, b))
<1> DEFINE t == b.s_time
           a == InsertAt(q, i, b)
<1>1. /\ Len(a) = Len(q) + 1
      /\ \A j \in 1 .. Len(q) + 1 : a[j] = IF j < i THEN q[j]
                                           ELSE IF j = i THEN b ELSE q[j - 1]
  BY InsertAtProperties, SMTT(30)
<1>2. t \in Nat /\ \A j \in 1 .. Len(q) : q[j].s_time \in Nat
  <2>1. \A x \in Buffer : x.s_time \in Nat
    BY TimeAssumption DEF Buffer, Times
  <2>2. \A j \in 1 .. Len(q) : q[j] \in Buffer
    BY ElementOfSeq
  <2>3. QED  BY <2>1, <2>2
<1>3. /\ \A j \in 1 .. i - 1 : q[j].s_time <= t
      /\ \A j \in i .. Len(q) : t < q[j].s_time
  <2>1. CASE q = <<>>
    BY <2>1 DEF InsertionPoint
  <2>2. CASE q # <<>>
    <3>1. /\ Len(q) \in Nat \ {0} /\ Last(q) = q[Len(q)] /\ Head(q) = q[1]
      BY <2>2, EmptySeq DEF Last
    <3>2. \A j \in 1 .. Len(q) : q[1].s_time <= q[j].s_time /\ q[j].s_time <= q[Len(q)].s_time
      BY <1>2, <3>1 DEF SortedByTime
    <3>3. CASE t >= q[Len(q)].s_time
      BY <1>2, <2>2, <3>1, <3>2, <3>3 DEF InsertionPoint
    <3>4. CASE t < q[1].s_time
      BY <1>2, <2>2, <3>1, <3>2, <3>4 DEF InsertionPoint
    <3>5. CASE ~(t >= q[Len(q)].s_time) /\ ~(t < q[1].s_time)
      <4>1. /\ i \in 2 .. Len(q) /\ q[i - 1].s_time <= t
            /\ \A j \in i .. Len(q) : q[j].s_time > t
        BY <1>2, <2>2, <3>1, <3>5 DEF InsertionPoint
      <4>2. \A j \in 1 .. i - 1 : q[j].s_time <= q[i - 1].s_time
        BY <1>2, <4>1, SMTT(30) DEF SortedByTime
      <4>3. QED  BY <1>2, <4>1, <4>2
    <3>6. QED  BY <3>3, <3>4, <3>5
  <2>3. QED  BY <2>1, <2>2
<1>4. SUFFICES ASSUME NEW j \in 1 .. Len(q) + 1, NEW k \in 1 .. Len(q) + 1, j < k
               PROVE  a[j].s_time <= a[k].s_time
  BY <1>1 DEF SortedByTime
<1>5. Len(q) \in Nat
  OBVIOUS
<1> HIDE DEF a
<1>6. CASE k < i   BY <1>1, <1>2, <1>4, <1>6 DEF SortedByTime
<1>7. CASE k = i   BY <1>1, <1>2, <1>3, <1>4, <1>7
<1>8. CASE k > i /\ j = i  BY <1>1, <1>2, <1>3, <1>4, <1>8
<1>9. CASE k > i /\ j < i  BY <1>1, <1>2, <1>4, <1>9, SMTT(30) DEF SortedByTime
<1>10. CASE k > i /\ j > i  BY <1>1, <1>2, <1>4, <1>10 DEF SortedByTime
<1>11. QED  BY <1>6, <1>7, <1>8, <1>9, <1>10

LEMMA OrderInit == Init => OrderInv
<1> SUFFICES ASSUME Init PROVE OrderInv
  OBVIOUS
<1>1. TypeInv  BY TypeInit
<1>2. /\ sortedQueue = <<>> /\ outputBuffers = <<>> /\ written = <<>>
      /\ batch = <<>> /\ iov = 0 /\ Len(<<>>) = 0
  BY EmptySeq DEF Init
<1>3. \A r \in Threads : pc[r] # "write"
  BY DEF Init
<1>4. QED
  BY <1>1, <1>2, <1>3 DEF OrderInv, SinkInOrder, StackEmpty, SortedQueueOrdered,
     SortedByTime, NoEmptyOutput, OutputBeforeQueue, OnTimeOrReported,
     LastEmittedWritten, BackStepsReported

\* Steps that leave the sorted queue, the output and the sink alone.
QuietStep ==
  \/ \E p \in Producers : Push(p) \/ PushFails(p) \/ NotifyOne(p)
  \/ \E r \in Threads : Pop(r) \/ EndPop(r) \/ EndSort(r) \/ WriteFails(r)
  \/ LoopTop \/ WaitForInput \/ WakeTimeout \/ Tick
  \/ StopThreads \/ NotifyAll \/ Join \/ Exit \/ UNCHANGED vars
  \/ (Flush /\ sortedQueue = <<>>)

LEMMA QuietOrder ==
  ASSUME OrderInv, QuietStep PROVE SinkInOrder'
<1> USE DEF OrderInv, TypeInv, SinkInOrder, queues, history
<1>1. /\ UNCHANGED <<sortedQueue, outputBuffers, iov, lastEmitted, written, late>>
      /\ StackEmpty' /\ NoEmptyOutput'
  <2> USE DEF TypeOK, StopAfterPoll, StackEmpty, NoEmptyOutput, Threads, PollLocs, StopLocs
  <2>1. CASE \E p \in Producers : Push(p) \/ PushFails(p) \/ NotifyOne(p)
    BY <2>1 DEF Push, PushFails, NotifyOne, Woken
  <2>2. CASE \E r \in Threads : Pop(r)
    BY <2>2 DEF Pop
  <2>3. CASE \E r \in Threads : EndPop(r)
    BY <2>3 DEF EndPop
  <2>4. CASE \E r \in Threads : EndSort(r)
    BY <2>4 DEF EndSort
  <2>5. CASE \E r \in Threads : WriteFails(r)
    BY <2>5 DEF WriteFails
  <2>6. CASE LoopTop \/ WaitForInput
    BY <2>6 DEF LoopTop, WaitForInput
  <2>7. CASE WakeTimeout \/ Tick
    BY <2>7 DEF WakeTimeout, Tick, Woken
  <2>8. CASE StopThreads \/ NotifyAll
    BY <2>8 DEF StopThreads, NotifyAll, Woken
  <2>9. CASE Join \/ Exit \/ UNCHANGED vars
    BY <2>9 DEF Join, Exit, vars
  <2>10. CASE Flush /\ sortedQueue = <<>>
    BY <2>10 DEF Flush
  <2>11. QED
    BY <2>1, <2>2, <2>3, <2>4, <2>5, <2>6, <2>7, <2>8, <2>9, <2>10 DEF QuietStep
<1>2. SortedQueueOrdered' /\ OutputBeforeQueue' /\ BackStepsReported'
  BY <1>1 DEF SortedQueueOrdered, OutputBeforeQueue, BackStepsReported, SortedByTime
<1>3. OnTimeOrReported' /\ LastEmittedWritten'
  BY <1>1 DEF OnTimeOrReported, OnTime, LastEmittedWritten
<1>4. QED  BY <1>1, <1>2, <1>3

LEMMA InsertOrder ==
  ASSUME OrderInv, NEW r \in Threads, InsertBuffer(r) PROVE SinkInOrder'
<1> USE DEF OrderInv, TypeInv, SinkInOrder, queues, history
<1> DEFINE b == Head(batch)
<1>1. PICK i \in 1 .. Len(sortedQueue) + 1 :
        /\ InsertionPoint(sortedQueue, b.s_time, i)
        /\ sortedQueue' = InsertAt(sortedQueue, i, b)
  BY DEF InsertBuffer
<1>2. sortedQueue \in Seq(Buffer) /\ b \in Buffer
  BY DEF InsertBuffer, TypeOK
<1>3. /\ pc' = pc /\ pc[r] = "sort" /\ UNCHANGED <<outputBuffers, iov, lastEmitted, written>>
      /\ late' = IF b.s_time < lastEmitted THEN late \cup {b.id} ELSE late
  BY DEF InsertBuffer, IsLate
<1>4. /\ \A s \in Threads : pc[s] # "write"
      /\ outputBuffers = <<>> /\ iov = 0 /\ Len(outputBuffers) = 0
  BY <1>3, EmptySeq DEF StopAfterPoll, StackEmpty, Threads
<1>5. SortedQueueOrdered'
  BY <1>1, <1>2, InsertKeepsOrder DEF SortedQueueOrdered
<1>6. OnTimeOrReported'
  <2> HIDE DEF b
  <2>1. /\ Len(sortedQueue') = Len(sortedQueue) + 1
        /\ \A j \in 1 .. Len(sortedQueue) + 1 :
             sortedQueue'[j] = IF j < i THEN sortedQueue[j]
                               ELSE IF j = i THEN b ELSE sortedQueue[j - 1]
    BY <1>1, <1>2, InsertAtProperties, SMTT(30)
  <2>2. lastEmitted' <= b.s_time \/ b.id \in late'
    BY <1>2, <1>3, TimeAssumption DEF TypeOK, Times, Buffer
  <2>3. \A j \in 1 .. Len(sortedQueue) :
          lastEmitted' <= sortedQueue[j].s_time \/ sortedQueue[j].id \in late'
    BY <1>3 DEF OnTimeOrReported, OnTime
  <2>4. ASSUME NEW j \in 1 .. Len(sortedQueue) + 1
        PROVE  OnTime(sortedQueue[j])'
    <3>1. j - 1 \in 1 .. Len(sortedQueue) \/ j <= i
      BY <1>2
    <3>2. CASE j < i  BY <1>2, <2>1, <2>3, <3>2 DEF OnTime
    <3>3. CASE j = i  BY <2>1, <2>2, <3>3 DEF OnTime
    <3>4. CASE j > i
      <4>1. j - 1 \in 1 .. Len(sortedQueue)  BY <1>2, <3>4
      <4>2. sortedQueue'[j] = sortedQueue[j - 1]  BY <2>1, <3>4
      <4>3. QED  BY <2>3, <4>1, <4>2 DEF OnTime
    <3>5. QED  BY <3>2, <3>3, <3>4
  <2>5. QED  BY <1>3, <1>4, <2>1, <2>4 DEF OnTimeOrReported
<1>7. StackEmpty' /\ NoEmptyOutput' /\ OutputBeforeQueue'
  BY <1>3, <1>4 DEF StackEmpty, NoEmptyOutput, OutputBeforeQueue, SortedByTime
<1>8. LastEmittedWritten' /\ BackStepsReported'
  BY <1>3, <1>4 DEF LastEmittedWritten, BackStepsReported
<1>9. QED  BY <1>5, <1>6, <1>7, <1>8

\* Taking a prefix that has at least the front of the queue.
LEMMA TakeOrder ==
  ASSUME OrderInv, NEW r \in Threads, NEW until \in Nat, pc[r] = "check",
         sortedQueue # <<>>, Head(sortedQueue).s_time <= until, Take(r, until),
         UNCHANGED <<batch, lastEmitted, written, late>>
  PROVE  SinkInOrder'
<1> USE DEF OrderInv, TypeInv, SinkInOrder
<1>1. PICK k \in 0 .. Len(sortedQueue) :
        /\ \A i \in 1 .. k : sortedQueue[i].s_time <= until
        /\ k < Len(sortedQueue) => sortedQueue[k + 1].s_time > until
        /\ outputBuffers' = SubSeq(sortedQueue, 1, k)
        /\ sortedQueue' = SubSeq(sortedQueue, k + 1, Len(sortedQueue))
  BY DEF Take
<1>2. /\ sortedQueue \in Seq(Buffer) /\ Len(sortedQueue) \in Nat \ {0}
      /\ Head(sortedQueue) = sortedQueue[1]
      /\ \A i \in 1 .. Len(sortedQueue) : sortedQueue[i].s_time \in Nat
  <2>1. sortedQueue \in Seq(Buffer) /\ Len(sortedQueue) \in Nat \ {0}
    BY EmptySeq DEF TypeOK
  <2>2. \A i \in 1 .. Len(sortedQueue) : sortedQueue[i] \in Buffer
    BY <2>1, ElementOfSeq
  <2>3. \A x \in Buffer : x.s_time \in Nat
    BY TimeAssumption DEF Buffer, Times
  <2>4. QED  BY <2>1, <2>2, <2>3
<1>3. /\ Len(outputBuffers') = k
      /\ \A j \in 1 .. k : outputBuffers'[j] = sortedQueue[j]
      /\ Len(sortedQueue') = Len(sortedQueue) - k
      /\ \A j \in 1 .. Len(sortedQueue) - k : sortedQueue'[j] = sortedQueue[j + k]
  BY <1>1, <1>2, SplitProperties
<1>4. k > 0
  BY <1>1, <1>2
<1>5. /\ \A s \in Threads : pc[s] # "write"
      /\ \A s \in Threads : pc[s] \notin {"drain", "sort"}
      /\ iov = 0 /\ iov' = 0 /\ batch' = <<>>
      /\ pc' = [pc EXCEPT ![r] = "write"]
  BY DEF StopAfterPoll, StackEmpty, Threads, Take
<1>6. NoEmptyOutput' /\ StackEmpty'
  <2>1. outputBuffers' # <<>>
    BY <1>3, <1>4, EmptySeq
  <2>2. pc'[r] = "write"
    BY <1>5 DEF TypeOK
  <2>3. QED  BY <1>5, <2>1, <2>2 DEF NoEmptyOutput, StackEmpty
<1>7. \A i, j \in 1 .. Len(sortedQueue) :
         i < j => sortedQueue[i].s_time <= sortedQueue[j].s_time
  BY DEF SortedQueueOrdered, SortedByTime
<1>8. SortedQueueOrdered' /\ OutputBeforeQueue'
  <2>1. ASSUME NEW i \in 1 .. Len(sortedQueue) - k, NEW j \in 1 .. Len(sortedQueue) - k, i < j
        PROVE  sortedQueue'[i].s_time <= sortedQueue'[j].s_time
    <3>1. i + k \in 1 .. Len(sortedQueue) /\ j + k \in 1 .. Len(sortedQueue) /\ i + k < j + k
      BY <1>2, <2>1
    <3>2. QED  BY <1>3, <1>7, <3>1
  <2>2. ASSUME NEW i \in 1 .. k, NEW j \in 1 .. Len(sortedQueue) - k
        PROVE  outputBuffers'[i].s_time <= sortedQueue'[j].s_time
    <3>1. i \in 1 .. Len(sortedQueue) /\ j + k \in 1 .. Len(sortedQueue) /\ i < j + k
      BY <1>2
    <3>2. QED  BY <1>3, <1>7, <3>1
  <2>3. ASSUME NEW i \in 1 .. k, NEW j \in 1 .. k, i < j
        PROVE  outputBuffers'[i].s_time <= outputBuffers'[j].s_time
    <3>1. i \in 1 .. Len(sortedQueue) /\ j \in 1 .. Len(sortedQueue)
      BY <1>2
    <3>2. QED  BY <1>3, <1>7, <2>3, <3>1
  <2>4. QED
    BY <1>3, <2>1, <2>2, <2>3 DEF SortedQueueOrdered, SortedByTime, OutputBeforeQueue
<1>9. OnTimeOrReported'
  <2>1. \A j \in 1 .. Len(sortedQueue) :
          lastEmitted' <= sortedQueue[j].s_time \/ sortedQueue[j].id \in late'
    BY DEF OnTimeOrReported, OnTime
  <2>2. ASSUME NEW j \in 1 .. Len(sortedQueue) - k
        PROVE  OnTime(sortedQueue[j])'
    <3>1. j + k \in 1 .. Len(sortedQueue)  BY <1>2
    <3>2. QED  BY <1>3, <2>1, <3>1 DEF OnTime
  <2>3. ASSUME NEW j \in 1 .. k
        PROVE  OnTime(outputBuffers[j])'
    <3>1. j \in 1 .. Len(sortedQueue)  BY <1>2
    <3>2. QED  BY <1>3, <2>1, <3>1 DEF OnTime
  <2>4. QED  BY <1>3, <2>2, <2>3 DEF OnTimeOrReported
<1>10. LastEmittedWritten' /\ BackStepsReported'
  BY <1>5 DEF LastEmittedWritten, BackStepsReported
<1>11. QED  BY <1>6, <1>7, <1>8, <1>9, <1>10

LEMMA WriteOrder ==
  ASSUME OrderInv, NEW r \in Threads, WriteNext(r) PROVE SinkInOrder'
<1> USE DEF OrderInv, TypeInv, SinkInOrder
<1> DEFINE b == outputBuffers[iov + 1]
           n == Len(written)
<1>1. /\ pc[r] = "write" /\ iov < Len(outputBuffers)
      /\ written' = Append(written, b) /\ iov' = iov + 1
      /\ UNCHANGED <<batch, sortedQueue, outputBuffers, lastEmitted, pc, late>>
  BY DEF WriteNext
<1>2. /\ iov \in Nat /\ Len(outputBuffers) \in Nat /\ n \in Nat
      /\ iov + 1 \in 1 .. Len(outputBuffers) /\ b \in Buffer
  BY <1>1, ElementOfSeq DEF TypeOK
<1>3. /\ Len(written') = n + 1 /\ written'[n + 1] = b
      /\ \A i \in 1 .. n : written'[i] = written[i]
      /\ written' # <<>>
  BY <1>1, <1>2, AppendProperties, SMTT(30) DEF TypeOK
<1>4. SortedQueueOrdered' /\ OutputBeforeQueue' /\ OnTimeOrReported'
  BY <1>1 DEF SortedQueueOrdered, OutputBeforeQueue, OnTimeOrReported, OnTime, SortedByTime
<1>5. StackEmpty' /\ NoEmptyOutput'
  BY <1>1 DEF StackEmpty, NoEmptyOutput
<1>6. LastEmittedWritten'
  BY <1>1, <1>2, <1>3 DEF LastEmittedWritten, Last
<1>7. ASSUME n > 0, b.s_time < written[n].s_time
      PROVE  b.id \in late
  <2>1. written # <<>> /\ Last(written) = written[n]
    BY <1>7, EmptySeq DEF Last
  <2>2. CASE iov = 0
    <3>1. written[n].s_time = lastEmitted
      BY <2>1, <2>2 DEF LastEmittedWritten
    <3>2. OnTime(b)
      BY <1>2 DEF OnTimeOrReported
    <3>3. lastEmitted \in Nat /\ b.s_time \in Nat
      BY <1>2, TimeAssumption DEF TypeOK, Times, Buffer
    <3>4. QED  BY <1>7, <3>1, <3>2, <3>3 DEF OnTime
  <2>3. CASE iov > 0
    <3>1. written[n] = outputBuffers[iov] /\ iov \in 1 .. Len(outputBuffers)
      BY <1>2, <2>1, <2>3 DEF LastEmittedWritten
    <3>2. outputBuffers[iov].s_time <= b.s_time
      BY <1>2, <3>1 DEF OutputBeforeQueue, SortedByTime
    <3>3. outputBuffers[iov].s_time \in Nat /\ b.s_time \in Nat
      <4>1. outputBuffers[iov] \in Buffer
        BY <3>1, ElementOfSeq DEF TypeOK
      <4>2. \A x \in Buffer : x.s_time \in Nat
        BY TimeAssumption DEF Buffer, Times
      <4>3. QED  BY <1>2, <4>1, <4>2
    <3>4. QED  BY <1>7, <3>1, <3>2, <3>3
  <2>4. QED  BY <1>2, <2>2, <2>3
<1>8. BackStepsReported'
  <2> HIDE DEF b
  <2>1. ASSUME NEW i \in 1 .. n, written'[i + 1].s_time < written'[i].s_time
        PROVE  written'[i + 1].id \in late
    <3>1. CASE i = n
      BY <1>2, <1>3, <1>7, <2>1, <3>1
    <3>2. CASE i < n
      BY <1>2, <1>3, <2>1, <3>2 DEF BackStepsReported
    <3>3. QED  BY <1>2, <3>1, <3>2
  <2>2. QED  BY <1>1, <1>2, <1>3, <2>1 DEF BackStepsReported
<1>9. QED  BY <1>4, <1>5, <1>6, <1>8

LEMMA FinishOrder ==
  ASSUME OrderInv, NEW r \in Threads, FinishOutput(r) PROVE SinkInOrder'
<1> USE DEF OrderInv, TypeInv, SinkInOrder, history
<1> DEFINE n == Len(outputBuffers)
<1>1. /\ pc[r] = "write" /\ iov = n /\ outputBuffers' = <<>> /\ iov' = 0
      /\ UNCHANGED <<batch, sortedQueue, written, late>>
      /\ pc' = [pc EXCEPT ![r] = IF r = "poll" THEN "loop" ELSE "stopped"]
  BY DEF FinishOutput
<1>2. outputBuffers # <<>> /\ n \in Nat \ {0}
  BY <1>1, EmptySeq DEF NoEmptyOutput, TypeOK
<1>3. lastEmitted' = outputBuffers[n].s_time
  BY <1>2 DEF FinishOutput, Last
<1>4. SortedQueueOrdered' /\ BackStepsReported'
  BY <1>1 DEF SortedQueueOrdered, SortedByTime, BackStepsReported
<1>5. Len(outputBuffers') = 0
  BY <1>1, EmptySeq
<1>6. OutputBeforeQueue' /\ OnTimeOrReported'
  BY <1>1, <1>2, <1>3, <1>5
  DEF OutputBeforeQueue, OnTimeOrReported, OnTime, SortedByTime
<1>7. LastEmittedWritten'
  BY <1>1, <1>2, <1>3 DEF LastEmittedWritten
<1>8. StackEmpty' /\ NoEmptyOutput'
  BY <1>1 DEF StackEmpty, NoEmptyOutput, StopAfterPoll, TypeOK, Threads
<1>9. QED  BY <1>4, <1>6, <1>7, <1>8

LEMMA DeleteOrder ==
  ASSUME OrderInv, DeleteQueues PROVE SinkInOrder'
<1> USE DEF OrderInv, TypeInv, SinkInOrder
<1>1. /\ sortedQueue' = <<>> /\ Len(sortedQueue') = 0
      /\ UNCHANGED <<batch, outputBuffers, iov, lastEmitted, written, late>>
      /\ pc["stop"] = "stopped" /\ pc' = [pc EXCEPT !["stop"] = "destroyed"]
  BY EmptySeq DEF DeleteQueues
<1>2. SortedQueueOrdered' /\ OutputBeforeQueue' /\ OnTimeOrReported'
  BY <1>1 DEF SortedQueueOrdered, SortedByTime, OutputBeforeQueue, OnTimeOrReported, OnTime
<1>3. LastEmittedWritten' /\ BackStepsReported'
  BY <1>1 DEF LastEmittedWritten, BackStepsReported
<1>4. StackEmpty' /\ NoEmptyOutput'
  BY <1>1 DEF StackEmpty, NoEmptyOutput, TypeOK, Threads
<1>5. QED  BY <1>2, <1>3, <1>4

LEMMA OrderStep == OrderInv /\ [Next]_vars => OrderInv'
<1> SUFFICES ASSUME OrderInv, [Next]_vars PROVE SinkInOrder'
  BY TypeStep DEF OrderInv
<1>1. CASE QuietStep
  BY <1>1, QuietOrder
<1>2. ASSUME NEW r \in Threads, InsertBuffer(r) \/ WriteNext(r) \/ FinishOutput(r)
      PROVE  SinkInOrder'
  BY <1>2, InsertOrder, WriteOrder, FinishOrder
<1>3. ASSUME NEW i \in 1 .. Len(sortedQueue) PROVE sortedQueue[i].s_time \in Times
  <2>1. sortedQueue[i] \in Buffer
    BY ElementOfSeq DEF OrderInv, TypeInv, TypeOK
  <2>2. \A x \in Buffer : x.s_time \in Times
    BY DEF Buffer
  <2>3. QED  BY <2>1, <2>2
<1>4. ASSUME sortedQueue # <<>>
      PROVE  /\ Len(sortedQueue) \in Nat \ {0} /\ FlushUntil \in Nat
             /\ Head(sortedQueue).s_time <= FlushUntil
             /\ Head(sortedQueue).s_time \in Nat
  <2>1. Len(sortedQueue) \in Nat \ {0}
    BY <1>4, EmptySeq DEF OrderInv, TypeInv, TypeOK
  <2>2. /\ sortedQueue[1].s_time \in Nat /\ sortedQueue[Len(sortedQueue)].s_time \in Nat
        /\ sortedQueue[1].s_time <= sortedQueue[Len(sortedQueue)].s_time
    BY <1>3, <2>1, TimeAssumption
    DEF OrderInv, SinkInOrder, SortedQueueOrdered, SortedByTime, Times
  <2>3. QED  BY <2>1, <2>2 DEF FlushUntil, Last
<1>5. CASE OutputWindow
  <2>1. sortedQueue # <<>>
    BY <1>5, EmptySeq DEF OutputWindow, WindowReady
  <2>2. WindowUntil \in Nat
    BY <1>4, <2>1, TimeAssumption DEF WindowUntil, Sub
  <2>3. Head(sortedQueue).s_time <= WindowUntil
    BY <1>4, <1>5, <2>1, <2>2 DEF OutputWindow, WindowReady, WindowUntil, FlushUntil
  <2>4. QED
    BY <1>5, <2>1, <2>2, <2>3, TakeOrder DEF OutputWindow, Threads, history
<1>6. CASE OutputOnTimeout
  <2>1. sortedQueue # <<>>  BY <1>6 DEF OutputOnTimeout, TimeoutFlush
  <2>2. QED  BY <1>4, <1>6, <2>1, TakeOrder DEF OutputOnTimeout, Threads
<1>7. CASE Flush /\ sortedQueue # <<>>
  BY <1>4, <1>7, TakeOrder DEF Flush, Threads, history
<1>8. CASE DeleteQueues
  BY <1>8, DeleteOrder
<1>9. QED
  BY <1>1, <1>2, <1>5, <1>6, <1>7, <1>8
  DEF Next, Step, Poll, Stop, Drain, Output, Terminated, QuietStep, Threads

\* Whatever arrives in whatever order, the sink steps back in time only to a
\* buffer that insertBuffer() has reported late.
THEOREM BackStepsAreReported == Spec => []BackStepsReported
<1>1. Spec => []OrderInv  BY OrderInit, OrderStep, PTL DEF Spec
<1>2. OrderInv => BackStepsReported  BY DEF OrderInv, SinkInOrder
<1>3. QED  BY <1>1, <1>2, PTL

\* outputData() never reads back() of an empty outputBuffers.
THEOREM OutputNeverEmpty == Spec => []NoEmptyOutput
<1>1. Spec => []OrderInv  BY OrderInit, OrderStep, PTL DEF Spec
<1>2. OrderInv => NoEmptyOutput  BY DEF OrderInv, SinkInOrder
<1>3. QED  BY <1>1, <1>2, PTL

\* The sorted queue is sorted, also while a batch is being inserted.
THEOREM QueueStaysOrdered == Spec => []SortedQueueOrdered
<1>1. Spec => []OrderInv  BY OrderInit, OrderStep, PTL DEF Spec
<1>2. OrderInv => SortedQueueOrdered  BY DEF OrderInv, SinkInOrder
<1>3. QED  BY <1>1, <1>2, PTL
=============================================================================
