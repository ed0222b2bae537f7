-------------------------------- MODULE Sender --------------------------------
(***************************************************************************)
(* The sending program: main() with its command line, the constructor and  *)
(* the send loop of e2sarwf/Sender, the threads of the Segmenter that give *)
(* buffers back through senderCallback(), and the ends of the program:     *)
(* return, exception, SIGINT.  The pool of buffers is module BufferPool,   *)
(* of which the loop and the Segmenter's threads are the callers.          *)
(*                                                                         *)
(* The Segmenter, the load balancer and the ring item source are libraries *)
(* or services, modelled from how Sender uses them.                        *)
(***************************************************************************)
EXTENDS Integers, Sequences, SequencesExt, FiniteSets, CommandLine

CONSTANTS
  SendThreads,   \* threads of the Segmenter
  SendQueueSize, \* capacity of the Segmenter's queue
  Blocks, NoBlock, QueueSize, RetryAttempts, \* of the pool
  BufSize,       \* m_evtBufSize
  CommandLines,  \* sets of options that are given
  Configs,       \* what they and the ini file say: m_nEvents (0: send all), m_useCt,
                 \* whether the source is a ring buffer, where reads time out, and
                 \* whether there is a control plane, a load balancer
  ItemKinds,     \* the ring items that come: their size, whether they are
                 \* physics events, and their timestamp (0: no body header)
  Lengths,       \* numbers of items the source may deliver
  MaxRefused     \* bound: addToSendQueue() failures with room in the queue

ASSUME ThreadAssumption == IsFiniteSet(SendThreads) /\ "loop" \notin SendThreads
ASSUME PoolAssumption ==
  /\ IsFiniteSet(Blocks) /\ NoBlock \notin Blocks
  /\ QueueSize \in Nat /\ RetryAttempts \in Nat
ASSUME SizeAssumption == BufSize \in Nat \ {0} /\ Lengths \subseteq Nat
ASSUME ItemAssumption ==
  ItemKinds \subseteq [size : Nat \ {0}, physics : BOOLEAN, time : Nat]
ASSUME CountAssumption == MaxRefused \in Nat /\ SendQueueSize \in Nat
ASSUME ConfigAssumption ==
  Configs \subseteq [nEvents : Nat, useCt : BOOLEAN, ring : BOOLEAN, useCP : BOOLEAN]

VARIABLES
  queue, allocated, inUse, call, mutex, open, peak, \* of the pool
  given,        \* the options on the command line, until it has been looked at
  config,       \* their values
  length,       \* items the source will deliver
  read,         \* history: the items getItem() has returned
  pendingItem,  \* pPendingItem: no item or one
  buffer,       \* evtBuf
  memory,       \* what each block of memory holds: the items copied into it
  currentBytes, \* bytes in the send buffer
  totalBytes,   \* m_totalBytes
  sendCount,    \* m_sendCount
  done,         \* done
  pc,           \* where the main thread is
  sendQueue,    \* the Segmenter's queue
  sending,      \* what each thread of the Segmenter sends
  stopping,     \* stopThreads() has been called
  senders,      \* the load balancer: "none", "added", "removed", "kept" if it refused
  handler,      \* SIGINT: "none", the thread it came to, "exited"
  packed,       \* history: contents of the buffers given to addToSendQueue()
  accepted,     \* history: <<number in packed, event number>> of those it took
  wire          \* history: <<event number, items>> sent

pool      == <<queue, allocated, inUse, call, mutex, open, peak>>
source    == <<given, config, length, read>>
packing   == <<pendingItem, buffer, memory, currentBytes>>
counts    == <<totalBytes, sendCount, done>>
segmenter == <<sendQueue, sending, stopping, senders>>
history   == <<packed, accepted, wire>>
vars == <<pool, source, packing, counts, pc, segmenter, handler, history>>

Pool == INSTANCE BufferPool WITH Threads <- SendThreads \cup {"loop"}

Item   == [id : Nat \ {0}, kind : ItemKinds]

\* m_pSegmenter is there from the end of the constructor to that of ~Sender().
Constructing == {"version", "source", "flags", "uri", "loadBalancer", "segmenter"}
Sending      == {"start", "top", "malloc", "pack", "send", "limit", "return", "join"}
Places       == Constructing \cup Sending \cup {"parse", "receiver", "failed", "end"}

Init ==
  /\ Pool!Init
  /\ given \in CommandLines
  /\ config \in Configs
  /\ "send" \in given =>
       ("useCt" \in given <=> config.useCt) /\ (config.nEvents # 0 => "num" \in given)
  /\ length \in Lengths
  /\ read = <<>>
  /\ pendingItem = <<>>
  /\ buffer = NoBlock
  /\ memory = [b \in Blocks |-> <<>>]
  /\ currentBytes = 0
  /\ totalBytes = 0
  /\ sendCount = 0
  /\ done = FALSE
  /\ pc = "parse"
  /\ sendQueue = <<>>
  /\ sending = [t \in SendThreads |-> <<>>]
  /\ stopping = FALSE
  /\ senders = "none"
  /\ handler = "none"
  /\ packed = <<>>
  /\ accepted = <<>>
  /\ wire = <<>>

\* SIGINT is handled on the main thread, which is at place p meanwhile.
At(p) == pc = p /\ handler = "none"

-----------------------------------------------------------------------------
(* main(), and the constructor.                                            *)

\* The options are refused, or ask for help, or for no program; or what becomes
\* of this is module Receiver.
Program ==
  IF OptionsRefused(given) \/ "help" \in given THEN "end"
  ELSE IF "send" \in given THEN "version"
  ELSE IF "recv" \in given THEN "receiver" ELSE "end"

\* What else is on the command line may be unknown to the parser, which ends it.
Parse ==
  /\ At("parse")
  /\ given' = {}
  /\ pc' \in {Program, "end"}
  /\ UNCHANGED <<pool, config, length, read, packing, counts, segmenter, handler,
                 history>>

\* A step of the constructor: main() catches what it throws, and there is no
\* ~Sender() then.
Construct(here, next) ==
  /\ At(here)
  /\ pc' \in {next, "failed"}
  /\ UNCHANGED <<pool, source, packing, counts, segmenter, handler, history>>

MapVersion     == Construct("version", "source")
MakeDataSource == Construct("source", "flags")
GetFlags       == Construct("flags", "uri")
GetUri         == Construct("uri", IF config.useCP THEN "loadBalancer" ELSE "segmenter")
MakeSegmenter  == Construct("segmenter", "start")

AddSenders ==
  /\ At("loadBalancer")
  /\ \/ senders' = "added" /\ pc' = "segmenter"
     \/ senders' = "none" /\ pc' = "failed"
  /\ UNCHANGED <<pool, source, packing, counts, sendQueue, sending, stopping, handler,
                 history>>

-----------------------------------------------------------------------------
(* operator()(): start, and get a buffer from the pool.                    *)

OpenAndStart ==
  /\ At("start")
  /\ pc' \in {"top", "return"} \* started, or failed
  /\ UNCHANGED <<pool, source, packing, counts, segmenter, handler, history>>

UseBuffer(b) ==
  /\ buffer' = b
  /\ currentBytes' = 0
  /\ pc' = "pack"

PopRecycled ==
  /\ At("top")
  /\ Pool!PopRecycled("loop")
  /\ UseBuffer(Head(queue))
  /\ UNCHANGED <<source, pendingItem, memory, counts, segmenter, handler, history>>

PopMiss ==
  /\ At("top")
  /\ Pool!PopMiss("loop")
  /\ pc' = "malloc"
  /\ UNCHANGED <<source, packing, counts, segmenter, handler, history>>

LockPool ==
  /\ At("malloc")
  /\ Pool!Lock("loop")
  /\ UNCHANGED <<source, packing, counts, pc, segmenter, handler, history>>

Malloc ==
  /\ At("malloc")
  /\ \E b \in Blocks : Pool!Malloc("loop", b) /\ UseBuffer(b)
  /\ UNCHANGED <<source, pendingItem, memory, counts, segmenter, handler, history>>

\* std::bad_alloc leaves operator()() and is caught by main().
BadAlloc ==
  /\ At("malloc")
  /\ Pool!MallocFails("loop")
  /\ pc' = "return"
  /\ UNCHANGED <<source, packing, counts, segmenter, handler, history>>

-----------------------------------------------------------------------------
(* Packing.                                                                *)

Contents == IF currentBytes = 0 THEN <<>> ELSE memory[buffer]

\* Mutant: the item is copied when the buffer is not full, whatever its size.
PlaceUnchecked(item) ==
  /\ pendingItem' = <<>>
  /\ memory' = [memory EXCEPT ![buffer] = Append(Contents, item)]
  /\ currentBytes' = currentBytes + item.kind.size
  /\ UNCHANGED pc

\* Mutant: the item that does not fit is forgotten.
PlaceOrDrop(item) ==
  IF currentBytes + item.kind.size > BufSize
    THEN /\ pendingItem' = <<>>
         /\ pc' = "send"
         /\ UNCHANGED <<memory, currentBytes>>
    ELSE /\ pendingItem' = <<>>
         /\ memory' = [memory EXCEPT ![buffer] = Append(Contents, item)]
         /\ currentBytes' = currentBytes + item.kind.size
         /\ UNCHANGED pc

\* Copy an item into the buffer, or keep it pending when it does not fit.
Place(item) ==
  IF currentBytes + item.kind.size > BufSize
    THEN /\ pendingItem' = <<item>>
         /\ pc' = "send"
         /\ UNCHANGED <<memory, currentBytes>>
    ELSE /\ pendingItem' = <<>>
         /\ memory' = [memory EXCEPT ![buffer] = Append(Contents, item)]
         /\ currentBytes' = currentBytes + item.kind.size
         /\ UNCHANGED pc

Packing == At("pack") /\ currentBytes < BufSize

PackPending ==
  /\ Packing
  /\ pendingItem # <<>>
  /\ Place(pendingItem[1])
  /\ UNCHANGED <<pool, source, buffer, counts, segmenter, handler, history>>

PackNext ==
  /\ Packing
  /\ pendingItem = <<>>
  /\ Len(read) < length
  /\ \E item \in [id : {Len(read) + 1}, kind : ItemKinds] :
       /\ read' = Append(read, item)
       /\ Place(item)
  /\ UNCHANGED <<pool, given, config, length, buffer, counts, segmenter, handler, history>>

\* Mutant: the end of the source counts only after a full buffer has been sent.
NoItemAfterFull ==
  /\ Packing
  /\ pendingItem = <<>>
  /\ config.ring \/ Len(read) = length
  /\ done' = (done \/ totalBytes > BufSize)
  /\ pc' = "send"
  /\ UNCHANGED <<pool, source, packing, totalBytes, sendCount, segmenter, handler,
                 history>>

\* getItem() returns no item: end of file, or the read of a ring timed out.
NoItem ==
  /\ Packing
  /\ pendingItem = <<>>
  /\ config.ring \/ Len(read) = length
  /\ done' = (done \/ totalBytes > 0)
  /\ pc' = "send"
  /\ UNCHANGED <<pool, source, packing, totalBytes, sendCount, segmenter, handler,
                 history>>

BufferFull ==
  /\ At("pack")
  /\ currentBytes >= BufSize
  /\ pc' = "send"
  /\ UNCHANGED <<pool, source, packing, counts, segmenter, handler, history>>

-----------------------------------------------------------------------------
(* sendBuffer(); afterwards the loop has forgotten the buffer.             *)

ForgetBuffer ==
  /\ buffer' = NoBlock
  /\ currentBytes' = 0
  /\ pc' = "limit"

SendNothing ==
  /\ At("send")
  /\ currentBytes = 0
  /\ ForgetBuffer
  /\ UNCHANGED <<pool, source, pendingItem, memory, counts, segmenter, handler,
                 history>>

\* getFirstTimestamp()
FirstTimestamp(items) ==
  LET physics == {i \in 1 .. Len(items) : items[i].kind.physics}
  IN  IF physics = {} THEN 0 ELSE items[Min(physics)].kind.time

EventNumber == IF config.useCt THEN sendCount ELSE FirstTimestamp(Contents)

\* Mutant: the buffer goes back to the pool once it is in the send queue.
SendAndRelease ==
  /\ At("send")
  /\ currentBytes > 0
  /\ Len(sendQueue) < SendQueueSize
  /\ packed' = Append(packed, Contents)
  /\ accepted' = Append(accepted, [packed |-> Len(packed) + 1, number |-> EventNumber])
  /\ sendQueue' = Append(sendQueue, [block |-> buffer, event |-> Len(accepted) + 1])
  /\ queue' = Append(queue, buffer)
  /\ totalBytes' = totalBytes + currentBytes
  /\ sendCount' = sendCount + 1
  /\ ForgetBuffer
  /\ UNCHANGED <<allocated, inUse, call, mutex, open, peak, source, pendingItem,
                 memory, done, sending, stopping, senders, handler, wire>>

SendBuffer ==
  /\ At("send")
  /\ currentBytes > 0
  /\ Len(sendQueue) < SendQueueSize
  /\ packed' = Append(packed, Contents)
  /\ accepted' = Append(accepted, [packed |-> Len(packed) + 1, number |-> EventNumber])
  /\ sendQueue' = Append(sendQueue, [block |-> buffer, event |-> Len(accepted) + 1])
  /\ totalBytes' = totalBytes + currentBytes
  /\ sendCount' = sendCount + 1
  /\ ForgetBuffer
  /\ UNCHANGED <<pool, source, pendingItem, memory, done, sending, stopping, senders,
                 handler, wire>>

\* addToSendQueue() fails: "trying to continue...".
Refused == Len(packed) - Len(accepted)

\* Mutant: a buffer that is refused is counted.
SendRefusedCounts ==
  /\ At("send")
  /\ currentBytes > 0
  /\ Len(sendQueue) = SendQueueSize \/ Refused < MaxRefused
  /\ packed' = Append(packed, Contents)
  /\ sendCount' = sendCount + 1
  /\ ForgetBuffer
  /\ UNCHANGED <<pool, source, pendingItem, memory, totalBytes, done, segmenter,
                 handler, accepted, wire>>

SendRefused ==
  /\ At("send")
  /\ currentBytes > 0
  /\ Len(sendQueue) = SendQueueSize \/ Refused < MaxRefused
  /\ packed' = Append(packed, Contents)
  /\ ForgetBuffer
  /\ UNCHANGED <<pool, source, pendingItem, memory, counts, segmenter, handler,
                 accepted, wire>>

\* Mutant: off by one.
PastLimit == config.nEvents # 0 /\ sendCount > config.nEvents

AtLimit == config.nEvents # 0 /\ sendCount = config.nEvents

CheckLimit ==
  /\ At("limit")
  /\ done' = (done \/ AtLimit)
  /\ pc' = IF done' THEN "return" ELSE "top"
  /\ UNCHANGED <<pool, source, packing, totalBytes, sendCount, segmenter, handler,
                 history>>

-----------------------------------------------------------------------------
(* ~Sender() and the signal handler: shutdown() stops the Segmenter.       *)

Joined == stopping /\ \A t \in SendThreads : sending[t] = <<>> /\ call[t].op = "none"

\* Mutant: the senders stay when the Segmenter did not start.
RemoveSendersStarted ==
  senders' \in IF senders # "none" /\ pc # "start" THEN {"removed", "kept"} ELSE {senders}

\* removeSenders(): a failure is reported, and that is all.
RemoveSenders ==
  senders' \in IF senders # "none" THEN {"removed", "kept"} ELSE {senders}

Shutdown ==
  /\ At("return")
  /\ RemoveSenders
  /\ stopping' = TRUE
  /\ pc' = "join"
  /\ UNCHANGED <<pool, source, packing, counts, sendQueue, sending, handler, history>>

\* Mutant: ~Sender() destroys the pool while the Segmenter is running.
DestroyPoolAtOnce ==
  /\ At("join")
  /\ Pool!Destroy
  /\ pc' = "end"
  /\ UNCHANGED <<source, packing, counts, segmenter, handler, history>>

DestroyPool ==
  /\ At("join")
  /\ Joined
  /\ Pool!Destroy
  /\ pc' = "end"
  /\ UNCHANGED <<source, packing, counts, segmenter, handler, history>>

\* SIGINT, once the constructor has set the handler.
Interrupt ==
  /\ handler = "none" /\ pc \in Constructing \cup Sending
  /\ handler' = "shutdown"
  /\ UNCHANGED <<pool, source, packing, counts, pc, segmenter, history>>

\* Mutant: the handler waits for threads it has not stopped.
StopNothing ==
  /\ handler = "shutdown"
  /\ handler' = "join"
  /\ UNCHANGED <<pool, source, packing, counts, pc, segmenter, history>>

StopThreads ==
  /\ handler = "shutdown"
  /\ pc \in Sending
  /\ RemoveSenders
  /\ stopping' = TRUE
  /\ handler' = "join"
  /\ UNCHANGED <<pool, source, packing, counts, pc, sendQueue, sending, history>>

\* There is no Segmenter yet: shutdown() only sleeps.
NothingToStop ==
  /\ handler = "shutdown"
  /\ pc \in Constructing
  /\ handler' = "exited"
  /\ UNCHANGED <<pool, source, packing, counts, pc, segmenter, history>>

Exit ==
  /\ handler = "join"
  /\ Joined
  /\ handler' = "exited"
  /\ UNCHANGED <<pool, source, packing, counts, pc, segmenter, history>>

-----------------------------------------------------------------------------
(* The Segmenter's threads.                                                *)

Dequeue(t) ==
  /\ ~stopping
  /\ sendQueue # <<>>
  /\ sending[t] = <<>> /\ call[t].op = "none"
  /\ sending' = [sending EXCEPT ![t] = <<Head(sendQueue)>>]
  /\ sendQueue' = Tail(sendQueue)
  /\ UNCHANGED <<pool, source, packing, counts, pc, stopping, senders, handler, history>>

\* The event is sent, then senderCallback() returns its buffer to the pool.
Transmit(t) ==
  /\ sending[t] # <<>>
  /\ LET entry == sending[t][1] IN
       /\ wire' = Append(wire, [event |-> entry.event, items |-> memory[entry.block]])
       /\ Pool!BeginPush(t, entry.block)
  /\ sending' = [sending EXCEPT ![t] = <<>>]
  /\ UNCHANGED <<source, packing, counts, pc, sendQueue, stopping, senders, handler,
                 packed, accepted>>

Callback(t) ==
  /\ Pool!Push(t)
  /\ UNCHANGED <<source, packing, counts, pc, segmenter, handler, history>>

-----------------------------------------------------------------------------
Main ==
  \/ Parse
  \/ MapVersion \/ MakeDataSource \/ GetFlags \/ GetUri \/ AddSenders \/ MakeSegmenter

Loop ==
  \/ OpenAndStart
  \/ PopRecycled \/ PopMiss \/ LockPool \/ Malloc \/ BadAlloc
  \/ PackPending \/ PackNext \/ NoItem \/ BufferFull
  \/ SendNothing \/ SendBuffer \/ SendRefused \/ CheckLimit
  \/ Shutdown \/ DestroyPool

Handler == StopThreads \/ NothingToStop \/ Exit

Send(t) == Dequeue(t) \/ Transmit(t) \/ Callback(t)

Ended == pc \in {"end", "failed", "receiver"} \/ handler = "exited"

Terminated == Ended /\ UNCHANGED vars

Next ==
  \/ Main \/ Loop
  \/ Interrupt \/ Handler
  \/ \E t \in SendThreads : Send(t)
  \/ Terminated

Spec == Init /\ [][Next]_vars

\* The main thread and the Segmenter's threads are scheduled, and the source
\* delivers or reports its end.
FairSpec ==
  Spec /\ WF_vars(Main \/ Loop \/ Handler) /\ \A t \in SendThreads : WF_vars(Send(t))

-----------------------------------------------------------------------------
TypeOK ==
  /\ config \in Configs /\ length \in Lengths
  /\ given \in CommandLines \cup {{}} /\ senders \in {"none", "added", "removed", "kept"}
  /\ read \in Seq(Item)
  /\ pendingItem \in Seq(Item) /\ Len(pendingItem) <= 1
  /\ buffer \in Blocks \cup {NoBlock}
  /\ memory \in [Blocks -> Seq(Item)]
  /\ currentBytes \in 0 .. BufSize
  /\ totalBytes \in Nat /\ sendCount \in Nat
  /\ done \in BOOLEAN /\ stopping \in BOOLEAN
  /\ pc \in Places
  /\ sendQueue \in Seq([block : Blocks, event : Nat \ {0}])
  /\ sending \in [SendThreads -> Seq([block : Blocks, event : Nat \ {0}])]
  /\ \A t \in SendThreads : Len(sending[t]) <= 1
  /\ handler \in {"none", "shutdown", "join", "exited"}
  /\ packed \in Seq(Seq(Item))
  /\ accepted \in Seq([packed : Nat \ {0}, number : Nat])
  /\ wire \in Seq([event : Nat \ {0}, items : Seq(Item)])

\* Every item read is packed into one buffer, which holds it, in the order of the
\* source; the one that did not fit is not lost between two buffers.
Bytes(items) ==
  LET sum[i \in 0 .. Len(items)] ==
        IF i = 0 THEN 0 ELSE sum[i - 1] + items[i].kind.size
  IN  sum[Len(items)]
ItemsKept ==
  /\ FlattenSeq(packed) \o Contents \o pendingItem = read
  /\ currentBytes = Bytes(Contents) /\ Bytes(Contents) <= BufSize

\* What is sent is what was packed: no buffer is packed again before it left.  A
\* number that is a time is that of the items sent under it.
WireIntact ==
  /\ \A i \in 1 .. Len(wire) :
       LET event == accepted[wire[i].event] IN
         /\ wire[i].items = packed[event.packed]
         /\ ~config.useCt => event.number = FirstTimestamp(wire[i].items)
  /\ \A i, j \in 1 .. Len(wire) : i # j => wire[i].event # wire[j].event

\* With --useCt events are numbered one after the other in the order they were
\* packed in: an empty buffer and a failed send leave no gap.  (Without it their
\* numbers are times, which may repeat.)
NumbersInOrder ==
  config.useCt =>
    \A i \in 1 .. Len(accepted) :
      /\ accepted[i].number = i - 1
      /\ \A j \in 1 .. i - 1 : accepted[j].packed < accepted[i].packed

\* The loop ends by itself only when the limit is reached exactly, or when the
\* source gave out and everything read has been packed.
EndsComplete ==
  /\ config.nEvents # 0 => sendCount <= config.nEvents
  /\ done /\ pc \in {"return", "join", "end"} =>
       AtLimit \/ (FlattenSeq(packed) = read /\ (config.ring \/ Len(read) = length))

\* A buffer queued for sending is in one place only, and the pool is there to
\* take it back for as long as a callback may come: through the return of the
\* loop, exceptions and SIGINT.
Active   == {t \in SendThreads : sending[t] # <<>>}
Queued   == {sendQueue[i].block : i \in 1 .. Len(sendQueue)}
OnTheWay == Queued \cup {sending[t][1].block : t \in Active}
CallbackFindsBuffer ==
  /\ Active # {} => open
  /\ open =>
       /\ OnTheWay \subseteq inUse \ {buffer}
       /\ \A i, j \in 1 .. Len(sendQueue) :
            i # j => sendQueue[i].block # sendQueue[j].block
       /\ \A t \in Active : /\ sending[t][1].block \notin Queued
                            /\ \A u \in Active \ {t} :
                                 sending[t][1].block # sending[u][1].block

\* An option that is for the other program is refused, but for --srcid.
OptionsMatchProgram ==
  [][ /\ pc' = "version"  => given \cap ReceiverOptions = {}
      /\ pc' = "receiver" => given \cap SenderOptions \subseteq {"srcid"} ]_pc

\* However the program ends, it has asked for its senders to be removed from
\* the load balancer; but when it ends between adding them and having a
\* Segmenter.
SendersRemoved ==
  Ended /\ senders = "added" => pc \in {"segmenter", "failed"}

-----------------------------------------------------------------------------
\* Under FairSpec, a signal ends the program although the thread it interrupts
\* may hold the lock of the pool.
InterruptExits == handler # "none" ~> Ended

\* Under FairSpec, the loop that reads a file ends by itself when the file does,
\* whatever is pending and whichever sends fail, but for two cases it never
\* leaves: the file is at its end and no send has succeeded, so that "no item"
\* does not count, or an item larger than the buffer is pending.  In these it goes
\* round until there is no memory left.
NoneAccepted == Len(read) = length /\ pendingItem = <<>> /\ totalBytes = 0
TooLarge     == pendingItem # <<>> /\ pendingItem[1].kind.size > BufSize
LoopEnds ==
  (pc = "top" /\ ~config.ring)
    ~> (done \/ handler # "none" \/ (pc = "top" /\ (NoneAccepted \/ TooLarge)))

-----------------------------------------------------------------------------
(* Stated by the repository, and not what the code does.                   *)

\* "Full buffers are then added to the Segmenter send queue and free'd back to
\* the pool" (Sender.cpp:297-298): a buffer that was packed has a way back.
BuffersReturned ==
  open => {b \in inUse : memory[b] # <<>>} \subseteq OnTheWay \cup {buffer}
=============================================================================
