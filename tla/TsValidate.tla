------------------------------ MODULE TsValidate ------------------------------
(***************************************************************************)
(* utils/tsvalidate/tsvalidate.cpp: reads ring items from a data source,   *)
(* here the words `written' until `closed', skips and excludes some, and   *)
(* counts the events whose timestamps are not increasing.                  *)
(***************************************************************************)
EXTENDS RingItems

CONSTANTS Types,   \* item types, which are also the names --exclude knows
          Options  \* the command lines: see VInit

VARIABLES
  options,      \* --skip, --count (-1: not given), --exclude, --format is right
  vpc,          \* where main() is
  pos,          \* words read
  skipped, remaining,
  prevTs, counter, nOutOfOrder,
  written, closed

checks == <<prevTs, counter, nOutOfOrder>>

VInit ==
  /\ options \in Options
  /\ vpc = "start"
  /\ pos = 0 /\ skipped = 0 /\ remaining = options.count
  /\ prevTs = 0 /\ counter = 0 /\ nOutOfOrder = 0

\* What main() catches: an unknown type, a source it cannot have, the wrong
\* format, an event without a timestamp.
Fail ==
  /\ vpc' = "failed"
  /\ UNCHANGED <<options, pos, skipped, remaining, checks>>

MakeExclusionList == options.exclude \subseteq Types

Start ==
  /\ vpc = "start"
  /\ MakeExclusionList
  /\ vpc' = "skip"
  /\ UNCHANGED <<options, pos, skipped, remaining, checks>>

StartFails == vpc = "start" /\ Fail

\* getItem(): an item when all of it is there, nothing at the end of the source.
Item      == SubSeq(written, pos + 1, Len(written))
HasItem   == Len(Item) >= HeaderWords /\ Len(Item) >= Item[1][2]
AtEnd     == closed /\ ~HasItem
ItemType  == Item[2][2]
Excluded  == ItemType \in options.exclude
GetItem   == HasItem /\ pos' = pos + Item[1][2]

SkipItem ==
  /\ vpc = "skip" /\ skipped < options.skip
  /\ GetItem
  /\ skipped' = skipped + 1
  /\ UNCHANGED <<options, vpc, remaining, checks>>

\* exit(EXIT_SUCCESS), without a summary.
SkipAll ==
  /\ vpc = "skip" /\ skipped < options.skip
  /\ AtEnd
  /\ vpc' = "silent"
  /\ UNCHANGED <<options, pos, skipped, remaining, checks>>

SkipDone ==
  /\ vpc = "skip" /\ skipped >= options.skip
  /\ vpc' = "check"
  /\ UNCHANGED <<options, pos, skipped, remaining, checks>>

Exclude ==
  /\ vpc = "check"
  /\ GetItem /\ Excluded
  /\ UNCHANGED <<options, vpc, skipped, remaining, checks>>

\* remaining is only looked at after an item.
ApplyLimit ==
  /\ remaining' = IF options.count < 0 THEN remaining ELSE remaining - 1
  /\ vpc' = IF options.count >= 0 /\ remaining' <= 0 THEN "done" ELSE "check"

Checked(type) ==
  /\ vpc = "check"
  /\ GetItem /\ ~Excluded /\ ItemType = type
  /\ UNCHANGED <<options, skipped>>

\* Mutant: a new run starts with no previous timestamp.
BeginRunAnew ==
  /\ Checked("begin")
  /\ ApplyLimit
  /\ counter' = 0 /\ prevTs' = 0
  /\ UNCHANGED nOutOfOrder

BeginRun ==
  /\ Checked("begin")
  /\ ApplyLimit
  /\ counter' = 0
  /\ UNCHANGED <<prevTs, nOutOfOrder>>

WrongFormat == vpc = "check" /\ HasItem /\ ~Excluded /\ ItemType = "format"
                             /\ ~options.right /\ Fail

OtherItem ==
  /\ \E t \in Types \ {"begin", "event"} :
       /\ t = "format" => options.right
       /\ Checked(t)
  /\ ApplyLimit
  /\ UNCHANGED checks

HasTime == Item[3][2] = BodyHeaderWords

PhysicsEvent ==
  /\ Checked("event") /\ HasTime
  /\ ApplyLimit
  /\ nOutOfOrder' = IF Item[4][2] <= prevTs THEN nOutOfOrder + 1 ELSE nOutOfOrder
  /\ prevTs' = Item[4][2]
  /\ counter' = counter + 1

NoTimestamp == vpc = "check" /\ HasItem /\ ~Excluded /\ ItemType = "event"
                             /\ ~HasTime /\ Fail

EndOfSource ==
  /\ vpc = "check"
  /\ AtEnd
  /\ vpc' = "done"
  /\ UNCHANGED <<options, pos, skipped, remaining, checks>>

Over == vpc \in {"done", "silent", "failed"}

VNext ==
  \/ Start \/ StartFails
  \/ SkipItem \/ SkipAll \/ SkipDone
  \/ Exclude \/ BeginRun \/ WrongFormat \/ OtherItem \/ PhysicsEvent \/ NoTimestamp
  \/ EndOfSource
===============================================================================
