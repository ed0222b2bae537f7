-------------------------------- MODULE EvbPipe -------------------------------
(***************************************************************************)
(* evbfilter with tsvalidate on its output: what the one does to the items *)
(* of the event builder, and what the other says of them.                  *)
(***************************************************************************)
EXTENDS EvbFilter, FiniteSetsExt

CONSTANTS Types, Options

ASSUME OptionsAssumption == \A o \in Options : o.skip \in Int /\ o.count \in Int

VARIABLES options, vpc, pos, skipped, remaining, prevTs, counter, nOutOfOrder

closed == fpc \in {"ended", "failed"}
V == INSTANCE TsValidate

vvars == <<options, vpc, pos, skipped, remaining, prevTs, counter, nOutOfOrder>>
vars  == <<fvars, vvars, noReader>>

Init == FInit /\ V!VInit /\ noReader = FALSE

Filter   == FNext /\ UNCHANGED <<vvars, noReader>>
Validate == V!VNext /\ UNCHANGED fvars /\ noReader' = V!Over'

\* Both are over, or it cannot be said what the filter writes.
Terminated == ((closed /\ V!Over) \/ fpc = "astray") /\ UNCHANGED vars

Next == Filter \/ Validate \/ Terminated

Spec == Init /\ [][Next]_vars /\ WF_vars(Filter) /\ WF_vars(Validate)

-----------------------------------------------------------------------------
\* The items of which at least a word of the body is there.
Arrived == IF input.items # <<>> /\ input.missing = Len(Built(Last(input.items))) - HeaderWords
           THEN Front(input.items) ELSE input.items

\* The items the filter is to write, at most --count of them.
Wanted == IF count = 0 THEN Arrived ELSE SubSeq(Arrived, 1, Min({count, Len(Arrived)}))

\* Their words; what is missing at the end of the last is padded.
WantedWords ==
  LET all == FlattenSeq([i \in DOMAIN Wanted |-> Plain(Wanted[i])])
  IN  IF Wanted = input.items
      THEN SubSeq(all, 1, Len(all) - input.missing) \o Stale(input.missing) ELSE all

\* However the output is cut up, and whatever --debug shows, what leaves the
\* filter is the fragments of the events and the other items, in their order,
\* complete and once; and all of them when --count ends it.  This is so until an
\* event comes whose outer body header is an empty one of version 11.
FragmentsIntact ==
  fpc # "astray" =>
    /\ IsPrefix(written \o buffer, WantedWords)
    /\ fpc = "ended" /\ ~noReader => written = WantedWords

\* What --exclude leaves of some items.
Kept(items) ==
  FlattenSeq([i \in DOMAIN items |->
    IF items[i].type \in options.exclude THEN <<>> ELSE <<items[i]>>])

\* What the validator has looked at when it has the summary.
Given ==
  LET kept == Kept(SubSeq(Wanted, Max({0, options.skip}) + 1, Len(Wanted)))
  IN  IF options.count < 0 THEN kept
      ELSE SubSeq(kept, 1, Min({Len(kept), Max({1, options.count})}))

Times(items) ==
  FlattenSeq([i \in DOMAIN items |->
    IF items[i].type = "event" THEN <<items[i].time>> ELSE <<>>])

\* The events that do not come after the one before them.
Disorders(times) == {i \in DOMAIN times : i > 1 /\ times[i] <= times[i - 1]}

LastRun(items) ==
  LET begins == {i \in DOMAIN items : items[i].type = "begin"}
  IN  SubSeq(items, Max(begins \cup {0}) + 1, Len(items))

\* The summary is right about the events that went into the filter, up to the
\* limits asked for: those out of order over the ends of runs, and the number of
\* events of the last run.
SummaryRight ==
  vpc = "done" => /\ nOutOfOrder = Cardinality(Disorders(Times(Given)))
                  /\ counter = Len(Times(LastRun(Given)))

\* A filter with a limit comes to its end, also when the input is shorter, and
\* then so does what reads it; but where version 11 leads the filter astray.
CountedEnds == count # 0 ~> ((closed /\ V!Over) \/ fpc = "astray")
===============================================================================
