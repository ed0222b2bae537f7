------------------------------- MODULE RingItems ------------------------------
(***************************************************************************)
(* NSCLDAQ ring items as 32-bit words, as far as evbfilter and tsvalidate  *)
(* look into them.  A word is a pair of what it is and its value, sizes in *)
(* words.  The table of utils/evbfilter/evbfilter.cpp gives the layout.    *)
(***************************************************************************)
EXTENDS Integers, Sequences, SequencesExt

HeaderWords     == 2 \* RingItemHeader: size, type
FragmentWords   == 5 \* FragmentHeader
BodyHeaderWords == 5 \* BodyHeader; an empty one is one word: 0 (v11) or 1 (v12)

Filler(n) == [i \in 1 .. n |-> <<"data", i>>]

RingItem(type, body) ==
  <<<<"size", HeaderWords + Len(body)>>, <<"type", type>>>> \o body

BodyHeader(n, time) ==
  <<<<"header", n>>>> \o
    IF n = BodyHeaderWords THEN <<<<"time", time>>>> \o Filler(3) ELSE <<>>

\* What the first event-building stage made of an event ...
Fragment(e) ==
  RingItem("event", BodyHeader(e.inner, e.time) \o Filler(e.body))

\* ... and what the second makes of that with --nobuild: a fragment in an item.
Built(e) ==
  IF e.type = "event"
  THEN RingItem("event", BodyHeader(e.outer, e.time) \o
         <<<<"size", FragmentWords + Len(Fragment(e)) + 1>>>> \o
         Filler(FragmentWords) \o Fragment(e))
  ELSE RingItem(e.type, Filler(e.body))

\* An item as evbfilter should write it.
Plain(e) == IF e.type = "event" THEN Fragment(e) ELSE Built(e)
===============================================================================
