------------------------------- MODULE EvbFilter ------------------------------
(***************************************************************************)
(* utils/evbfilter/evbfilter.cpp: reads built events from a pipe, and      *)
(* writes the fragment in each, through an output buffer, to another.      *)
(***************************************************************************)
EXTENDS RingItems

CONSTANTS Items,  \* what the event builder writes
          Inputs, \* what can be on standard input: items, and their words up to its end
          Counts  \* values of --count; 0: no limit

\* The body header of an event is full or an empty one; what the readout wrote of
\* it has at least four words.
ASSUME ItemAssumption ==
  \A e \in Items :
    IF e.type = "event"
    THEN /\ {e.outer, e.inner} \subseteq {0, 1, BodyHeaderWords}
         /\ e.time \in Nat \ {0} /\ e.body \in Nat /\ 1 + e.body >= BodyHeaderWords
    ELSE e.body \in Nat \ {0}

\* How many words may be missing where the input ends: some of the readout's, or
\* all but the header of the item.
Losses(items) ==
  IF items = <<>> THEN {0}
  ELSE (0 .. Last(items).body) \cup {Len(Built(Last(items))) - HeaderWords}

Stream(items, missing) ==
  LET all == FlattenSeq([i \in DOMAIN items |-> Built(items[i])])
  IN  [items |-> items, missing |-> missing, words |-> SubSeq(all, 1, Len(all) - missing)]

ASSUME InputAssumption ==
  \A in \in Inputs : /\ in.items \in Seq(Items)
                     /\ in.missing \in Losses(in.items)
                     /\ in = Stream(in.items, in.missing)

ASSUME CountAssumption == Counts \subseteq Nat

VARIABLES
  input, count, debug, \* standard input and the options
  fpc,      \* where filterItem() or main() is
  taken,    \* words read from input
  hdr,      \* the header of the current item
  p,        \* what p points to: the rest of its body
  ct,       \* items counted; not kept without --count, where nothing reads it
  buffer,   \* words the outputter has not written yet
  written,  \* words on standard output
  noReader  \* the reader of standard output is gone

fvars == <<input, count, debug, fpc, taken, hdr, p, ct, buffer, written>>

FInit ==
  /\ input \in Inputs /\ count \in Counts /\ debug \in BOOLEAN
  /\ fpc = "header"
  /\ taken = 0 /\ ct = 0
  /\ hdr = <<>> /\ p = <<>> /\ buffer = <<>> /\ written = <<>>

\* readData(n): fewer words than asked for only at the end of the input.
Read(n) == SubSeq(input.words, taken + 1, Min({taken + n, Len(input.words)}))

ReadHeader ==
  /\ fpc = "header"
  /\ Read(HeaderWords) # <<>>
  /\ hdr' = Read(HeaderWords)
  /\ taken' = taken + HeaderWords
  /\ fpc' = "data"
  /\ UNCHANGED <<input, count, debug, p, ct, buffer, written>>

\* filterItem() returns 1, and main() does not look at it.
NothingRead ==
  /\ fpc \in {"header", "data"}
  /\ taken = Len(input.words)
  /\ fpc' = "count"
  /\ UNCHANGED <<input, count, debug, taken, hdr, p, ct, buffer, written>>

\* What a body that ends early leaves of an earlier one, or of malloc().
Stale(n) == [i \in 1 .. n |-> <<"stale", 0>>]

ReadData ==
  /\ fpc = "data"
  /\ Read(1) # <<>>
  /\ LET size == hdr[1][2] - HeaderWords
     IN  /\ taken' = taken + Len(Read(size))
         /\ p' = Read(size) \o Stale(size - Len(Read(size)))
  /\ fpc' = IF hdr[2][2] = "event" THEN "skip" ELSE "item header"
  /\ UNCHANGED <<input, count, debug, hdr, ct, buffer, written>>

\* Mutant: an empty body header is taken for no header at all.
SkipFull ==
  /\ fpc = "skip"
  /\ p[1][2] # 0
  /\ p' = Tail(SubSeq(p, 1 + FragmentWords + (p[1][2] \div BodyHeaderWords) * BodyHeaderWords,
                      Len(p)))
  /\ fpc' = "fragment header"
  /\ UNCHANGED <<input, count, debug, taken, hdr, ct, buffer, written>>

\* Body header, event size and fragment header.
Skip ==
  /\ fpc = "skip"
  /\ p[1][2] # 0
  /\ p' = SubSeq(p, 1 + p[1][2] + 1 + FragmentWords, Len(p))
  /\ fpc' = "fragment header"
  /\ UNCHANGED <<input, count, debug, taken, hdr, ct, buffer, written>>

\* A size of 0, version 11, does not count its own word: the fragment is looked
\* for a word too early.  What is written from then on depends on the data (bound:
\* the model of the filter ends here).
SkipShort ==
  /\ fpc = "skip"
  /\ p[1][2] = 0
  /\ fpc' = "astray"
  /\ UNCHANGED <<input, count, debug, taken, hdr, p, ct, buffer, written>>

-----------------------------------------------------------------------------
(* The output.  When CBufferedOutput writes depends on its size and on its *)
(* timer: here at the end of any put() (bound: not in the middle of one).  *)

Put(words) ==
  \/ /\ buffer' = buffer \o words
     /\ UNCHANGED written
  \/ /\ ~noReader
     /\ written' = written \o buffer \o words
     /\ buffer' = <<>>

\* main() catches the error number.
PutFails ==
  /\ fpc \in {"item header", "fragment header", "body header", "rest"}
  /\ noReader
  /\ fpc' = "failed"
  /\ UNCHANGED <<input, count, debug, taken, hdr, p, ct, buffer, written>>

PutItemHeader ==
  /\ fpc = "item header"
  /\ Put(hdr)
  /\ fpc' = "rest"
  /\ UNCHANGED <<input, count, debug, taken, hdr, p, ct>>

PutFragmentHeader ==
  /\ fpc = "fragment header"
  /\ Put(SubSeq(p, 1, HeaderWords))
  /\ p' = SubSeq(p, HeaderWords + 1, Len(p))
  /\ fpc' = "body header"
  /\ UNCHANGED <<input, count, debug, taken, hdr, ct>>

\* With --debug the size is not compared but assigned.
PutBodyHeader ==
  /\ fpc = "body header"
  /\ LET size == IF debug THEN BodyHeaderWords ELSE p[1][2]
     IN  /\ Put(SubSeq(p, 1, size))
         /\ p' = SubSeq(p, size + 1, Len(p))
  /\ fpc' = "rest"
  /\ UNCHANGED <<input, count, debug, taken, hdr, ct>>

PutRest ==
  /\ fpc = "rest"
  /\ Put(p)
  /\ fpc' = "count"
  /\ UNCHANGED <<input, count, debug, taken, hdr, p, ct>>

-----------------------------------------------------------------------------
\* Mutant: a call of filterItem() at the end of the input does not count.
CountRead ==
  /\ fpc = "count"
  /\ count = 0 \/ ct + 1 < count
  /\ ct' = IF count = 0 \/ taken = Len(input.words) THEN ct ELSE ct + 1
  /\ fpc' = "header"
  /\ UNCHANGED <<input, count, debug, taken, hdr, p, buffer, written>>

Count ==
  /\ fpc = "count"
  /\ count = 0 \/ ct + 1 < count
  /\ ct' = IF count = 0 THEN 0 ELSE ct + 1
  /\ fpc' = "header"
  /\ UNCHANGED <<input, count, debug, taken, hdr, p, buffer, written>>

\* The static outputter is destroyed at exit, and writes what it has.
CountReached ==
  /\ fpc = "count"
  /\ ct + 1 = count
  /\ ct' = count
  /\ fpc' = "ended"
  /\ written' = IF noReader THEN written ELSE written \o buffer
  /\ buffer' = <<>>
  /\ UNCHANGED <<input, count, debug, taken, hdr, p>>

FilterItem ==
  \/ ReadHeader \/ NothingRead \/ ReadData \/ Skip \/ SkipShort
  \/ PutItemHeader \/ PutFragmentHeader \/ PutBodyHeader \/ PutRest \/ PutFails

FNext == FilterItem \/ Count \/ CountReached
===============================================================================
