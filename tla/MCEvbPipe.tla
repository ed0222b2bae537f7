------------------------------- MODULE MCEvbPipe ------------------------------
EXTENDS EvbPipe

Event(time, outer, inner) ==
  [type |-> "event", time |-> time, outer |-> outer, inner |-> inner, body |-> 4]
Other(type) == [type |-> type, body |-> 1]

Some    == {Event(1, 1, 5), Event(2, 5, 5), Event(1, 5, 0), Other("begin"), Other("format")}
MCItems == Some \cup {Event(2, 1, 5), Event(1, 5, 5), Event(3, 0, 5)}

\* All there is of two items, and three at a time.
Streams ==
  BoundedSeq(Some, 2) \cup
    {<<Event(2, 1, 5), Other("begin"), Event(1, 5, 5)>>,
     <<Event(1, 5, 5), Event(1, 1, 5), Event(2, 1, 5)>>,
     <<Event(2, 5, 5), Event(1, 5, 5), Other("begin")>>,
     <<Event(1, 5, 5), Event(3, 0, 5), Other("begin")>>}

\* The input ends after an item, after a header, or a word before the end.
MCInputs ==
  UNION { { Stream(s, n) :
            n \in IF s = <<>> THEN {0} ELSE {0, 1, Len(Built(Last(s))) - HeaderWords} } :
          s \in Streams }

Option(skip, n, exclude, right) ==
  [skip |-> skip, count |-> n, exclude |-> exclude, right |-> right]

MCOptions == {Option(0, -1, {}, TRUE), Option(1, -1, {"begin"}, FALSE),
              Option(0, 3, {"format"}, TRUE), Option(0, 0, {"bogus"}, TRUE)}
===============================================================================
