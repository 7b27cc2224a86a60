--------------------------- MODULE MCCkfConsumer ---------------------------
(* Two lanes of two buckets.  The images are those of producers that stored  *)
(* h1 only, h1 then h2 (which finds its primary bucket full and goes to the  *)
(* other), and h3 only.                                                      *)
EXTENDS CkfConsumer

CONSTANTS h1, h2, h3, f1, f2

MCProbe ==
    [h \in {h1, h2, h3} |->
        CASE h = h1 -> [fp |-> f1, bucket |-> 0]
          [] h = h2 -> [fp |-> f2, bucket |-> 0]
          [] h = h3 -> [fp |-> f2, bucket |-> 1]]

MCAlt == [i \in {0, 1} |-> [f \in {f1, f2} |-> 1 - i]]

MCImages ==
    { Put(EmptyLane, 0, f1),
      Put(Put(EmptyLane, 0, f1), 1, f2),
      Put(EmptyLane, 1, f2) }

MCQueries == { <<h1, h3>>, <<h2>> }
=============================================================================
