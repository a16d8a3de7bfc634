--------------------------- MODULE MCDefragmenter ---------------------------
(***************************************************************************)
(* Instances of Defragmenter for TLC.                                      *)
(***************************************************************************)
EXTENDS Defragmenter

CONSTANTS d1, d2, d3, l1, l2, h1, h2

\* d1 and d2 use one Id one after the other; the first piece of d2 is as long
\* as the first two of d1.  d3 is another host's and is not cut.
Cuts == [d \in {d1, d2, d3} |-> CASE d = d1 -> <<0, 1, 3, 5>>
                                  [] d = d2 -> <<0, 3, 4>>
                                  [] OTHER  -> <<0>>]

Flows == [d \in {d1, d2, d3} |-> IF d = d3 THEN l2 ELSE l1]

Keys == [d \in {d1, d2, d3} |-> IF d = d3 THEN h2 ELSE h1]

=============================================================================
