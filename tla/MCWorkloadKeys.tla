--------------------------- MODULE MCWorkloadKeys ---------------------------
(* WorkloadKeys on a small instance.                                       *)
EXTENDS WorkloadKeys, TLC

CONSTANTS tools, read   \* words

Entry(r, a) == [resource |-> r, action |-> a]

(* Wildcards in either half, and an entry that holds a separator.          *)
Requests == {{Entry(<<"*">>, <<read>>), Entry(<<tools>>, <<"*">>)},
             {Entry(<<tools, read>>, <<read>>)}}

(* Goroutines, keys and workers are only compared.                         *)
Interchangeable == Permutations(Proc) \cup Permutations(Key) \cup Permutations(Worker)
=============================================================================
