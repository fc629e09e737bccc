-------------------------- MODULE MCWorkerAdapters -------------------------
EXTENDS WorkerAdapters

CONSTANTS c0, c1, c2, c3

(* Two or three controls below the root, beside each other or nested.      *)
Nested(a, b) ==
    [c \in Controls |-> IF c = c0 THEN a ELSE IF c = c1 THEN b ELSE <<>>]

MCTrees == {Nested(<<c1, c2>>, <<>>), Nested(<<c1>>, <<c2>>),
            Nested(<<c1, c2, c3>>, <<>>), Nested(<<c1>>, <<c2, c3>>)}

(* A secret at the cut, and one that is part of another.                   *)
MCPages == {<<"x", "k", "e">>, <<"k", "e", "e">>}
MCSecrets == {<<"k", "e">>, <<"e">>}
MCNewSecrets == {<<"n">>}
=============================================================================
