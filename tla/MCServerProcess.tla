--------------------------- MODULE MCServerProcess ---------------------------
(* Small instances of ServerProcess: two calls that write one artifact at    *)
(* the same time, a stream and a call of one serialized tool, a longer       *)
(* stream, two loggers.                                                      *)
EXTENDS ServerProcess

CONSTANTS c1, c2, c3, l1, l2, t, t2, p

(* c1 and c2 name the serialized tool t, c3 another that is not. *)
TwoTools == [c \in Calls |-> IF c = c3 THEN t2 ELSE t]
OnePath  == [c \in Calls |-> p]
Sizes    == [l \in Lines \cup {Marker} |-> IF l = l1 THEN 3 ELSE 1]

Work(calls, heavy, routed, chunks, lines) ==
    [calls |-> calls, heavy |-> heavy, routed |-> routed, chunks |-> chunks,
     lines |-> lines]

SomeWork == {Work({c1, c3}, {}, {c1, c3}, 1, {}), Work({c1, c2}, {c1}, {}, 1, {}),
             Work({c1}, {c1}, {c1}, 2, {}), Work({}, {}, {}, 1, {l1, l2})}
=============================================================================
