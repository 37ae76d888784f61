----------------------------- MODULE MCRequests -----------------------------
(* Forms of every shape for up to three items, names that collide if any do, *)
(* and as many questions as those names allow.                               *)
EXTENDS Requests

One == [f \in Fields |-> 1]

Shapes == {v \in [Fields -> 0..3] : \A f \in {"version", "access_level"} : v[f] \in {0, 2}}

Names == SeqOf({"a", ":", "_"}, 2) \cup {<<"a", "_", "a">>, <<"[">>, <<"*">>, <<"a", "*">>,
                                         <<"?">>, <<"a", "?">>, <<"\\">>}

DefaultName == <<"default">>

Request(op, system, name, item, values) ==
    [op |-> op, system |-> system, name |-> name, item |-> item, values |-> values]

AllRequests ==
    {Request(op, <<>>, <<"a">>, <<>>, v) : op \in Uploads, v \in Shapes}
    \cup {Request(op, s, c, <<>>, One) :
             op \in {"text", "search"}, s \in Names \cup {DefaultName}, c \in Names \ {<<>>}}
    \cup {Request("service", <<>>, c, v, One) :
             c \in Names \ {<<>>}, v \in Names \cup {All}}
    \cup {Request("related", s, c, i, One) :
             s \in {<<>>, <<"a">>, <<"b">>}, c \in {<<"a">>, <<"b">>}, i \in Names \ {<<>>}}
=============================================================================
