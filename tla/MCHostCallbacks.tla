---- MODULE MCHostCallbacks ----
\* Two documents and an install of two names.
EXTENDS HostCallbacks

CONSTANTS a, b

\* <a> text <b>..</b> <a>long</a> text <b/> </a>, and one element only.
Doc1 == [up  |-> <<0, 1, 2, 2, 2, 2, 2, 4, 5>>,
         tag |-> <<Text, a, Text, b, a, Text, b, Text, Text>>,
         len |-> <<0, 0, 3, 0, 0, 1, 0, 2, 5>>]
Doc2 == [up |-> <<0, 1>>, tag |-> <<Text, a>>, len |-> <<0, 0>>]
Doc3 == [up  |-> <<0, 1, 2, 3, 3, 2, 6>>,
         tag |-> <<Text, a, b, a, a, b, Text>>,
         len |-> <<0, 0, 0, 0, 0, 0, 4>>]
MCDocuments == {Doc1, Doc2, Doc3}

MCNames == {1, 2}
Layer(x, y) == <<x, y>>
MCInstalls ==
    {[mod |-> m, bts |-> t, warlords |-> w, base |-> <<Doc2, Absent>>] :
        m \in {<<Doc1, Absent>>, <<Absent, Malformed>>, <<Doc2, Doc3>>},
        t \in {<<Absent, Absent>>, <<Doc3, Absent>>, <<Malformed, Doc1>>},
        w \in {<<Absent, Absent>>, <<Doc3, Doc2>>}}
MCPaths == {<<a>>, <<a, b>>, <<a, b, a>>}
====
