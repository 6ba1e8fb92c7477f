----------------------------- MODULE MCCircuit -----------------------------
(* Short netlists over a few lines of each kind.                           *)
EXTENDS Circuit, TLC

L(kind, words) == [kind |-> kind, words |-> words]

MCWords == {"T", "r1", "c1", "1", "2", "5", "x", "tran", "step", "stop", "uic",
            "print", "alter", "m"}

Titles == {L("plain", <<"T">>), L("blank", <<>>)}

Body == {L("plain", <<"r1", "1", "2", "5">>), L("plain", <<"r1", "2", "x", "5">>),
         L("plain", <<"c1", "1", "2", "5", "x">>), L("plain", <<"r1", "1", "x">>),
         L("plus", <<"x">>), L("blank", <<>>), L("comment", <<"x">>),
         L("model", <<"m">>), L("control", <<>>), L("endc", <<>>), L("dot", <<>>),
         L("plain", <<"tran", "1", "2", "uic">>), L("plain", <<"print", "x">>)}

BodyOf(n) == UNION {[1..m -> Body] : m \in 0..n}
Short     == {<<t>> \o b : t \in Titles, b \in BodyOf(3)} \cup {<<>>}

Around == {L("plain", <<"r1", "1", "2", "5">>), L("plain", <<"c1", "1", "2", "5", "x">>),
           L("plus", <<"x">>), L("blank", <<>>), L("dot", <<>>)}

(* Control sections with commands and elements around them.                *)
Sectioned ==
    {<<L("plain", <<"T">>), a, L("control", <<>>)>> \o b \o <<L("endc", <<>>), c>> :
        a \in Around, b \in BodyOf(2), c \in Around}

MCNetlists == Short \cup Sectioned

MCParams == {<<<<"m">>>>, <<<<"m">>, <<"x", "5">>>>}

MCExtras == {<<>>, <<L("plain", <<"alter", "c1", "5">>)>>,
             <<L("plain", <<"alter", "c1", "5">>), L("plain", <<"print", "1">>)>>}

(* These commands and values are such as the library passes.              *)
ASSUME PassedAssumption == OrderlyExtras /\ FilledParams
=============================================================================
