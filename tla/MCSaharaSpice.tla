--------------------------- MODULE MCSaharaSpice ---------------------------
(* Netlists of one or two capacitors, an inductor and a source.            *)
EXTENDS SaharaSpice, TLC

L(words) == [kind |-> "plain", words |-> words]

MCWords == {"T", "circuit", "v1", "c1", "c2", "l1", "0", "1", "2", "out", "5", "NaN"}
MCCapacitors == {"c1", "c2", "circuit"}
MCInductors  == {"l1"}
MCBranches   == {"v1", "l1"}
MCParseInt   == [w \in MCWords |-> IF w \in {"0", "1", "2", "5"} THEN w ELSE "NaN"]
MCValues     == {0, 1}
MCInitials   == {2}

Title == L(<<"T">>)
V1    == L(<<"v1", "1", "0", "5">>)

(* c1 floats and stands behind an inductor; c1 is grounded, c2 upside down.*)
Floating == <<Title, V1, L(<<"l1", "2", "0", "5">>), L(<<"c1", "2", "1", "5">>)>>
Grounded == <<Title, V1, L(<<"c2", "0", "2", "5">>), L(<<"c1", "2", "0", "5">>)>>
Tidy     == {Floating, Grounded}

(* The title begins like a capacitor; a node has a name; a name is used    *)
(* twice.                                                                  *)
Titled   == <<L(<<"circuit">>), V1, L(<<"c1", "1", "0", "5">>)>>
Lettered == <<Title, V1, L(<<"c1", "out", "1", "5">>)>>
Twice    == <<Title, V1, L(<<"c1", "1", "0", "5">>), L(<<"c1", "2", "0", "5">>)>>
Wild     == {Grounded, Titled, Lettered, Twice, <<>>}

Ask(v, c)   == [volts |-> v, currents |-> c]
TidyQueries == {Ask(<<<<"2", "0">>, <<"1", "2">>>>, <<"v1">>)}
WildQueries == {Ask(<<<<"2", "0">>>>, <<>>), Ask(<<<<"1">>>>, <<"l1">>)}

(* The hypotheses of the proofs hold of the tidy ones.                     *)
ASSUME TidyAssumption ==
    \A netlist \in Tidy : /\ TidyNetlist(netlist)
                          /\ \A query \in TidyQueries : TidyQuery(query, netlist)
=============================================================================
