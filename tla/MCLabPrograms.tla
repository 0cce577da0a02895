--------------------------- MODULE MCLabPrograms ---------------------------
EXTENDS LabPrograms
CONSTANTS p1, p2, p3, p4
MCProc == {p1, p2, p3, p4}
MCVisits == {<<"a">>, <<"a", "b">>, <<"a", "c">>, <<"a", "fails">>}
MCRecordFiles == {<<"x", "y", "x", "z", "y">>, <<"x", "y", "x">>, <<"x", "r">>, <<"x", "x", "x">>}
MCOperations == << << <<1, 1>>, <<2, 2>>, <<1, 4>> >>,
                   << <<2, 8>>, <<1, 16>> >>,
                   << <<1, 32>>, <<3, 64>>, <<2, 128>> >> >>
=============================================================================
