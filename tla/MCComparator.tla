---------------------------- MODULE MCComparator ----------------------------
EXTENDS Comparator
\* one of the readers may meet a directory that it cannot read
MCVisits == {<<"a">>, <<"b">>, <<"a", "fails">>}
=============================================================================
