----------------------------- MODULE MCAofTail -----------------------------
\* Instances of AofTail for TLC.
EXTENDS AofTail

OneKey == {<<"k">>}

\* An empty value; one whose length allows a cut header to swallow the header of
\* the next entry; one that contains what looks like framing; one of two digits.
Empty == <<>>
Two == <<"v", "w">>
Framed == <<"CR", "LF", "$", "1">>
Long == [i \in 1 .. 10 |-> "x"]
AllValues == {Empty, Two, Framed, Long}
TwoValues == {Empty, Two}
=============================================================================
