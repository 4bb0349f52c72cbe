------------------------------ MODULE MCStore ------------------------------
\* Instances of Store for TLC.
EXTENDS Store, TLC

CONSTANTS k1, k2, f1, f2, a

OneKey == {k1}
TwoKeys == {k1, k2}
OneField == {f1}
OneText == {a}

UnitLength == [x \in Keys \cup Fields \cup Texts |-> 1]

NoInts == {}
Seven == {7}
UpDown == {1, -1}
One == {1}
ShortTTLs == {0, 1}
NowOrLater == {0, 3}
Symmetric == Permutations(Clients) \cup Permutations(Keys)
=============================================================================
