---------------------------- MODULE MCScanCursor ----------------------------
\* Instances of ScanCursor for TLC.
EXTENDS ScanCursor

ThreeKeys == 1 .. 3
TwoTypes == {"string", "list"}
OneType == {"string"}
Odd == {1, 3}
Pages == {-1, 1, 2}
PagesAndHuge == Pages \cup {31}
=============================================================================
