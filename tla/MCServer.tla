------------------------------ MODULE MCServer ------------------------------
\* Instances of Server for TLC.
EXTENDS Server, TLC

CONSTANTS c1, c2

\* One client with requests of most kinds, and one whose only reply the network
\* does not take.
Mixed == {"AUTH", "CMD", "PANIC", "HUGE", "GARBAGE"}
ServedMixed == c1 :> Mixed @@ c2 :> {"PING"}
TwoAndOne == c1 :> 2 @@ c2 :> 1
StuckSecond == c1 :> 1 @@ c2 :> 0
=============================================================================
