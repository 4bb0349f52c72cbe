--------------------------- MODULE MCPersistence ---------------------------
\* Instances of Persistence for TLC.
EXTENDS Persistence, TLC

CONSTANTS k1, k2, k3, f1, f2, f3, a, b, c, d

OneKey == {k1}
ThreeKeys == {k1, k2, k3}
ThreeFields == {f1, f2, f3}
FourTexts == {a, b, c, d}

UnitLength == [x \in Keys \cup Fields \cup Texts |-> 1]

\* What clients send.
Sets(keys, vals, ttls) == [op : {"SET"}, key : keys, val : vals, ttl : ttls]
Expires == [op : {"EXPIRE"}, key : {k1}, ttl : {0, 2}]
Adds(deltas) == [op : {"INCRBY"}, key : {k1}, delta : deltas]
Removes(keys) == [op : {"DEL"}, keys : {{k} : k \in keys}] \cup {[op |-> "FLUSHALL"]}
Pushes == [op : {"LPUSH", "RPUSH"}, key : {k1}, vals : {<<a, b, b>>}]
Hashes == {[op |-> "HSET", key |-> k1, pairs |-> <<<<f2, a>>, <<f1, b>>, <<f3, b>>>>],
           [op |-> "HDEL", key |-> k1, fields |-> {f1, f2, f3}]}

Everything ==
  Sets({k1}, {a, 7}, {0}) \cup Adds({-8}) \cup Removes({k1}) \cup Pushes \cup Hashes
WithTTLs == Sets({k2, k3}, {c, d}, {0, 2}) \cup Removes({k2, k3})
WithExpire == Sets({k1}, {a}, {0, 1}) \cup Expires \cup Removes({k1})

\* All types without TTLs, in no time; and strings with TTLs.
TypesAndTTLs == {[commands |-> Everything, until |-> 1], [commands |-> WithTTLs, until |-> 5]}
Extensions == {[commands |-> WithExpire, until |-> 5]}

\* Names that only the second workload uses, in the same way.
Symmetric == Permutations({k2, k3}) \cup Permutations({c, d})
=============================================================================
