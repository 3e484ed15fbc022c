---------------------------- MODULE MCShardTable ----------------------------
(* ShardTable for TLC: keys whose probe paths overlap and wrap around.      *)
EXTENDS ShardTable

TwoKeys == {"a", "b"}
TwoHash == [k \in TwoKeys |-> 7]

SixKeys == {"a", "b", "c", "d", "e", "f"}
SixHash == [k \in SixKeys |-> CASE k = "a" -> 2 [] k = "b" -> 3 [] k = "c" -> 4
                               [] k = "d" -> 5 [] k = "e" -> 6 [] k = "f" -> 7]

\* A load of SET and DEL only, in which Temporary keys get an expiry time.
Temporary == {k \in Keys : Hash[k] = Max({Hash[j] : j \in Keys})}

Churn ==
  \/ \E k \in Temporary : Write(k, clock, 1, clock + 1, FALSE) /\ clock < MaxExp
  \/ \E k \in Keys \ Temporary : Write(k, clock, 1, 0, FALSE) \/ Delete(k, clock)
  \/ Sweep
  \/ Tick

ChurnSpec == Init /\ [][Churn]_vars /\ Fairness
=============================================================================
