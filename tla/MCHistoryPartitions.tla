------------------------ MODULE MCHistoryPartitions -------------------------
(* TLC instance of HistoryPartitions: two gateways that share a schema or     *)
(* have one each, a horizon of one month after the current one, and a second  *)
(* month, whose runs find the half of their partitions that the first month's *)
(* have made, or are still making.                                            *)
EXTENDS HistoryPartitions

MCDeployments == {[r \in {"g1", "g2"} |-> "prod"],
                  [r \in {"g1", "g2"} |-> IF r = "g1" THEN "prod" ELSE "stage"]}
=============================================================================
