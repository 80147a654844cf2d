---------------------------- MODULE MCKafkaFleet ----------------------------
(* A seed s and its child c, on another domain, that links back to it.          *)
EXTENDS KafkaFleet

MCUrls == {"s", "c"}
MCSeeds == {"s"}
MCLinks == [u \in MCUrls |-> IF u = "s" THEN {"c"} ELSE {"s"}]
MCText == [u \in MCUrls |-> {<<IF u = "s" THEN {0, 1} ELSE {2, 3}, 1>>}]
MCPartitionFor == [u \in MCUrls |-> IF u = "s" THEN "p0" ELSE "p1"]
MCHash == [u \in MCUrls |-> IF u = "s" THEN <<3, 5>> ELSE <<6, 1>>]
=============================================================================
