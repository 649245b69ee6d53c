----------------------------- MODULE MCCapture -----------------------------
(* Capture on a small instance: two kinds of packets, of which the filter   *)
(* {"tcp"} lets one pass and which fill one file of the disk ring, or half  *)
(* of it.                                                                   *)
EXTENDS Capture, TLC

MCKinds == {"tcp", "udp"}
MCBlockBytes == [k \in MCKinds |-> IF k = "tcp" THEN 3 ELSE 1]
MCFilters == {MCKinds, {"tcp"}}
=============================================================================
