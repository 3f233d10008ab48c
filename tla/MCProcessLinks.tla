---------------------------- MODULE MCProcessLinks ----------------------------
(* Links are interchangeable, so TLC may permute them. *)
EXTENDS ProcessLinks, TLC

CONSTANTS l1, l2, l3, l4, l5, l6
MCLinkPool == <<l1, l2, l3, l4, l5, l6>>
MCWaits == {"sem", "lock"}
MCQueues == ProcessQueues \cup MCWaits
MCSymmetry == Permutations({l1, l2, l3, l4, l5, l6})
=============================================================================
