------------------------------ MODULE MCObjects -----------------------------
(***************************************************************************)
(* Instance of VulkanObjects for TLC: frames of two sizes.                 *)
(***************************************************************************)
EXTENDS VulkanObjects

CONSTANTS s1, s2

MCSizes == {s1, s2}

AllFaults == FaultKinds
=============================================================================
