---------------------------- MODULE MCFrameLoop -----------------------------
(***************************************************************************)
(* The instances TLC checks: windows of two sizes, s1 the default one; the *)
(* number of configures and the faults are chosen per run.                 *)
(***************************************************************************)
EXTENDS FrameInvariant

CONSTANTS s1, s2

MCSizes == {s1, s2}

NoFaults == {}
AllFaults == FaultKinds

(***************************************************************************)
(* A frame lost between the acquire and the import, and a buffer that the  *)
(* compositor rejects: the faults liveness has to survive.                 *)
(***************************************************************************)
FrameFaults == {"create", "buffer"}
=============================================================================
