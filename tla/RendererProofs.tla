--------------------------- MODULE RendererProofs ---------------------------
(***************************************************************************)
(* Facts about the renderer that the proofs of the modules built on it     *)
(* share.                                                                  *)
(***************************************************************************)
EXTENDS Renderer, TLAPS

(***************************************************************************)
(* Recording over pending submissions leaves a queue of as many            *)
(* submissions with the same points, each writing its old or the new image.*)
(***************************************************************************)
LEMMA RerecordedJobs ==
    ASSUME RendererTypeOK, NEW image \in Image, NEW g \in Rerecorded(image)
    PROVE  /\ g \in Seq(Job)
           /\ DOMAIN g = DOMAIN gpu
           /\ \A i \in DOMAIN gpu : /\ g[i].point = gpu[i].point
                                  /\ g[i].image \in {image, gpu[i].image}
<1>1. PICK k \in 0..Len(gpu) :
         g = [i \in DOMAIN gpu |->
                IF i > k THEN [gpu[i] EXCEPT !.image = image] ELSE gpu[i]]
  BY DEF Rerecorded
<1>2. gpu \in Seq(Job) /\ DOMAIN gpu = 1..Len(gpu) /\ Len(gpu) \in Nat
  BY DEF RendererTypeOK
<1>3. \A i \in DOMAIN gpu : gpu[i] \in Job
  BY <1>2
<1>4. \A i \in DOMAIN gpu :
         /\ g[i] \in Job
         /\ g[i].point = gpu[i].point
         /\ g[i].image \in {image, gpu[i].image}
  BY <1>1, <1>3 DEF Job
<1>5. DOMAIN g = 1..Len(gpu)
  BY <1>1, <1>2
<1>6. g \in [1..Len(gpu) -> Job]
  BY <1>1, <1>4, <1>5, <1>2
<1>7. g \in Seq(Job)
  BY <1>2, <1>6
<1> QED
  BY <1>4, <1>5, <1>7, <1>2
=============================================================================
