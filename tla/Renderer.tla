------------------------------ MODULE Renderer ------------------------------
(***************************************************************************)
(* Vulkan (src/renderer/vulkan.rs): the two DMA-BUF images, the one        *)
(* command buffer and fence all frames share, and the GPU queue they are   *)
(* submitted to.  The pixel format is fixed before the loop starts and is  *)
(* left out.                                                               *)
(***************************************************************************)
EXTENDS Frames

VARIABLES
    extent,     \* size of the images, None before the first draw
    buffers,    \* per slot, the image created for it
    frame,      \* whether the command buffer and fence have been created
    gpu,        \* submissions the GPU has not completed, oldest first
    made        \* number of images created so far

rendererVars == <<extent, buffers, frame, gpu, made>>

(***************************************************************************)
(* A submission: the image it writes, and the timeline point its           *)
(* completion fence is meant for.                                          *)
(***************************************************************************)
Job == [image : Image, point : Nat]

RendererTypeOK ==
    /\ extent \in Option(Sizes)
    /\ buffers \in [Slot -> Option(Image)]
    /\ frame \in BOOLEAN
    /\ gpu \in Seq(Job)
    /\ made \in Nat

NoBuffers == [s \in Slot |-> None]

RendererInit ==
    /\ extent = None
    /\ buffers = NoBuffers
    /\ frame = FALSE
    /\ gpu = <<>>
    /\ made = 0

-----------------------------------------------------------------------------
ResizeWithoutWait(size) ==              \* mutant: no device_wait_idle
    /\ extent # size
    /\ buffers' = NoBuffers
    /\ extent' = size
    /\ UNCHANGED <<frame, gpu, made>>

ResizeKeepsImages(size) ==              \* mutant: the images are not dropped
    /\ extent # size
    /\ gpu = <<>>
    /\ extent' = size
    /\ UNCHANGED <<buffers, frame, gpu, made>>

(***************************************************************************)
(* draw, step 1: on a new size wait until the GPU is idle, then drop both  *)
(* images.                                                                 *)
(***************************************************************************)
Resize(size) ==
    /\ extent # size
    /\ gpu = <<>>
    /\ buffers' = NoBuffers
    /\ extent' = size
    /\ UNCHANGED <<frame, gpu, made>>

(***************************************************************************)
(* draw, step 2: create_buffer, which also makes the command buffer and    *)
(* fence the first time round.                                             *)
(***************************************************************************)
CreateBuffer(slot, size) ==
    /\ extent = size
    /\ buffers[slot] = None
    /\ buffers' = [buffers EXCEPT ![slot] = [id |-> made + 1, size |-> size]]
    /\ extent' = size
    /\ frame' = TRUE
    /\ made' = made + 1
    /\ UNCHANGED gpu

ReuseBuffer(slot, size) ==
    /\ extent = size
    /\ buffers[slot] # None
    /\ UNCHANGED rendererVars

(***************************************************************************)
(* create_buffer returns an error; the slot stays empty.                   *)
(***************************************************************************)
CreateBufferFails(slot, size) ==
    /\ extent = size
    /\ buffers[slot] = None
    /\ UNCHANGED rendererVars

(***************************************************************************)
(* Beginning the command buffer while submissions of it are pending is     *)
(* undefined.  The outcomes kept here: the GPU has fetched the first k of  *)
(* them as they were recorded and finds the new recording in the others.   *)
(***************************************************************************)
Rerecorded(image) ==
    {[i \in DOMAIN gpu |->
         IF i > k THEN [gpu[i] EXCEPT !.image = image] ELSE gpu[i]] :
       k \in 0..Len(gpu)}

(***************************************************************************)
(* draw, step 3: begin, record, end, reset the fence and submit.  There is *)
(* no wait for the previous submission.                                    *)
(***************************************************************************)
Submit(slot, point) ==
    /\ frame
    /\ buffers[slot] # None
    /\ \E pending \in Rerecorded(buffers[slot]) :
          gpu' = Append(pending, [image |-> buffers[slot], point |-> point])
    /\ UNCHANGED <<extent, buffers, frame, made>>

(***************************************************************************)
(* One of those calls fails: nothing is submitted, but the command buffer  *)
(* may have been recorded over.                                            *)
(***************************************************************************)
SubmitFails(slot) ==
    /\ frame
    /\ buffers[slot] # None
    /\ gpu' \in Rerecorded(buffers[slot])
    /\ UNCHANGED <<extent, buffers, frame, made>>

(***************************************************************************)
(* The GPU completes its oldest submission and signals its fence.          *)
(***************************************************************************)
GpuCompletes ==
    /\ gpu # <<>>
    /\ gpu' = Tail(gpu)
    /\ UNCHANGED <<extent, buffers, frame, made>>
=============================================================================
