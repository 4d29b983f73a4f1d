------------------------------- MODULE Frames -------------------------------
(***************************************************************************)
(* The values the parts of wayvek hand to one another (src/lib.rs): buffer *)
(* slots, frame sizes, the exported images and the timeline points that    *)
(* accompany them.                                                         *)
(*                                                                         *)
(* None stands for Option::None everywhere, for the zero extent the        *)
(* renderer starts with (vk::Extent2D::default()) and, in a toplevel       *)
(* configure event, for a size with a zero dimension.                      *)
(***************************************************************************)
EXTENDS Integers, Sequences

CONSTANTS
    None,           \* the absent value
    Sizes,          \* the sizes a window may take, a set of opaque values
    DefaultSize     \* the size WaylandState starts with (800 x 600)

ASSUME SizesAssumption == DefaultSize \in Sizes /\ None \notin Sizes

(***************************************************************************)
(* The two buffer slots: release_points, presented and buffers are arrays  *)
(* of length two.                                                          *)
(***************************************************************************)
Slot == 0..1

(***************************************************************************)
(* A DMA-BUF: the Vulkan image of a slot, its metadata reduced to its      *)
(* size.  The id tells apart the images that succeed each other in a slot. *)
(***************************************************************************)
Image == [id : Nat, size : Sizes]

ASSUME NoneAssumption == None \notin Nat /\ None \notin Image

Option(S) == S \cup {None}

(***************************************************************************)
(* The elements of a sequence, as a set.                                   *)
(***************************************************************************)
Elements(s) == {s[i] : i \in DOMAIN s}
=============================================================================
