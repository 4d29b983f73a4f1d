---------------------------- MODULE Negotiation -----------------------------
(***************************************************************************)
(* negotiate (src/lib.rs) and the two ends it joins: the formats the       *)
(* compositor advertises and the modifiers the Vulkan device supports      *)
(* (src/renderer/vulkan.rs).                                               *)
(***************************************************************************)
EXTENDS Feedback

CONSTANTS
    VkFourccs,      \* fourccs that drm_fourcc_to_vk maps to a Vulkan format
    Linear,         \* modifier 0
    Invalid,        \* DRM_FORMAT_MODIFIER_INVALID, "implicit modifier"
    Capabilities    \* the modifiers a device may support, per fourcc

(***************************************************************************)
(* A Vulkan device only lists explicit modifiers, never Invalid.           *)
(***************************************************************************)
ASSUME NegotiationAssumption ==
    /\ VkFourccs \subseteq KnownFourccs
    /\ {Linear, Invalid} \subseteq Modifiers
    /\ Capabilities \subseteq [VkFourccs -> SUBSET (Modifiers \ {Invalid})]
    /\ None \notin Entry \cup Capabilities

VARIABLES
    device_mods,    \* per format, what the device reports; None without device
    buffer_fmt      \* the pair set_buffer_format was given

negotiationVars == <<device_mods, buffer_fmt>>

NegotiationTypeOK ==
    /\ device_mods \in Capabilities \cup {None}
    /\ buffer_fmt \in Entry \cup {None}

NegotiationInit ==
    /\ device_mods = None
    /\ buffer_fmt = None

-----------------------------------------------------------------------------
(***************************************************************************)
(* drm_fourcc_to_vk gives something other than UNDEFINED.                  *)
(***************************************************************************)
HasVkFormat(fourcc) == fourcc \in VkFourccs

(***************************************************************************)
(* vulkan_modifiers: what the device reports.                              *)
(***************************************************************************)
VulkanModifiers(fourcc) == device_mods[fourcc]

(***************************************************************************)
(* get_supported_modifiers: nothing for a fourcc without a Vulkan format.  *)
(***************************************************************************)
SupportedModifiers(fourcc) ==
    IF HasVkFormat(fourcc) THEN VulkanModifiers(fourcc) ELSE {}

(***************************************************************************)
(* The places of a list of formats, in the order of negotiate's two nested *)
(* loops: <<format, modifier>> by position.                                *)
(***************************************************************************)
Places(advertised) ==
    UNION {{k} \X DOMAIN advertised[k].modifiers : k \in DOMAIN advertised}

NotAfter(p, q) == p[1] < q[1] \/ (p[1] = q[1] /\ p[2] <= q[2])

First(places) == CHOOSE p \in places : \A q \in places : NotAfter(p, q)

PairAt(advertised, p) ==
    [format   |-> advertised[p[1]].code,
     modifier |-> advertised[p[1]].modifiers[p[2]]]

Supported(pair) == pair.modifier \in SupportedModifiers(pair.format)

Tiled(pair) == pair.modifier \notin {Linear, Invalid}

NegotiateFirst(advertised) ==           \* mutant: without the first pass
    LET common == {p \in Places(advertised) : Supported(PairAt(advertised, p))}
    IN  IF common = {} THEN None ELSE PairAt(advertised, First(common))

(***************************************************************************)
(* negotiate: the first common pair that is tiled; if there is none, the   *)
(* first common pair; if there is none, an error (None).                   *)
(***************************************************************************)
Negotiate(advertised) ==
    LET common == {p \in Places(advertised) : Supported(PairAt(advertised, p))}
        tiled  == {p \in common : Tiled(PairAt(advertised, p))}
    IN  IF tiled # {} THEN PairAt(advertised, First(tiled))
        ELSE IF common # {} THEN PairAt(advertised, First(common))
        ELSE None

(***************************************************************************)
(* set_buffer_format keeps the old value for an unknown fourcc.            *)
(***************************************************************************)
SetBufferFormat(pair) ==
    /\ buffer_fmt' = IF pair.format \in KnownFourccs THEN pair ELSE buffer_fmt
    /\ UNCHANGED device_mods
=============================================================================
