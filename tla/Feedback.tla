------------------------------ MODULE Feedback ------------------------------
(***************************************************************************)
(* What WaylandState learns from linux-dmabuf feedback                     *)
(* (src/backend/wayland/mod.rs and dmabuf.rs): the main device, the format *)
(* table, and the (format, modifier) pairs the tranches pick out of that   *)
(* table by index, merged into one list of formats.                        *)
(***************************************************************************)
EXTENDS Naturals, Sequences, SequencesExt

CONSTANTS
    None,           \* Option::None
    Devices,        \* DRM devices
    Fourccs,        \* format codes a table may hold
    KnownFourccs,   \* those DrmFourcc::try_from accepts
    Modifiers       \* format modifiers

ASSUME FeedbackAssumption ==
    /\ KnownFourccs \subseteq Fourccs
    /\ None \notin Devices
    /\ None \notin Seq([format : Fourccs, modifier : Modifiers])

VARIABLES
    main_device,
    format_table,       \* the mapped table, None when there is none
    dmabuf_formats      \* the formats advertised, with their modifiers

feedbackVars == <<main_device, format_table, dmabuf_formats>>

Entry == [format : Fourccs, modifier : Modifiers]
Tables == Seq(Entry) \cup {None}
FormatLists == Seq([code : KnownFourccs, modifiers : Seq(Modifiers)])

FeedbackTypeOK ==
    /\ main_device \in Devices \cup {None}
    /\ format_table \in Tables
    /\ dmabuf_formats \in FormatLists

FeedbackInit ==
    /\ main_device = None
    /\ format_table = None
    /\ dmabuf_formats = <<>>

-----------------------------------------------------------------------------
OnMainDevice(device) ==
    /\ main_device' = device
    /\ UNCHANGED <<format_table, dmabuf_formats>>

OnFormatTable(table) ==
    /\ format_table' = table
    /\ UNCHANGED <<main_device, dmabuf_formats>>

(***************************************************************************)
(* DrmFormatTable::map returns None: mmap fails, or the size announced is  *)
(* not a whole number of entries.                                          *)
(***************************************************************************)
OnFormatTableFails == OnFormatTable(None)

UsableUnknown(table, index) ==          \* mutant: unknown formats are kept
    table # None /\ index < Len(table)

(***************************************************************************)
(* Whether an index of a tranche, which counts from 0, names an entry: not *)
(* without a table, past its end, or when the format there is unknown.     *)
(***************************************************************************)
Usable(table, index) ==
    /\ table # None
    /\ index < Len(table)
    /\ table[index + 1].format \in KnownFourccs

AddAlways(formats, entry) ==            \* mutant: modifiers are repeated
    LET at == SelectInSeq(formats, LAMBDA f : f.code = entry.format)
    IN  IF at = 0
        THEN Append(formats, [code |-> entry.format,
                              modifiers |-> <<entry.modifier>>])
        ELSE [formats EXCEPT ![at].modifiers = Append(@, entry.modifier)]

(***************************************************************************)
(* add_wayland_modifier: the modifier goes to the format that is listed    *)
(* already, once, and to a new format otherwise.                           *)
(***************************************************************************)
AddModifier(formats, entry) ==
    LET at == SelectInSeq(formats, LAMBDA f : f.code = entry.format)
    IN  IF at = 0
        THEN Append(formats, [code |-> entry.format,
                              modifiers |-> <<entry.modifier>>])
        ELSE IF Contains(formats[at].modifiers, entry.modifier) THEN formats
        ELSE [formats EXCEPT ![at].modifiers = Append(@, entry.modifier)]

(***************************************************************************)
(* The formats after a tranche: the entries its indices name, added one by *)
(* one.                                                                    *)
(***************************************************************************)
AddTranche(formats, table, indices) ==
    LET added[k \in 0..Len(indices)] ==
            IF k = 0 THEN formats
            ELSE IF Usable(table, indices[k])
            THEN AddModifier(added[k - 1], table[indices[k] + 1])
            ELSE added[k - 1]
    IN  added[Len(indices)]

OnTrancheFormats(indices) ==
    /\ dmabuf_formats' = AddTranche(dmabuf_formats, format_table, indices)
    /\ UNCHANGED <<main_device, format_table>>
=============================================================================
