------------------------------ MODULE MCStartup -----------------------------
(***************************************************************************)
(* Instance of Startup for TLC.  Formats f1 and f2 can be rendered to,     *)
(* f3 is a known one that cannot, f4 an unknown code.                      *)
(***************************************************************************)
EXTENDS StartupInvariant

CONSTANTS dev, f1, f2, f3, f4, lin, t1, t2, inv

MCFourccs == {f1, f2, f3, f4}
MCKnown == {f1, f2, f3}
MCModifiers == {lin, t1, t2, inv}
MCVk == {f1, f2}

MCCapabilities ==
    {[f \in MCVk |-> IF f = f1 THEN A ELSE B] :
        A \in SUBSET {lin, t1, t2}, B \in {{}, {lin}, {t1}}}

Row(f, m) == [format |-> f, modifier |-> m]

MCTable == <<Row(f1, lin), Row(f2, t1), Row(f1, t1), Row(f1, t2), Row(f2, inv),
             Row(f4, t1), Row(f3, t1), Row(f2, lin)>>

Tranches ==
    { <<>>,
      << <<0, 1>>, <<2, 0>> >>,         \* f1 linear before f2 tiled, repeats
      << <<1, 3>>, <<2, 1, 3>> >>,      \* repeats in another order
      << <<0, 7>>, <<8, 4>> >>,         \* linear and implicit only, past the end
      << <<5, 6>>, <<0>> >> }           \* unknown code, format without image

MCFeedbacks == {[device |-> dev, table |-> MCTable, tranches |-> t] :
                   t \in Tranches}
=============================================================================
