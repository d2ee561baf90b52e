--------------------------- MODULE MCAutoSchedule ---------------------------
(***************************************************************************)
(* Two batch groups: g with a header and a member, h with one batch, and   *)
(* two places that overlap on one machine; h is late in the second.        *)
(***************************************************************************)
EXTENDS AutoSchedule

MCBatch   == 1 .. 3
MCGroupOf == <<"g", "g", "h">>
MCHeaders == {1}
MCDueOf   == <<9, 9, 2>>

At(e, s, f) == [equipment |-> e, start |-> s, end |-> f]
MCPlaces    == {At("e1", 0, 2), At("e1", 1, 3)}

=============================================================================
