--------------------------- MODULE MCAvailability ---------------------------
(***************************************************************************)
(* Small instances of Availability for TLC.                                *)
(***************************************************************************)
EXTENDS Availability, TLC

CONSTANTS b1, jetski

Window(b, f, t) == [resource |-> jetski, booking |-> b, from |-> f, to |-> t]

\* Two back-to-back windows, and one that overlaps both.
CalendarBodies == {Window(b1, 1, 2), Window(b1, 2, 3), Window(b1, 1, 3)}

\* One window, and one that ends when it starts.
EdgeBodies == {Window(b1, 1, 3), Window(b1, 2, 2)}

\* Two windows that do not overlap, of one booking.
NeighbourBodies == {Window(b1, 1, 2), Window(b1, 2, 3)}

CallSymmetry == Permutations(Calls)

=============================================================================
