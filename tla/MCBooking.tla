----------------------------- MODULE MCBooking ------------------------------
(***************************************************************************)
(* Small instances of Booking for TLC.                                     *)
(***************************************************************************)
EXTENDS Booking, TLC

CONSTANTS jetski

\* Two windows that overlap.
RivalWindows == {[resource |-> jetski, from |-> 1, to |-> 3],
                 [resource |-> jetski, from |-> 2, to |-> 4]}

OneWindow == {[resource |-> jetski, from |-> 1, to |-> 3]}

=============================================================================
