----------------------------- MODULE MCPayment ------------------------------
(***************************************************************************)
(* Small instances of Payment for TLC.                                     *)
(***************************************************************************)
EXTENDS Payment, TLC

PaymentSymmetry ==
  Permutations(Calls) \cup Permutations(Keys) \cup Permutations(Bookings)
    \cup Permutations(Hooks)

=============================================================================
