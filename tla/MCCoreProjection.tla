-------------------------- MODULE MCCoreProjection --------------------------
(***************************************************************************)
(* A small instance of CoreProjection.  Keys, deliveries and references    *)
(* are never compared with anything but themselves.                        *)
(***************************************************************************)
EXTENDS CoreProjection, TLC

Symmetry == Permutations(Keys) \cup Permutations(Deliveries)
            \cup Permutations(References)
=============================================================================
