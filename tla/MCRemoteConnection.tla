------------------------- MODULE MCRemoteConnection -------------------------
(***************************************************************************)
(* Small instances of RemoteConnection.  The platform draws ids at random, *)
(* so states, codes and grants are used in one order.                      *)
(***************************************************************************)
EXTENDS RemoteConnection, TLC

UsedInOrder(table) ==
    \A m, n \in DOMAIN table : m < n /\ table[n] # None => table[m] # None

(* State constraint                                                        *)
InOrder == UsedInOrder(states) /\ UsedInOrder(codes) /\ UsedInOrder(grants)

(* Requests, and workers, are told apart by nothing else than their names. *)
Interchangeable == Permutations(Calls) \cup Permutations(Workers)
                       \cup Permutations(Installations)
=============================================================================
