--------------------------- MODULE MCOutboxRelay ---------------------------
(***************************************************************************)
(* Small instances of OutboxRelay: the configuration gives all values.     *)
(***************************************************************************)
EXTENDS OutboxRelay
=============================================================================
