------------------------------- MODULE MCStore -------------------------------
(* Small instances of the database; all constants are given in the cfg. *)
EXTENDS StoreProps

=============================================================================
