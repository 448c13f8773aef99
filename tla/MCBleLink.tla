------------------------------ MODULE MCBleLink ------------------------------
(* Small instances of the daemon's link; all constants are given in the cfg. *)
EXTENDS BleLinkProps

=============================================================================
