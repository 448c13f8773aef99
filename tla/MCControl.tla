-------------------------------- MODULE MCControl --------------------------------
(* Small instances of the commands; all constants are given in the cfg. *)
EXTENDS ControlProps

=============================================================================
