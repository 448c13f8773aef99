--------------------------------- MODULE MCIpc ---------------------------------
(* Small instances of the socket; all constants are given in the cfg. *)
EXTENDS IpcProps

=============================================================================
