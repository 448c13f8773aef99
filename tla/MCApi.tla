-------------------------------- MODULE MCApi --------------------------------
(* Every fan speed around the limits, every short program, every short path. *)
EXTENDS ApiProps

MCModes == {"standby"}
NoCatalogue == {}
MCPercents == 0 .. 105

\* "%61pi" is "api" escaped, "a%2Fb" a segment that decodes to two.
MCUnquoted ==
  [s \in Segments \cup RouteNames |->
     CASE s = "%61pi" -> <<"api">>
       [] s = "%2E" -> <<".">>
       [] s = "a%2Fb" -> <<"a", "b">>
       [] OTHER -> <<s>>]

=============================================================================
