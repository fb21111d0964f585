-------------------------------- MODULE MCSched --------------------------------
(* Instances of SchedProperties for TLC.                                   *)
EXTENDS SchedProperties, TLC

CONSTANTS here, elsewhere

Regions    == {here, elsewhere}
LateAdopts == {"settled"}
Across     == {"foreign"}

Together   == {<<here, here, here>>, <<elsewhere, here>>}
=============================================================================
