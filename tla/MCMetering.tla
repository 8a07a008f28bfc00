------------------------------ MODULE MCMetering ------------------------------
(* Metering on one small node: sessions of two to six seconds sold three      *)
(* seconds at a time, two seconds to the minute, half a second to the tick.  *)
EXTENDS Metering
=============================================================================
