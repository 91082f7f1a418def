---------------------------- MODULE MCDhtValues ----------------------------
(***************************************************************************)
(* Three keys with one update rule each, or two that are signed; a ttl     *)
(* that the first minute ends, and one beyond the last minute.             *)
(***************************************************************************)
EXTENDS DhtValues

Keys2 == 1..2
Keys3 == 1..3
EachRule == <<"signature", "anybody", "overlayNodes">>
AllSigned == [k \in Key |-> "signature"]
Ttls == {0, 3}
=============================================================================
