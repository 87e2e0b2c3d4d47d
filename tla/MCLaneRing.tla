----------------------------- MODULE MCLaneRing -----------------------------
(* Small instances of LaneRing for TLC: two lanes, one or two requests.      *)
EXTENDS LaneRing

CONSTANTS user, fee

OneProto  == {user}
TwoProtos == {user, fee}
=============================================================================
