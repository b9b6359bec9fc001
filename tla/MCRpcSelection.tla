--------------------------- MODULE MCRpcSelection ---------------------------
(* Three endpoints whose latencies fail each part of the hysteresis margin *)
(* as well as pass it: 160 to 120 ms is too small a gain, 210 to 160 ms    *)
(* too small a share, 210 to 120 ms is enough.                             *)
EXTENDS RpcSelection

CONSTANTS e1, e2, e3

MCUrls == <<e1, e2, e3>>
=============================================================================
