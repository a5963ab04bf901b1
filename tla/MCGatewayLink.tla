--------------------------- MODULE MCGatewayLink ---------------------------
(* Small instances of GatewayLink for TLC. *)
EXTENDS GatewayLink, TLC

CONSTANTS m1, m2, c1, c2, c3, c4, r1, r2

MCMessages == {m1, m2}
MCRenewers == {r1, r2}
MCSockets == {c1, c2, c3, c4}
=============================================================================
