--------------------------- MODULE MCWwanNetlink ----------------------------
(* Model-checking instance of WwanNetlink: two IPv4 and two global IPv6    *)
(* addresses, so that a stale address and a different fresh one of the    *)
(* same family can both be on the link, and one link-local address.        *)
EXTENDS WwanNetlink

CONSTANTS a4, b4, a6, b6, ll6

MCV4Addrs == {a4, b4}
MCV6Addrs == {a6, b6, ll6}
MCLinkLocal == {ll6}
=============================================================================
