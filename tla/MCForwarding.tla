---------------------------- MODULE MCForwarding ----------------------------
(* Forwarding with the two address families of hook.py, in its order.      *)
EXTENDS Forwarding

CONSTANTS ipv4, ipv6

MCFamilies == {ipv4, ipv6}
MCFamilyOrder == <<ipv4, ipv6>>
=============================================================================
