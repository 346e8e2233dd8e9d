----------------------------- MODULE MCFirewall -----------------------------
(* Firewall with one account of each kind.                                 *)
EXTENDS Firewall

CONSTANTS chrony, root, user

MCNtpOrder == <<chrony>>
MCNoNtp == <<>>

(* No custom rule, or one on a port that is not redirected and one on one   *)
(* that is.                                                                *)
MCCustomLists == {<<>>, <<"other", "https">>}
=============================================================================
