------------------------------- MODULE MCDhcp -------------------------------
(* Leases of one, two and six coarse timer periods of two seconds.         *)
EXTENDS Dhcp

MCFinite == {2, 4, 12}
MCLong == {12}
=============================================================================
