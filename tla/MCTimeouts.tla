----------------------------- MODULE MCTimeouts -----------------------------
(* A small instance of Timeouts: a clock that wraps after a few ticks, two *)
(* cyclic timers, one of which may miss a whole interval, the TCP timer    *)
(* and a one-shot timer of SNTP.                                           *)
EXTENDS Timeouts

MCTable == <<"arp", "dhcp">>
MCOneShot == {"sntp_request"}
MCInterval == [arp |-> 1, dhcp |-> 3, tcp |-> 2]
MCDelays == {0, 3}
=============================================================================
