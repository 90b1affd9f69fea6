------------------------------ MODULE MCEtharp ------------------------------
(* A two-entry cache with four addresses: our own, a gateway, a remote and *)
(* a link-local one.  The gateway's address moves between two stations.    *)
EXTENDS Etharp

MCLocal == {"me", "gw"}
MCLinkLocal == {"ll"}
MCRemote == {"far"}
MCSenders == [ip : {"gw"}, mac : {"m1", "m2"}] \cup [ip : {"me", "ll", "any"}, mac : {"m1"}]
             \cup [ip : {"far"}, mac : {"m2"}]
MCConfigs == {[ip |-> "any", gw |-> "any"], [ip |-> "me", gw |-> "gw"],
              [ip |-> "ll", gw |-> "any"], [ip |-> "me", gw |-> "any"]}
=============================================================================
