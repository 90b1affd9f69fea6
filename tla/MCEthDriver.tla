----------------------------- MODULE MCEthDriver -----------------------------
(* The Ethernet driver with the sizes of this build, for TLC.              *)
EXTENDS EthDriver

MCLengths  == {61, 1514}
MCIdentity == {TRUE, FALSE}
MCKnown    == {TRUE}
=============================================================================
