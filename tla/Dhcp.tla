-------------------------------- MODULE Dhcp --------------------------------
(***************************************************************************)
(* The DHCP client of src/lwip/src/core/ipv4/dhcp.c as this port builds    *)
(* it: one interface, LWIP_DHCP_DOES_ACD_CHECK = LWIP_DHCP_AUTOIP_COOP = 0,*)
(* DHCP_CREATE_RAND_XID = 1.  dhcp is struct dhcp with, as ip, the address *)
(* of the interface.                                                       *)
(*                                                                         *)
(* The network may lose, delay, repeat and reorder messages.  A reply to   *)
(* an old transaction does not pass the test of dhcp_recv, so it is enough *)
(* to keep in dhcp.sent what was sent under the present transaction        *)
(* number, to which a server may at any time deliver an answer; dhcp.xid   *)
(* is FALSE while struct dhcp holds no number that was ever sent.          *)
(*                                                                         *)
(* request_timeout is kept as armed: the fine timer counts it down and may *)
(* let it expire at any time.  The lease times are kept in full, in coarse *)
(* timer periods, with the word sizes as constants.                        *)
(***************************************************************************)
EXTENDS Integers, FiniteSets

CONSTANTS
  Addrs,         \* the addresses the servers hand out
  Leases,        \* the lease times they grant, in seconds
  W,             \* 2^32, the range of a lease time; W - 1 means for ever
  CoarseSecs,    \* DHCP_COARSE_TIMER_SECS
  MaxTimeout,    \* 0xffff, the largest dhcp_timeout_t
  MaxTries,      \* 255, where tries saturates
  Disturbed,     \* whether servers refuse and memory runs out
  LinkChanges    \* whether netif_set_link_down and netif_set_link_up are called

Any == "any"
NeverEnds == W - 1

ASSUME DhcpAssumption ==
  /\ CoarseSecs \in Nat \ {0} /\ MaxTimeout \in Nat \ {0} /\ MaxTries \in Nat \ {0}
  /\ W \in Nat /\ Leases \subseteq 0 .. NeverEnds
  /\ Any \notin Addrs /\ Disturbed \in BOOLEAN /\ LinkChanges \in BOOLEAN

VARIABLES
  dhcp,      \* struct dhcp and netif->ip_addr
  link,      \* NETIF_FLAG_LINK_UP
  left,      \* history: coarse periods left of the last lease granted
  calm       \* history: no more disturbances

vars == <<dhcp, link, left, calm>>

States == {"off", "init", "selecting", "requesting", "rebooting", "backing_off",
           "bound", "renewing", "rebinding"}
Message == [type : {"discover", "request", "release"}, addr : Addrs \cup {Any}]

(* struct dhcp after memset, on an interface with the given address.       *)
Cleared(ip) ==
  [state |-> "off", tries |-> 0, armed |-> FALSE, offered |-> Any,
   t0 |-> 0, t1 |-> 0, t2 |-> 0, t2max |-> 0, used |-> 0,
   xid |-> FALSE, sent |-> {}, ip |-> ip]

Init == dhcp = Cleared(Any) /\ link = TRUE /\ left = 0 /\ calm = FALSE

-----------------------------------------------------------------------------
(* Helpers on struct dhcp.                                                 *)

SetState(d, new) ==
  IF new = d.state THEN d ELSE [d EXCEPT !.state = new, !.tries = 0, !.armed = FALSE]

Supplied(d) == d.state \in {"bound", "renewing", "rebinding"}

(* dhcp_create_msg: a first try other than a REQUEST gets a new number.    *)
(* ok = FALSE: no pbuf.                                                    *)
Sent(d, type, addr, ok) ==
  LET own   == type # "request" \/ d.state = "rebooting"
      fresh == own /\ d.tries = 0
  IN IF ~ok THEN d
     ELSE [d EXCEPT !.xid = own \/ @,
                    !.sent = (IF fresh THEN {} ELSE @) \cup {[type |-> type, addr |-> addr]}]

(* The back-off of the request about to be repeated, in fine timer periods *)
(* of 500 ms: (u16_t) milliseconds, rounded up.                            *)
Backoff(state, tries) ==
  LET secs == CASE state \in {"selecting", "requesting"} -> IF tries < 6 THEN 2 ^ tries ELSE 60
                [] state = "renewing"  -> IF tries < 10 THEN tries * 2 ELSE 20
                [] OTHER               -> IF tries < 10 THEN tries ELSE 10
  IN (((secs * 1000) % 65536) + 499) \div 500

(* Mutant: tries does not saturate.                                        *)
TriedOn(d) == [d EXCEPT !.tries = @ + 1, !.armed = TRUE]

Tried(d) ==
  LET n == IF d.tries < MaxTries THEN d.tries + 1 ELSE d.tries
  IN [d EXCEPT !.tries = n, !.armed = Backoff(d.state, n) > 0]

Discover(d, ok) ==
  Tried(Sent(SetState([d EXCEPT !.offered = Any], "selecting"), "discover", Any, ok))
Select(d, ok) == Tried(Sent(SetState(d, "requesting"), "request", d.offered, ok))
Renew(d, ok)  == Tried(Sent(SetState(d, "renewing"), "request", d.ip, ok))
Rebind(d, ok) == Tried(Sent(SetState(d, "rebinding"), "request", d.ip, ok))
Reboot(d, ok) == Tried(Sent(SetState(d, "rebooting"), "request", d.offered, ok))

(* dhcp_release_and_stop: the address goes only if DHCP supplied it.       *)
ReleaseAndStop(d, ok) ==
  LET c == [d EXCEPT !.offered = Any, !.t0 = 0, !.t1 = 0, !.t2 = 0, !.used = 0]
  IN IF d.state = "off" THEN d
     ELSE IF Supplied(d)
          THEN [Sent(SetState(c, "off"), "release", Any, ok) EXCEPT !.ip = Any]
          ELSE SetState(c, "off")

(* dhcp_start: struct dhcp is cleared.                                     *)
Start(d, ok) ==
  LET c == [Cleared(d.ip) EXCEPT !.sent = d.sent]
  IN IF link THEN Discover(c, ok) ELSE SetState(c, "init")

-----------------------------------------------------------------------------
(* Lease times.                                                            *)

(* SET_TIMEOUT_FROM_OFFERED *)
Periods(secs) ==
  LET t == (secs + CoarseSecs \div 2) \div CoarseSecs
      m == IF t > MaxTimeout THEN MaxTimeout ELSE t
  IN IF m = 0 THEN 1 ELSE m

(* Mutant: T1 is as long as the lease.                                     *)
RenewSecsLate(lease) == lease

(* The defaults of dhcp_handle_ack, in u32_t arithmetic.                   *)
RenewSecs(lease) == lease \div 2
RebindSecs(lease) == ((lease * 7) % W) \div 8

(* dhcp_handle_ack and dhcp_bind.  A lease for ever leaves t0_timeout as   *)
(* it is.                                                                  *)
Bind(d, addr, lease) ==
  [SetState(d, "bound") EXCEPT
     !.ip = addr, !.offered = addr, !.used = 0,
     !.t0 = IF lease = NeverEnds THEN @ ELSE Periods(lease),
     !.t1 = Periods(RenewSecs(lease)),
     !.t2 = Periods(RebindSecs(lease)),
     !.t2max = Periods(RebindSecs(lease))]

-----------------------------------------------------------------------------
(* The timers.                                                             *)

(* Mutant: the client gives up after the last request.                     *)
TimedOutGivesUp(d, ok) ==
  CASE d.state \in {"backing_off", "selecting"}       -> Discover(d, ok)
    [] d.state = "requesting" /\ d.tries <= 5         -> Select(d, ok)
    [] d.state = "rebooting" /\ d.tries < 2           -> Reboot(d, ok)
    [] d.state = "rebooting" /\ d.tries >= 2          -> Discover(d, ok)
    [] OTHER                                          -> d

(* dhcp_timeout *)
TimedOut(d, ok) ==
  CASE d.state \in {"backing_off", "selecting"}       -> Discover(d, ok)
    [] d.state = "requesting" /\ d.tries <= 5         -> Select(d, ok)
    [] d.state = "requesting" /\ d.tries > 5          -> Start(ReleaseAndStop(d, ok), ok)
    [] d.state = "rebooting" /\ d.tries < 2           -> Reboot(d, ok)
    [] d.state = "rebooting" /\ d.tries >= 2          -> Discover(d, ok)
    [] OTHER                                          -> d

(* dhcp_t1_timeout and dhcp_t2_timeout ask again at half of the time left, *)
(* if that is DHCP_NEXT_TIMEOUT_THRESHOLD = 1 period or more.              *)
T1TimedOut(d, ok) ==
  IF d.state \notin {"requesting", "bound", "renewing"} THEN d
  ELSE [Renew(d, ok) EXCEPT !.t1 = IF d.t2max - d.used >= 2 THEN (d.t2max - d.used) \div 2 ELSE @]

T2TimedOut(d, ok) ==
  IF d.state \notin {"requesting", "bound", "renewing", "rebinding"} THEN d
  ELSE [Rebind(d, ok) EXCEPT !.t2 = IF d.t0 - d.used >= 2 THEN (d.t0 - d.used) \div 2 ELSE @]

(* dhcp_coarse_tmr: T1 is looked at only when T2 does not trigger, and     *)
(* neither when the lease ends.                                            *)
CoarseStep(d, ok) ==
  LET a == [d EXCEPT !.used = IF d.t0 # 0 THEN @ + 1 ELSE @]
      b == [a EXCEPT !.t2 = IF @ # 0 THEN @ - 1 ELSE 0]
      c == [b EXCEPT !.t1 = IF @ # 0 THEN @ - 1 ELSE 0]
  IN IF d.state = "off" THEN d
     ELSE IF d.t0 # 0 /\ a.used = d.t0 THEN Start(ReleaseAndStop(a, ok), ok)
     ELSE IF d.t2 = 1 THEN T2TimedOut(b, ok)
     ELSE IF d.t1 = 1 THEN T1TimedOut(c, ok)
     ELSE c

MemOk(ok) == ok \/ (Disturbed /\ ~calm)

FineTmr ==
  \E ok \in BOOLEAN :
    /\ MemOk(ok) /\ dhcp.armed
    /\ dhcp' = TimedOut([dhcp EXCEPT !.armed = FALSE], ok)
    /\ UNCHANGED <<link, left, calm>>

CoarseTmr ==
  \E ok \in BOOLEAN :
    /\ MemOk(ok)
    /\ dhcp' = CoarseStep(dhcp, ok)
    /\ left' = IF left \in {0, NeverEnds} THEN left ELSE left - 1
    /\ UNCHANGED <<link, calm>>

-----------------------------------------------------------------------------
(* dhcp_recv.  A server offers any address and grants what was requested.  *)

RecvOffer(addr) ==
  \E ok, serverId \in BOOLEAN :
    /\ MemOk(ok) /\ MemOk(serverId)
    /\ dhcp.xid /\ [type |-> "discover", addr |-> Any] \in dhcp.sent
    /\ dhcp.state = "selecting"
    /\ dhcp' = IF serverId THEN Select([dhcp EXCEPT !.armed = FALSE, !.offered = addr], ok)
               ELSE dhcp
    /\ UNCHANGED <<link, left, calm>>

RecvAck(addr, lease) ==
  /\ dhcp.xid /\ [type |-> "request", addr |-> addr] \in dhcp.sent
  /\ dhcp.state \in {"requesting", "rebooting", "rebinding", "renewing"}
  /\ dhcp' = Bind(dhcp, addr, lease)
  /\ left' = IF lease = NeverEnds THEN NeverEnds ELSE Periods(lease)
  /\ UNCHANGED <<link, calm>>

(* Mutant: after a refusal the client waits for a timer it did not start.  *)
RecvNakWaits ==
  /\ Disturbed /\ ~calm /\ dhcp.xid /\ \E m \in dhcp.sent : m.type = "request"
  /\ dhcp.state \in {"requesting", "rebooting", "rebinding", "renewing"}
  /\ dhcp' = [SetState(dhcp, "backing_off") EXCEPT !.ip = Any]
  /\ UNCHANGED <<link, left, calm>>

(* dhcp_handle_nak: the address is removed and discovery starts again.     *)
RecvNak ==
  \E ok \in BOOLEAN :
    /\ Disturbed /\ ~calm /\ dhcp.xid /\ \E m \in dhcp.sent : m.type = "request"
    /\ dhcp.state \in {"requesting", "rebooting", "rebinding", "renewing"}
    /\ dhcp' = Discover([SetState(dhcp, "backing_off") EXCEPT !.ip = Any], ok)
    /\ UNCHANGED <<link, left, calm>>

-----------------------------------------------------------------------------
(* The interface.                                                          *)

StartClient ==
  /\ dhcp.state = "off"
  /\ dhcp' = Start(dhcp, TRUE)
  /\ UNCHANGED <<link, left, calm>>

LinkDown ==
  /\ LinkChanges /\ ~calm /\ link
  /\ link' = FALSE
  /\ UNCHANGED <<dhcp, left, calm>>

(* dhcp_network_changed_link_up *)
LinkUp ==
  \E ok \in BOOLEAN :
    LET d == [dhcp EXCEPT !.tries = 0]
    IN /\ ~link /\ link' = TRUE /\ MemOk(ok)
       /\ dhcp' = CASE Supplied(dhcp) \/ dhcp.state = "rebooting" -> Reboot(d, ok)
                    [] dhcp.state = "off"                         -> dhcp
                    [] OTHER                                      -> Discover(d, ok)
       /\ UNCHANGED <<left, calm>>

(* The network calms down for good, with the link up.                      *)
Settle ==
  /\ link /\ ~calm /\ calm' = TRUE
  /\ UNCHANGED <<dhcp, link, left>>

Offer == \E addr \in Addrs : RecvOffer(addr)
Ack == \E addr \in Addrs, lease \in Leases : RecvAck(addr, lease)

Next ==
  \/ StartClient \/ FineTmr \/ CoarseTmr
  \/ Offer \/ Ack \/ RecvNak
  \/ LinkDown \/ LinkUp \/ Settle

Spec == Init /\ [][Next]_vars

(* The timers fire for ever (see Timeouts), a link that is down comes      *)
(* back, and a client that keeps asking is answered in the end.            *)
FairSpec ==
  /\ Spec
  /\ WF_vars(StartClient) /\ WF_vars(FineTmr) /\ WF_vars(CoarseTmr)
  /\ WF_vars(LinkUp)
  /\ SF_vars(Offer /\ dhcp'.state = "requesting") /\ SF_vars(Ack)

-----------------------------------------------------------------------------
TypeOK ==
  /\ dhcp.state \in States /\ dhcp.tries \in 0 .. MaxTries
  /\ dhcp.armed \in BOOLEAN /\ dhcp.xid \in BOOLEAN
  /\ dhcp.t0 \in 0 .. MaxTimeout /\ dhcp.t1 \in 0 .. MaxTimeout /\ dhcp.t2 \in 0 .. MaxTimeout
  /\ dhcp.t2max \in 0 .. MaxTimeout /\ dhcp.used \in 0 .. MaxTimeout
  /\ dhcp.offered \in Addrs \cup {Any} /\ dhcp.ip \in Addrs \cup {Any}
  /\ dhcp.sent \subseteq Message
  /\ link \in BOOLEAN /\ left \in 0 .. NeverEnds /\ calm \in BOOLEAN

(* The client never falls silent: a state that waits for an answer has a   *)
(* request timeout running whose handler will ask again, and a state that  *)
(* rests on a lease has a lease timer running.                             *)
NeverSilent ==
  /\ dhcp.state \in {"selecting", "requesting", "rebooting"} => dhcp.armed
  /\ Supplied(dhcp) => dhcp.t0 # 0

(* A lease of two periods or more does not run out before the client has   *)
(* tried to extend it.                                                     *)
RenewsBeforeExpiry ==
  [][dhcp.ip # Any /\ dhcp'.ip = Any /\ dhcp.state = "bound" => dhcp.t0 = 1]_vars

(* Once the network has calmed down the client gets an address, whatever   *)
(* happened before.                                                        *)
GetsAddress == calm ~> dhcp.ip # Any

(* "check if DHCP supplied netif->ip_addr" (dhcp_supplied_address): the    *)
(* states in which it says so have an address.                             *)
SuppliedIsThere == Supplied(dhcp) => dhcp.ip # Any

(* When "this clients' lease time has expired" (dhcp_coarse_tmr) the       *)
(* address is removed from the interface.                                  *)
AddressWithinLease == dhcp.ip # Any => left > 0
=============================================================================
