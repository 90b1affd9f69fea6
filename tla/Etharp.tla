------------------------------- MODULE Etharp -------------------------------
(***************************************************************************)
(* The ARP cache of src/lwip/src/core/ipv4/etharp.c as this port builds    *)
(* it: one interface, ARP_QUEUEING = 0 (one packet waits per entry), no    *)
(* static entries, LWIP_NETIF_HWADDRHINT = 0 (one static cached index),    *)
(* LWIP_AUTOIP = LWIP_ACD = 1.                                             *)
(*                                                                         *)
(* The calls come from ip4_output_if (etharp_output), ethernet_input       *)
(* (etharp_input), the timer list (etharp_tmr, once a second), netif.c     *)
(* (etharp_cleanup_netif).  Each runs to completion: with NO_SYS there is  *)
(* one thread.  No caller in this program uses etharp_query without a      *)
(* packet.                                                                 *)
(*                                                                         *)
(* An IP packet is known by the next hop it is for; held counts the pbufs  *)
(* that the cache holds a reference to, one pbuf_ref (or pbuf_clone) up    *)
(* and one pbuf_free down.  Watched is one address, any of them: out is    *)
(* what the last step gave to ethernet_output for it, and learned, a       *)
(* history variable, the hardware address in the last ARP packet it sent.  *)
(***************************************************************************)
EXTENDS Integers, FiniteSets, FiniteSetsExt

CONSTANTS
  TableSize,      \* ARP_TABLE_SIZE
  MaxAge,         \* ARP_MAXAGE
  AgeUnicast,     \* ARP_AGE_REREQUEST_USED_UNICAST
  AgeBroadcast,   \* ARP_AGE_REREQUEST_USED_BROADCAST
  MaxPending,     \* ARP_MAXPENDING
  Local,          \* the unicast addresses of the configured subnet
  LinkLocal,      \* the 169.254/16 addresses
  Remote,         \* the unicast addresses of neither
  Macs,           \* the hardware addresses of the other stations
  Senders,        \* who sends ARP packets: [ip, mac]
  Configs,        \* the addresses the interface can be given: [ip, gw]
  Watched         \* the address that out and learned are about

Addresses == Local \cup LinkLocal \cup Remote
Slots == 1 .. TableSize
Any == "any"
Broadcast == "broadcast"
Multicast == "multicast"
None == "none"

ASSUME EtharpAssumption ==
  /\ TableSize \in Nat \ {0} /\ MaxPending \in Nat \ {0}
  /\ AgeUnicast \in Nat /\ AgeBroadcast \in Nat /\ MaxAge \in Nat \ {0}
  /\ Configs \subseteq [ip : Addresses \cup {Any}, gw : Addresses \cup {Any}]
  /\ Senders \subseteq [ip : Addresses \cup {Any}, mac : Macs]
  /\ [ip |-> Any, gw |-> Any] \in Configs /\ Watched \in Addresses
  /\ {Any, Broadcast, Multicast, None} \cap (Addresses \cup Macs) = {}

VARIABLES
  table,     \* arp_table
  cached,    \* etharp_cached_entry
  cfg,       \* the interface's address and gateway
  held,      \* pbuf references the cache holds
  out,       \* the frames of the last step
  learned    \* history: the last hardware address heard from it

vars == <<table, cached, cfg, held, out, learned>>

Stable == {"stable", "rerequesting1", "rerequesting2"}

Entry == [state : {"empty", "pending"} \cup Stable,
          ip    : Addresses \cup {None},
          eth   : Macs \cup {None},
          ctime : 0 .. MaxAge - 1,
          q     : Addresses \cup {None}]

EmptyEntry == [state |-> "empty", ip |-> None, eth |-> None, ctime |-> 0, q |-> None]

Init ==
  /\ table = [i \in Slots |-> EmptyEntry]
  /\ cached = 1
  /\ cfg = [ip |-> Any, gw |-> Any]
  /\ held = 0
  /\ out = {}
  /\ learned = None

-----------------------------------------------------------------------------
(* Looking up and recycling entries.                                       *)

Waiting(e) == IF e.q = None THEN 0 ELSE 1

(* The last of the oldest entries of S (the scan tests ctime >= age).      *)
Oldest(t, S) ==
  CHOOSE i \in S : \A j \in S : t[j].ctime < t[i].ctime \/ (t[j].ctime = t[i].ctime /\ j <= i)

InState(t, S) == {i \in Slots : t[i].state \in S}
Unqueued(t) == {i \in InState(t, {"pending"}) : t[i].q = None}

(* Mutant: pending entries are recycled before stable ones.                *)
VictimPending(t) ==
  IF InState(t, {"empty"}) # {} THEN Min(InState(t, {"empty"}))
  ELSE IF InState(t, {"pending"}) # {} THEN Oldest(t, InState(t, {"pending"}))
  ELSE Oldest(t, InState(t, Stable))

(* The entry a new address gets: the first empty one, or else the oldest   *)
(* stable, pending or (last) pending one with a packet.                    *)
Victim(t) ==
  IF InState(t, {"empty"}) # {} THEN Min(InState(t, {"empty"}))
  ELSE IF InState(t, Stable) # {} THEN Oldest(t, InState(t, Stable))
  ELSE IF Unqueued(t) # {} THEN Oldest(t, Unqueued(t))
  ELSE Oldest(t, InState(t, {"pending"}))

(* Mutant: pending entries are not searched.                               *)
MatchStable(t, a) == {i \in Slots : t[i].state \in Stable /\ t[i].ip = a}

Match(t, a) == {i \in Slots : t[i].state # "empty" /\ t[i].ip = a}
StableMatch(t, a) == {i \in Match(t, a) : t[i].state \in Stable}

FindEntry(t, a) == IF Match(t, a) # {} THEN Min(Match(t, a)) ELSE Victim(t)

(* Mutant: a search restarts the clock of the entry that it finds.         *)
FoundRestarted(t, a) ==
  IF Match(t, a) # {} THEN [t[FindEntry(t, a)] EXCEPT !.ctime = 0]
  ELSE [EmptyEntry EXCEPT !.ip = a]

(* The entry as the search leaves it: a recycled one is freed first.       *)
Found(t, a) ==
  IF Match(t, a) # {} THEN t[FindEntry(t, a)] ELSE [EmptyEntry EXCEPT !.ip = a]

(* Mutant: the packet on a recycled entry is forgotten.                    *)
FreedNothing(t, a) == 0

(* The references given back when an entry is recycled.                    *)
Freed(t, a) == IF Match(t, a) # {} THEN 0 ELSE Waiting(t[FindEntry(t, a)])

-----------------------------------------------------------------------------
(* Frames.                                                                 *)

IpFrames(hop, mac) == IF hop = Watched THEN {[kind |-> "ip", to |-> mac]} ELSE {}

(* etharp_raw: an ARP packet with a link-local sender is always broadcast; *)
(* nothing is sent when no pbuf can be allocated (ok = FALSE).  own is the *)
(* interface's address.                                                    *)
ArpFrames(own, op, hop, mac, ok) ==
  IF ~ok \/ hop # Watched THEN {}
  ELSE {[kind |-> op, to |-> IF own \in LinkLocal THEN Broadcast ELSE mac]}

(* The next hop etharp_output looks up, None when there is no route.  A    *)
(* packet carries the interface's own address as its source.               *)
OnLink(dst) ==
  CASE cfg.ip = Any          -> TRUE
    [] cfg.ip \in Local      -> dst \in Local
    [] cfg.ip \in LinkLocal  -> dst \in LinkLocal
    [] OTHER                 -> FALSE

NextHop(dst) ==
  IF OnLink(dst) \/ dst \in LinkLocal \/ cfg.ip \in LinkLocal THEN dst
  ELSE IF cfg.gw # Any THEN cfg.gw
  ELSE None

-----------------------------------------------------------------------------
(* Sending.                                                                *)

(* Broadcast and multicast packets are not looked up.                      *)
OutputGroup(dst) ==
  /\ out' = IpFrames(dst, dst)
  /\ UNCHANGED <<table, cached, cfg, held, learned>>

OutputNoRoute(dst) ==
  /\ NextHop(dst) = None
  /\ out' = {}
  /\ UNCHANGED <<table, cached, cfg, held, learned>>

(* Mutant: the cached entry is used for any address.                       *)
CachedAny(hop) == table[cached].state \in Stable

(* The entry etharp_output uses: the cached one if it is stable and for    *)
(* this address, or else the first such one.                               *)
CachedHit(hop) == table[cached].state \in Stable /\ table[cached].ip = hop

SendIndex(hop) ==
  IF CachedHit(hop) THEN cached ELSE Min(StableMatch(table, hop))

(* etharp_output_to_arp_index: an old entry in use is asked for again,     *)
(* unless that happened in the last two timer periods.                     *)
OutputStable(dst) ==
  \E ok \in BOOLEAN :
    LET hop == NextHop(dst)
        i   == SendIndex(hop)
        ask == table[i].state = "stable" /\ table[i].ctime >= AgeUnicast
        mac == IF table[i].ctime >= AgeBroadcast THEN Broadcast ELSE table[i].eth
    IN /\ hop # None
       /\ StableMatch(table, hop) # {}
       /\ ok \/ ask
       /\ cached' = i
       /\ table' = IF ask /\ ok THEN [table EXCEPT ![i].state = "rerequesting1"] ELSE table
       /\ out' = IpFrames(hop, table[i].eth) \cup
                 IF ask THEN ArpFrames(cfg.ip, "request", hop, mac, ok) ELSE {}
       /\ UNCHANGED <<cfg, held, learned>>

(* etharp_query with a packet, no stable entry being there: the entry is   *)
(* found or made and the packet replaces the one that waits on it.  taken  *)
(* is FALSE when the packet has to be copied and no memory is left.        *)
QueryPacket(dst) ==
  \E ok, taken \in BOOLEAN :
    LET hop == NextHop(dst)
        i   == FindEntry(table, hop)
        e   == Found(table, hop)
        new == e.state = "empty"
    IN /\ hop # None
       /\ StableMatch(table, hop) = {}
       /\ ok \/ new
       /\ table' = [table EXCEPT ![i] = [e EXCEPT !.state = "pending",
                                                  !.q = IF taken THEN hop ELSE @]]
       /\ held' = held - Freed(table, hop) +
                  IF taken THEN 1 - Waiting(e) ELSE 0
       /\ out' = IF new THEN ArpFrames(cfg.ip, "request", hop, Broadcast, ok) ELSE {}
       /\ UNCHANGED <<cached, cfg, learned>>

-----------------------------------------------------------------------------
(* Receiving.                                                              *)

(* Mutant: the packet is sent but stays on the entry.                      *)
UpdateEntryKeep(sip, mac) ==
  LET i == FindEntry(table, sip)
      e == Found(table, sip)
  IN /\ table' = [table EXCEPT ![i] = [e EXCEPT !.state = "stable", !.eth = mac, !.ctime = 0]]
     /\ held' = held - Freed(table, sip)

(* etharp_update_arp_entry: the sender's entry becomes stable and the      *)
(* packet that waits on it is sent.                                        *)
UpdateEntry(sip, mac) ==
  LET i == FindEntry(table, sip)
      e == Found(table, sip)
  IN /\ table' = [table EXCEPT ![i] = [e EXCEPT !.state = "stable", !.eth = mac,
                                                !.ctime = 0, !.q = None]]
     /\ held' = held - Freed(table, sip) - Waiting(e)

Delivered(sip, mac) ==
  IF Match(table, sip) # {} /\ Found(table, sip).q # None
  THEN IpFrames(Found(table, sip).q, mac) ELSE {}

(* etharp_input.  An ARP packet for our address may make an entry, any     *)
(* other may only refresh one.  acd_arp_reply runs first: a packet with    *)
(* our own link-local address as its sender may make AutoIP give it up.    *)
ArpInput(op, sip, mac, target) ==
  \E retreat, ok \in BOOLEAN :
    LET forUs  == cfg'.ip # Any /\ target = cfg'.ip
        fromUs == cfg'.ip # Any /\ sip = cfg'.ip
        update == sip \in Addresses /\ (forUs \/ Match(table, sip) # {})
    IN /\ retreat => cfg.ip \in LinkLocal /\ sip = cfg.ip
       /\ ok \/ (op = "request" /\ target = cfg.ip)
       /\ cfg' = IF retreat THEN [ip |-> Any, gw |-> Any] ELSE cfg
       /\ IF update THEN UpdateEntry(sip, mac) ELSE UNCHANGED <<table, held>>
       /\ out' = (IF update THEN Delivered(sip, mac) ELSE {}) \cup
                 IF op = "request" /\ forUs /\ ~fromUs
                 THEN ArpFrames(cfg'.ip, "reply", sip, mac, ok) ELSE {}
       /\ learned' = IF sip = Watched THEN mac ELSE learned
       /\ UNCHANGED cached

-----------------------------------------------------------------------------
(* The timer and the interface.                                            *)

(* Mutant: entries live for one period too many.                           *)
ExpiredLate(e) ==
  \/ e.ctime >= MaxAge
  \/ e.state = "pending" /\ e.ctime >= MaxPending

Expired(e) ==
  \/ e.ctime + 1 >= MaxAge
  \/ e.state = "pending" /\ e.ctime + 1 >= MaxPending

Aged(e) ==
  CASE e.state = "empty"          -> e
    [] e.state # "empty" /\ Expired(e) -> EmptyEntry
    [] OTHER -> [e EXCEPT !.ctime = @ + 1,
                          !.state = CASE @ = "rerequesting1" -> "rerequesting2"
                                      [] @ = "rerequesting2" -> "stable"
                                      [] OTHER               -> @]

Lost(t, S) == Cardinality({i \in S : t[i].q # None})

(* etharp_tmr: every entry ages, the expired ones are freed and the        *)
(* addresses still pending are asked for again.                            *)
Tmr ==
  \E ok \in BOOLEAN :
    LET dead == {i \in Slots : table[i].state # "empty" /\ Expired(table[i])}
    IN /\ table' = [i \in Slots |-> Aged(table[i])]
       /\ held' = held - Lost(table, dead)
       /\ out' = UNION {ArpFrames(cfg.ip, "request", table[i].ip, Broadcast, ok) :
                          i \in InState(table, {"pending"}) \ dead}
       /\ UNCHANGED <<cached, cfg, learned>>

(* netif_set_addr leaves the cache alone.                                  *)
SetAddr(c) ==
  /\ c # cfg /\ cfg' = c
  /\ out' = {}
  /\ UNCHANGED <<table, cached, held, learned>>

(* etharp_cleanup_netif, called by netif_set_down, frees all entries.      *)
CleanupNetif ==
  /\ table' = [i \in Slots |-> EmptyEntry]
  /\ held' = held - Lost(table, Slots)
  /\ out' = {}
  /\ UNCHANGED <<cached, cfg, learned>>

(* An incoming ARP packet.  None stands for every target that is not ours; *)
(* the operation of a packet for another station makes no difference.      *)
ArpPacket ==
  \E op \in {"request", "reply"}, s \in Senders, target \in {cfg.ip, None} :
    (target = None => op = "request") /\ ArpInput(op, s.ip, s.mac, target)

Next ==
  \/ \E dst \in {Broadcast, Multicast} : OutputGroup(dst)
  \/ \E dst \in Addresses : OutputNoRoute(dst) \/ OutputStable(dst) \/ QueryPacket(dst)
  \/ ArpPacket
  \/ Tmr
  \/ \E c \in Configs : SetAddr(c)
  \/ CleanupNetif

Spec == Init /\ [][Next]_vars

(* The main loop calls sys_check_timeouts for ever, and Timeouts shows     *)
(* that a cyclic timer then fires again and again.                         *)
FairSpec == Spec /\ WF_vars(Tmr)

-----------------------------------------------------------------------------
TypeOK ==
  /\ table \in [Slots -> Entry]
  /\ cached \in Slots /\ cfg \in Configs
  /\ held \in 0 .. TableSize
  /\ learned \in Macs \cup {None}

(* An address is in the cache at most once, so an update can not leave a   *)
(* second, older answer behind for etharp_output to find first.            *)
OneEntryPerAddress ==
  \A i, j \in Slots :
    table[i].state # "empty" /\ table[j].state # "empty" /\ table[i].ip = table[j].ip => i = j

(* "no queued packets should exist on stable entries" (the assertion of    *)
(* etharp_find_entry), and a packet waits only on the entry of its own     *)
(* next hop, however entries were recycled in between.                     *)
QueuedOnItsHop ==
  \A i \in Slots : table[i].q # None => table[i].state = "pending" /\ table[i].q = table[i].ip

(* Every pbuf the cache took a reference to is in exactly one entry: none  *)
(* leaks when an entry is recycled, replaced, expired or cleaned up, and   *)
(* none is freed twice.                                                    *)
PacketsConserved == held = Lost(table, Slots)

(* A unicast IP packet leaves for the hardware address its next hop last   *)
(* announced, by whichever path it went: cached index, search or queue.    *)
FramesToLearned ==
  \A f \in out : f.kind = "ip" => f.to = learned

(* A packet that waits for an answer is lost to another address's entry    *)
(* only when every entry is pending with a packet of its own.              *)
PacketsSacrificedLast ==
  [][ \A i \in Slots :
        table[i].q # None /\ table'[i].state # "empty" /\ table'[i].ip # table[i].ip
          => \A j \in Slots : table[j].state = "pending" /\ table[j].q # None ]_vars

(* Watched does not stay pending for ever, whatever is sent to it:         *)
(* queueing another packet does not restart the entry's clock.             *)
Pending == \E i \in Slots : table[i].state = "pending" /\ table[i].ip = Watched

PendingEnds == Pending ~> ~Pending
=============================================================================
