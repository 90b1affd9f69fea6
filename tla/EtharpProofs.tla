---------------------------- MODULE EtharpProofs ----------------------------
(***************************************************************************)
(* Proofs about the ARP cache, for every table size, set of addresses and  *)
(* stations, and ages.  The entry that is recycled may be any of them: the *)
(* safety of the cache does not rest on which one Victim picks.            *)
(***************************************************************************)
EXTENDS Etharp, TLAPS

(* What holds of one entry when l is the last answer from Watched.         *)
EntryOK(e, l) ==
  /\ e \in Entry
  /\ e.state # "empty" => e.ip \in Addresses
  /\ e.q # None => e.state = "pending" /\ e.q = e.ip
  /\ e.state \in Stable /\ e.ip = Watched => e.eth = l

SameAddress(d, e) == d.state # "empty" /\ e.state # "empty" /\ d.ip = e.ip

TableOK(t, l) ==
  /\ DOMAIN t = Slots /\ t = [i \in Slots |-> t[i]]
  /\ \A i \in Slots : EntryOK(t[i], l)
  /\ \A i, j \in Slots : SameAddress(t[i], t[j]) => i = j

(* The inductive invariant: no stable entry holds an old answer, so that   *)
(* neither the search nor the cached index can find one.                   *)
IInv ==
  /\ TableOK(table, learned)
  /\ cached \in Slots /\ cfg \in Configs /\ learned \in Macs \cup {None}
  /\ FramesToLearned

-----------------------------------------------------------------------------
(* The special addresses are no addresses of stations.                     *)
LEMMA Special ==
  /\ Watched \in Addresses
  /\ Any \notin Addresses /\ None \notin Addresses
  /\ Broadcast \notin Addresses /\ Multicast \notin Addresses
BY EtharpAssumption

LEMMA EmptyOK == ASSUME NEW l PROVE EntryOK(EmptyEntry, l)
<1>1. 0 \in 0 .. MaxAge - 1
  BY EtharpAssumption
<1>. QED BY <1>1 DEF EntryOK, EmptyEntry, Entry, Stable

(* Writing one entry.  l and m are the last answers from Watched before    *)
(* and after.                                                              *)
LEMMA PutOK ==
  ASSUME NEW t, NEW l, NEW m, NEW i, NEW e,
         TableOK(t, l), EntryOK(e, m), e.ip = Watched \/ l = m,
         e.state # "empty",
         \A j \in Slots : j # i => ~SameAddress(t[j], e)
  PROVE  TableOK([t EXCEPT ![i] = e], m)
<1>. DEFINE u == [t EXCEPT ![i] = e]
<1>1. DOMAIN u = Slots /\ u = [j \in Slots |-> u[j]]
  BY DEF TableOK
<1>2. \A j \in Slots : u[j] = IF j = i THEN e ELSE t[j]
  BY DEF TableOK
<1>. HIDE DEF u
<1>3. ASSUME NEW j \in Slots PROVE EntryOK(u[j], m)
  <2>1. CASE j = i
    BY <2>1, <1>2
  <2>2. CASE j # i
    <3>1. u[j] = t[j] /\ EntryOK(t[j], l) /\ ~SameAddress(t[j], e)
      BY <2>2, <1>2 DEF TableOK
    <3>2. t[j].state \in Stable => t[j].state # "empty"
      BY DEF Stable
    <3>. QED BY <3>1, <3>2, Zenon DEF EntryOK, SameAddress
  <2>. QED BY <2>1, <2>2
<1>4. ASSUME NEW j \in Slots, NEW k \in Slots, SameAddress(u[j], u[k]) PROVE j = k
  <2>1. \A n \in Slots : n # i => ~SameAddress(t[n], e) /\ ~SameAddress(e, t[n])
    BY Zenon DEF SameAddress
  <2>. QED BY <1>2, <1>4, <2>1, Zenon DEF TableOK
<1>. QED BY <1>1, <1>3, <1>4, Zenon DEF TableOK, u

(* At most one entry matches, so the search finds it.                      *)
LEMMA FindMatch ==
  ASSUME NEW t, NEW l, NEW a, TableOK(t, l), Match(t, a) # {}
  PROVE  /\ FindEntry(t, a) \in Match(t, a)
         /\ Match(t, a) = {FindEntry(t, a)}
         /\ Found(t, a) = t[FindEntry(t, a)]
<1>1. PICK k \in Slots : k \in Match(t, a)
  BY DEF Match
<1>2. \A j \in Match(t, a) : j = k
  BY <1>1, Zenon DEF Match, TableOK, SameAddress
<1>3. Match(t, a) = {k}
  BY <1>1, <1>2, Zenon
<1>4. k \in Int
  BY DEF Slots
<1>5. Min({k}) = k
  BY <1>4 DEF Min
<1>. QED BY <1>3, <1>5, Zenon DEF FindEntry, Found

(* The entry the search leaves, and that no other one has its address.     *)
LEMMA FoundOK ==
  ASSUME NEW t, NEW l, NEW a \in Addresses, TableOK(t, l)
  PROVE  /\ EntryOK(Found(t, a), l) /\ Found(t, a).ip = a
         /\ \A j \in Slots : j # FindEntry(t, a) /\ t[j].state # "empty" => t[j].ip # a
<1>1. CASE Match(t, a) # {}
  <2>. DEFINE k == FindEntry(t, a)
  <2>1. k \in Match(t, a) /\ Match(t, a) = {k} /\ Found(t, a) = t[k]
    BY <1>1, FindMatch
  <2>. HIDE DEF k
  <2>. QED BY <2>1, Zenon DEF Match, TableOK, k
<1>2. CASE Match(t, a) = {}
  <2>1. Found(t, a) = [EmptyEntry EXCEPT !.ip = a]
    BY <1>2, Zenon DEF Found
  <2>2. 0 \in 0 .. MaxAge - 1
    BY EtharpAssumption
  <2>3. EntryOK([EmptyEntry EXCEPT !.ip = a], l) /\ [EmptyEntry EXCEPT !.ip = a].ip = a
    BY <2>2 DEF EntryOK, EmptyEntry, Entry, Stable
  <2>4. \A j \in Slots : t[j].state # "empty" => t[j].ip # a
    BY <1>2, Zenon DEF Match
  <2>. QED BY <2>1, <2>3, <2>4, Zenon
<1>. QED BY <1>1, <1>2

(* What etharp_output finds is stable and for the address it looks up.     *)
LEMMA SendIndexOK ==
  ASSUME NEW a, IInv, StableMatch(table, a) # {}
  PROVE  /\ SendIndex(a) \in Slots
         /\ table[SendIndex(a)].state \in Stable /\ table[SendIndex(a)].ip = a
<1>1. CASE CachedHit(a)
  BY <1>1, Zenon DEF SendIndex, CachedHit, IInv
<1>2. CASE ~CachedHit(a)
  <2>1. PICK k \in Slots : k \in StableMatch(table, a)
    BY DEF StableMatch, Match
  <2>2. \A j \in StableMatch(table, a) : j = k
    BY <2>1, Zenon DEF StableMatch, Match, TableOK, SameAddress, IInv
  <2>3. StableMatch(table, a) = {k}
    BY <2>1, <2>2, Zenon
  <2>4. k \in Int
    BY DEF Slots
  <2>5. Min({k}) = k
    BY <2>4 DEF Min
  <2>6. SendIndex(a) = k
    BY <1>2, <2>3, <2>5, Zenon DEF SendIndex
  <2>. QED BY <2>1, <2>6, Zenon DEF StableMatch, Match
<1>. QED BY <1>1, <1>2

LEMMA ArpFramesKind ==
  ASSUME NEW own, NEW op \in {"request", "reply"}, NEW hop, NEW mac, NEW ok,
         NEW f \in ArpFrames(own, op, hop, mac, ok)
  PROVE  f.kind # "ip"
BY DEF ArpFrames

LEMMA IpFramesTo ==
  ASSUME NEW hop, NEW mac, NEW f \in IpFrames(hop, mac)
  PROVE  hop = Watched /\ f.to = mac
BY DEF IpFrames
-----------------------------------------------------------------------------
LEMMA InitOK == Init => IInv
<1>. SUFFICES ASSUME Init PROVE IInv
  OBVIOUS
<1>1. TableOK(table, learned)
  <2>1. \A i \in Slots : table[i] = EmptyEntry
    BY DEF Init
  <2>2. EmptyEntry.state = "empty"
    BY DEF EmptyEntry
  <2>3. DOMAIN table = Slots /\ table = [i \in Slots |-> table[i]]
    BY DEF Init
  <2>. QED BY <2>1, <2>2, <2>3, EmptyOK, Zenon DEF TableOK, SameAddress
<1>2. cached \in Slots
  BY EtharpAssumption DEF Init, Slots
<1>3. cfg \in Configs /\ learned \in Macs \cup {None}
  BY EtharpAssumption, Zenon DEF Init
<1>4. FramesToLearned
  BY DEF Init, FramesToLearned
<1>. QED BY <1>1, <1>2, <1>3, <1>4 DEF IInv

(* The whole table changes: every entry stays, or becomes empty.           *)
LEMMA AllOK ==
  ASSUME NEW t, NEW l, NEW u, TableOK(t, l),
         DOMAIN u = Slots, u = [i \in Slots |-> u[i]],
         \A i \in Slots : EntryOK(u[i], l),
         \A i \in Slots : u[i].state # "empty" => t[i].state # "empty" /\ u[i].ip = t[i].ip
  PROVE  TableOK(u, l)
<1>1. \A i, j \in Slots : SameAddress(u[i], u[j]) => i = j
  <2>. SUFFICES ASSUME NEW i \in Slots, NEW j \in Slots, SameAddress(u[i], u[j]) PROVE i = j
    OBVIOUS
  <2>1. SameAddress(t[i], t[j])
    BY DEF SameAddress
  <2>. QED BY <2>1 DEF TableOK
<1>. QED BY <1>1, Zenon DEF TableOK

LEMMA AgedOK ==
  ASSUME NEW e, NEW l, EntryOK(e, l)
  PROVE  /\ EntryOK(Aged(e), l)
         /\ Aged(e).state # "empty" => e.state # "empty" /\ Aged(e).ip = e.ip
<1>1. CASE e.state = "empty"
  <2>1. Aged(e) = e
    BY <1>1 DEF Aged
  <2>. QED BY <1>1, <2>1
<1>2. CASE e.state # "empty" /\ Expired(e)
  <2>1. Aged(e) = EmptyEntry
    BY <1>2, Zenon DEF Aged
  <2>. QED BY <2>1, EmptyOK DEF EmptyEntry
<1>3. CASE e.state # "empty" /\ ~Expired(e)
  <2>. DEFINE s == CASE e.state = "rerequesting1" -> "rerequesting2"
                     [] e.state = "rerequesting2" -> "stable"
                     [] OTHER                     -> e.state
  <2>1. Aged(e) = [e EXCEPT !.ctime = e.ctime + 1, !.state = s]
    BY <1>3 DEF Aged, EntryOK, Entry
  <2>2. e \in Entry
    BY DEF EntryOK
  <2>3. e.ctime + 1 \in 0 .. MaxAge - 1
    BY <1>3, <2>2, EtharpAssumption DEF Expired, Entry
  <2>4. /\ s \in {"pending"} \cup Stable
        /\ s \in Stable <=> e.state \in Stable
        /\ e.state = "pending" => s = "pending"
    BY <1>3, <2>2 DEF Entry, Stable
  <2>. HIDE DEF s
  <2>5. /\ Aged(e) \in Entry /\ Aged(e).state = s /\ Aged(e).ip = e.ip
        /\ Aged(e).q = e.q /\ Aged(e).eth = e.eth
    BY <2>1, <2>2, <2>3, <2>4 DEF Entry
  <2>. QED BY <1>3, <2>4, <2>5, Zenon DEF EntryOK
<1>. QED BY <1>1, <1>2, <1>3, Zenon

-----------------------------------------------------------------------------
(* One lemma for each kind of step.                                        *)

LEMMA StableOK ==
  ASSUME IInv, NEW dst, OutputStable(dst)
  PROVE  IInv'
<1>. DEFINE hop == NextHop(dst)
            i   == SendIndex(hop)
            e   == table[i]
            ask == e.state = "stable" /\ e.ctime >= AgeUnicast
            mac == IF e.ctime >= AgeBroadcast THEN Broadcast ELSE e.eth
<1>1. PICK ok \in BOOLEAN :
        /\ StableMatch(table, hop) # {}
        /\ cached' = i
        /\ table' = IF ask /\ ok THEN [table EXCEPT ![i].state = "rerequesting1"] ELSE table
        /\ out' = IpFrames(hop, e.eth) \cup
                  IF ask THEN ArpFrames(cfg.ip, "request", hop, mac, ok) ELSE {}
        /\ UNCHANGED <<cfg, held, learned>>
  BY DEF OutputStable
<1>2. i \in Slots /\ e.state \in Stable /\ e.ip = hop
  BY <1>1, SendIndexOK
<1>. HIDE DEF hop, i
<1>3. EntryOK(e, learned)
  BY <1>2 DEF IInv, TableOK
<1>4. TableOK(table', learned')
  <2>1. CASE ask /\ ok
    <3>. DEFINE n == [e EXCEPT !.state = "rerequesting1"]
    <3>1. /\ n \in Entry /\ n.state = "rerequesting1" /\ n.ip = e.ip /\ n.eth = e.eth
          /\ n.q = e.q
      BY <1>3 DEF EntryOK, Entry, Stable
    <3>2. table' = [table EXCEPT ![i] = n]
      BY <1>1, <2>1
    <3>. HIDE DEF n
    <3>3. n.state \in Stable /\ n.state # "empty" /\ n.state # "pending" /\ e.state # "pending"
          /\ e.state # "empty"
      BY <1>2, <3>1 DEF Stable
    <3>4. EntryOK(n, learned)
      BY <1>2, <1>3, <3>1, <3>3, Zenon DEF EntryOK
    <3>5. \A j \in Slots : j # i => ~SameAddress(table[j], n)
      <4>1. \A j \in Slots : SameAddress(table[j], e) => j = i
        BY <1>2, Zenon DEF IInv, TableOK
      <4>. QED BY <3>1, <3>3, <4>1 DEF SameAddress
    <3>6. TableOK(table, learned)
      BY DEF IInv
    <3>7. TableOK([table EXCEPT ![i] = n], learned)
      BY <3>3, <3>4, <3>5, <3>6, PutOK
    <3>. QED BY <1>1, <3>2, <3>7
  <2>2. CASE ~(ask /\ ok)
    BY <1>1, <2>2 DEF IInv
  <2>. QED BY <2>1, <2>2
<1>5. FramesToLearned'
  <2>1. ASSUME NEW f \in out', f.kind = "ip" PROVE f.to = learned
    <3>1. f \in IpFrames(hop, e.eth)
      BY <1>1, <2>1, ArpFramesKind
    <3>2. hop = Watched /\ f.to = e.eth
      BY <3>1, IpFramesTo
    <3>. QED BY <1>2, <1>3, <3>2 DEF EntryOK
  <2>. QED BY <1>1, <2>1 DEF FramesToLearned
<1>. QED BY <1>1, <1>2, <1>4, <1>5 DEF IInv

LEMMA NextHopKind ==
  ASSUME IInv, NEW dst \in Addresses, NextHop(dst) # None
  PROVE  NextHop(dst) \in Addresses
BY EtharpAssumption DEF IInv, NextHop

LEMMA QueryOK ==
  ASSUME IInv, NEW dst \in Addresses, QueryPacket(dst)
  PROVE  IInv'
<1>. DEFINE hop == NextHop(dst)
            i   == FindEntry(table, hop)
            e   == Found(table, hop)
<1>1. PICK ok \in BOOLEAN, taken \in BOOLEAN :
        /\ hop # None
        /\ StableMatch(table, hop) = {}
        /\ table' = [table EXCEPT ![i] = [e EXCEPT !.state = "pending",
                                                   !.q = IF taken THEN hop ELSE e.q]]
        /\ out' = IF e.state = "empty" THEN ArpFrames(cfg.ip, "request", hop, Broadcast, ok) ELSE {}
        /\ UNCHANGED <<cached, cfg, learned>>
  <2>1. e \in Entry
    BY FoundOK, NextHopKind DEF IInv, QueryPacket, EntryOK
  <2>. QED BY <2>1 DEF QueryPacket, Entry
<1>2. hop \in Addresses
  BY <1>1, NextHopKind
<1>3. /\ EntryOK(e, learned) /\ e.ip = hop
      /\ \A j \in Slots : j # i /\ table[j].state # "empty" => table[j].ip # hop
  BY <1>2, FoundOK DEF IInv
<1>. HIDE DEF hop, i, e
<1>. DEFINE n == [e EXCEPT !.state = "pending", !.q = IF taken THEN hop ELSE e.q]
<1>4. /\ n \in Entry /\ n.state = "pending" /\ n.ip = hop
      /\ n.q = IF taken THEN hop ELSE e.q
  BY <1>2, <1>3 DEF EntryOK, Entry
<1>5. table' = [table EXCEPT ![i] = n]
  BY <1>1
<1>. HIDE DEF n
<1>6. n.state # "empty" /\ n.state \notin Stable
  BY <1>4 DEF Stable
<1>7. EntryOK(n, learned)
  BY <1>2, <1>3, <1>4, <1>6, Zenon DEF EntryOK
<1>8. \A j \in Slots : j # i => ~SameAddress(table[j], n)
  BY <1>3, <1>4, Zenon DEF SameAddress
<1>9. TableOK(table', learned')
  <2>1. TableOK(table, learned)
    BY DEF IInv
  <2>2. TableOK([table EXCEPT ![i] = n], learned)
    BY <1>6, <1>7, <1>8, <2>1, PutOK
  <2>. QED BY <1>1, <1>5, <2>2
<1>10. FramesToLearned'
  <2>1. ASSUME NEW f \in out' PROVE f.kind # "ip"
    BY <1>1, <2>1, ArpFramesKind
  <2>. QED BY <2>1, Zenon DEF FramesToLearned
<1>. QED BY <1>1, <1>9, <1>10 DEF IInv
(* The sender's entry becomes stable and learned is what it announced; if  *)
(* nothing is updated then no entry is for the sender.                     *)
LEMMA ArpInputOK ==
  ASSUME IInv, NEW op \in {"request", "reply"}, NEW sip, NEW mac \in Macs, NEW target,
         ArpInput(op, sip, mac, target)
  PROVE  IInv'
<1>. DEFINE forUs  == cfg'.ip # Any /\ target = cfg'.ip
            fromUs == cfg'.ip # Any /\ sip = cfg'.ip
            update == sip \in Addresses /\ (forUs \/ Match(table, sip) # {})
            i      == FindEntry(table, sip)
            e      == Found(table, sip)
<1>1. PICK retreat \in BOOLEAN, ok \in BOOLEAN :
        /\ cfg' = IF retreat THEN [ip |-> Any, gw |-> Any] ELSE cfg
        /\ IF update THEN UpdateEntry(sip, mac) ELSE UNCHANGED <<table, held>>
        /\ out' = (IF update THEN Delivered(sip, mac) ELSE {}) \cup
                  IF op = "request" /\ forUs /\ ~fromUs
                  THEN ArpFrames(cfg'.ip, "reply", sip, mac, ok) ELSE {}
        /\ learned' = IF sip = Watched THEN mac ELSE learned
        /\ UNCHANGED cached
  BY DEF ArpInput
<1>2. TableOK(table, learned)
  BY DEF IInv
<1>3. cfg' \in Configs /\ cached' \in Slots /\ learned' \in Macs \cup {None}
  BY <1>1, EtharpAssumption DEF IInv
<1>4. ASSUME update
      PROVE  /\ EntryOK(e, learned) /\ e.ip = sip
             /\ \A j \in Slots : j # i /\ table[j].state # "empty" => table[j].ip # sip
  BY <1>2, <1>4, FoundOK
<1>5. TableOK(table', learned')
  <2>1. CASE update
    <3>. DEFINE n == [e EXCEPT !.state = "stable", !.eth = mac, !.ctime = 0, !.q = None]
    <3>0. table' = [table EXCEPT ![i] = n]
      BY <1>1, <2>1 DEF UpdateEntry
    <3>. HIDE DEF i, e
    <3>1. 0 \in 0 .. MaxAge - 1
      BY EtharpAssumption
    <3>2. n \in Entry /\ n.state = "stable" /\ n.ip = sip /\ n.eth = mac /\ n.q = None
      BY <1>4, <2>1, <3>1 DEF EntryOK, Entry, Stable
    <3>. HIDE DEF n
    <3>3. n.state # "empty"
      BY <3>2
    <3>4. EntryOK(n, learned')
      BY <1>1, <2>1, <3>2, Zenon DEF EntryOK
    <3>5. \A j \in Slots : j # i => ~SameAddress(table[j], n)
      BY <1>4, <2>1, <3>2, Zenon DEF SameAddress
    <3>6. n.ip = Watched \/ learned = learned'
      BY <1>1, <3>2
    <3>7. TableOK([table EXCEPT ![i] = n], learned')
      BY <1>2, <3>3, <3>4, <3>5, <3>6, PutOK
    <3>. QED BY <3>0, <3>7
  <2>2. CASE ~update
    <3>1. table' = table
      BY <1>1, <2>2
    <3>2. sip = Watched => \A j \in Slots : table[j].state # "empty" => table[j].ip # sip
      BY <2>2, Special, Zenon DEF Match
    <3>3. \A j \in Slots : table[j].state \in Stable => table[j].state # "empty"
      BY DEF Stable
    <3>4. \A j \in Slots : EntryOK(table[j], learned')
      BY <1>1, <1>2, <3>2, <3>3, Zenon DEF TableOK, EntryOK
    <3>. QED BY <1>2, <3>1, <3>4, Zenon DEF TableOK
  <2>. QED BY <2>1, <2>2
<1>6. FramesToLearned'
  <2>1. ASSUME NEW f \in out', f.kind = "ip" PROVE f.to = learned'
    <3>1. update /\ f \in Delivered(sip, mac)
      BY <1>1, <2>1, ArpFramesKind
    <3>2. e.q # None /\ f \in IpFrames(e.q, mac)
      BY <3>1, Zenon DEF Delivered
    <3>3. e.q = Watched /\ f.to = mac
      BY <3>2, IpFramesTo
    <3>4. e.q = sip
      BY <1>4, <3>1, <3>2, Zenon DEF EntryOK
    <3>. QED BY <1>1, <3>3, <3>4
  <2>. QED BY <2>1, Zenon DEF FramesToLearned
<1>. QED BY <1>3, <1>5, <1>6, Zenon DEF IInv

LEMMA TmrOK == ASSUME IInv, Tmr PROVE IInv'
<1>1. PICK ok \in BOOLEAN :
        /\ table' = [i \in Slots |-> Aged(table[i])]
        /\ \A f \in out' : \E i \in Slots :
             f \in ArpFrames(cfg.ip, "request", table[i].ip, Broadcast, ok)
        /\ UNCHANGED <<cached, cfg, learned>>
  BY DEF Tmr, InState
<1>2. TableOK(table, learned)
  BY DEF IInv
<1>3. DOMAIN table' = Slots /\ table' = [i \in Slots |-> table'[i]]
      /\ \A i \in Slots : table'[i] = Aged(table[i])
  BY <1>1
<1>4. \A i \in Slots : /\ EntryOK(table'[i], learned)
                       /\ table'[i].state # "empty" =>
                            table[i].state # "empty" /\ table'[i].ip = table[i].ip
  BY <1>2, <1>3, AgedOK, Zenon DEF TableOK
<1>5. TableOK(table', learned)
  BY <1>2, <1>3, <1>4, AllOK
<1>6. ASSUME NEW f \in out' PROVE f.kind # "ip"
  BY <1>1, <1>6, ArpFramesKind
<1>7. FramesToLearned'
  BY <1>6, Zenon DEF FramesToLearned
<1>. QED BY <1>1, <1>5, <1>7 DEF IInv

LEMMA CleanupOK == ASSUME IInv, CleanupNetif PROVE IInv'
<1>1. DOMAIN table' = Slots /\ table' = [i \in Slots |-> table'[i]]
      /\ \A i \in Slots : table'[i] = EmptyEntry
  BY DEF CleanupNetif
<1>2. EmptyEntry.state = "empty"
  BY DEF EmptyEntry
<1>3. TableOK(table', learned)
  BY <1>1, <1>2, EmptyOK, Zenon DEF TableOK, SameAddress
<1>4. FramesToLearned'
  BY DEF FramesToLearned, CleanupNetif
<1>. QED BY <1>3, <1>4 DEF IInv, CleanupNetif

-----------------------------------------------------------------------------
(* The invariant is inductive.                                             *)
LEMMA NextOK == IInv /\ [Next]_vars => IInv'
<1>. SUFFICES ASSUME IInv, [Next]_vars PROVE IInv'
  OBVIOUS
<1>1. CASE UNCHANGED vars
  BY <1>1 DEF vars, IInv, FramesToLearned
<1>2. ASSUME NEW dst \in {Broadcast, Multicast}, OutputGroup(dst) PROVE IInv'
  <2>1. dst # Watched
    BY Special
  <2>2. FramesToLearned'
    BY <1>2, <2>1 DEF OutputGroup, IpFrames, FramesToLearned
  <2>. QED BY <1>2, <2>2 DEF OutputGroup, IInv
<1>3. ASSUME NEW dst \in Addresses, OutputNoRoute(dst) PROVE IInv'
  BY <1>3 DEF OutputNoRoute, IInv, FramesToLearned
<1>4. ASSUME NEW dst \in Addresses, OutputStable(dst) PROVE IInv'
  BY <1>4, StableOK
<1>5. ASSUME NEW dst \in Addresses, QueryPacket(dst) PROVE IInv'
  BY <1>5, QueryOK
<1>6. CASE ArpPacket
  <2>1. PICK op \in {"request", "reply"}, s \in Senders, target \in {cfg.ip, None} :
          ArpInput(op, s.ip, s.mac, target)
    BY <1>6 DEF ArpPacket
  <2>2. s.mac \in Macs
    BY EtharpAssumption
  <2>. QED BY <2>1, <2>2, ArpInputOK
<1>7. CASE Tmr
  BY <1>7, TmrOK
<1>8. ASSUME NEW c \in Configs, SetAddr(c) PROVE IInv'
  BY <1>8 DEF SetAddr, IInv, FramesToLearned
<1>9. CASE CleanupNetif
  BY <1>9, CleanupOK
<1>. QED BY <1>1, <1>2, <1>3, <1>4, <1>5, <1>6, <1>7, <1>8, <1>9, Zenon DEF Next

LEMMA Invariance == Spec => []IInv
BY InitOK, NextOK, PTL DEF Spec

(* An address is in the cache at most once: etharp_find_entry is the only  *)
(* way to make an entry and it finds one that is there.                    *)
THEOREM NeverTwice == Spec => []OneEntryPerAddress
<1>1. IInv => OneEntryPerAddress
  BY Zenon DEF IInv, TableOK, SameAddress, OneEntryPerAddress
<1>. QED BY <1>1, Invariance, PTL

(* A packet waits only on a pending entry, the one of its own next hop,    *)
(* whatever etharp_find_entry recycled.                                    *)
THEOREM WaitsOnItsHop == Spec => []QueuedOnItsHop
<1>1. IInv => QueuedOnItsHop
  BY Zenon DEF IInv, TableOK, EntryOK, QueuedOnItsHop
<1>. QED BY <1>1, Invariance, PTL

(* etharp_output and etharp_update_arp_entry send every unicast IP packet  *)
(* to the hardware address its next hop announced last, even though the    *)
(* cached index is never reset when entries are recycled.                  *)
THEOREM SentToLearned == Spec => []FramesToLearned
<1>1. IInv => FramesToLearned
  BY DEF IInv
<1>. QED BY <1>1, Invariance, PTL
=============================================================================
