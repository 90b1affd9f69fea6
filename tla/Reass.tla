------------------------------- MODULE Reass -------------------------------
(***************************************************************************)
(* IPv4 fragmentation and reassembly, src/lwip/src/core/ipv4/ip4_frag.c,   *)
(* as this port builds it: IP_REASS_CHECK_OVERLAP = IP_REASS_FREE_OLDEST   *)
(* = LWIP_ICMP = 1.                                                        *)
(*                                                                         *)
(* The senders cut their datagrams with ip4_frag, whole or once more on    *)
(* the way, for any of the sizes in Mtus.  The network loses, repeats,     *)
(* delays and reorders: any fragment may reach ip4_reass at any time.      *)
(*                                                                         *)
(* Lengths are bytes of payload, without the IP header; Block is the unit  *)
(* of the offset field (8).  A key stands for source, destination and      *)
(* identification.  A fragment that is queued keeps only what struct       *)
(* ip_reass_helper keeps of it; its bytes are those of its datagram from   *)
(* start to end.                                                           *)
(***************************************************************************)
EXTENDS Integers, Sequences, SequencesExt

CONSTANTS
  Keys,          \* the datagrams
  Size,          \* their lengths
  Mtus,          \* the payload of the largest packet, on the links in use
  Block,         \* the unit of the fragment offset
  BufSize,       \* payload bytes of one pbuf
  W,             \* u16_t wraps here
  HeaderLength,  \* IP_HLEN
  MaxPbufs,      \* IP_REASS_MAX_PBUFS
  NumReassdata,  \* MEMP_NUM_REASSDATA
  MaxAge         \* IP_REASS_MAXAGE

ASSUME ReassAssumption ==
  /\ {Block, BufSize, W, HeaderLength, MaxPbufs, NumReassdata} \subseteq Nat \ {0}
  /\ MaxAge \in Nat
  /\ Size \in [Keys -> 1 .. W - 1 - HeaderLength]
  /\ \A mtu \in Mtus : mtu \in Nat /\ mtu >= Block

VARIABLES
  reass,    \* reassdatagrams, the newest first
  count,    \* ip_reass_pbufcount
  out       \* what the last call returned or sent

vars == <<reass, count, out>>

Init == reass = <<>> /\ count = 0 /\ out = {}

-----------------------------------------------------------------------------
(* ip4_frag.                                                               *)

(* The fragments of len bytes that begin at block ofo of datagram k.  mf   *)
(* is the flag of the packet that is cut.  Where the code runs out of      *)
(* memory it leaves the rest unsent, which is a loss like any other.       *)
Cut(k, ofo, len, mf, mtu) ==
  LET nfb == mtu \div Block
      F[left \in 0 .. len, o \in 0 .. W] ==
        IF left = 0 THEN {}
        ELSE LET size == Min({left, nfb * Block})
             IN  {[key |-> k, start |-> o * Block, end |-> o * Block + size,
                   mf |-> mf \/ left > mtu]} \cup F[left - size, o + nfb]
  IN F[len, ofo]

(* ip4_output_if cuts what is larger than the MTU.                         *)
Pieces(p, mtu) ==
  IF p.end - p.start <= mtu THEN {p}
  ELSE Cut(p.key, p.start \div Block, p.end - p.start, p.mf, mtu)

Datagram(k) == [key |-> k, start |-> 0, end |-> Size[k], mf |-> FALSE]

(* ip4_input passes on what has an offset or the flag.                     *)
Fragments ==
  {f \in UNION {UNION {Pieces(p, mtu) : p \in Pieces(Datagram(k), first)} :
                  k \in Keys, first \in Mtus, mtu \in Mtus} : f.start # 0 \/ f.mf}

-----------------------------------------------------------------------------
(* The queue of datagrams.                                                 *)

(* pbuf_clen of a fragment.                                                *)
Pbufs(f) == (f.end - f.start + BufSize - 1) \div BufSize

(* The pbufs of a datagram.                                                *)
Held(d) == FoldFunction(+, 0, [i \in DOMAIN d.frags |-> Pbufs(d.frags[i])])

(* Mutant: the youngest datagram is freed.                                 *)
OldestYoung(q, k) ==
  LET S == {i \in DOMAIN q : q[i].key # k}
  IN  CHOOSE i \in S : \A j \in S : q[i].timer > q[j].timer \/ (q[i].timer = q[j].timer /\ i <= j)

(* The last of the oldest datagrams other than k.                          *)
Oldest(q, k) ==
  LET S == {i \in DOMAIN q : q[i].key # k}
  IN  CHOOSE i \in S : \A j \in S : q[i].timer < q[j].timer \/ (q[i].timer = q[j].timer /\ i >= j)

(* ip_reass_remove_oldest_datagram: datagrams other than k are freed until *)
(* that gave as many pbufs as are needed, or none is left.                 *)
RemoveOldest(q, k, needed) ==
  LET others == Len(SelectSeq(q, LAMBDA d : d.key # k))
      R[n \in 0 .. others] ==
        IF n = 0 THEN [q |-> q, freed |-> 0]
        ELSE LET i == Oldest(R[n - 1].q, k)
             IN  [q |-> RemoveAt(R[n - 1].q, i), freed |-> R[n - 1].freed + Held(R[n - 1].q[i])]
  IN  IF others = 0 THEN R[0]
      ELSE R[Min({n \in 1 .. others : R[n].freed >= needed \/ n = others})]

(* ip_reass_free_complete_datagram sends ICMP time exceeded for a datagram *)
(* whose first fragment is there, with the header that was kept.           *)
Exceeded(q) ==
  {[kind |-> "exceeded", key |-> q[i].key, header |-> q[i].header] :
     i \in {j \in DOMAIN q : q[j].frags[1].start = 0}}

Gone(q, r) == SelectSeq(q, LAMBDA d : \A i \in DOMAIN r : r[i].key # d.key)

(* The first part of ip4_reass: room for the fragment's pbufs.             *)
Room(f) ==
  IF count + Pbufs(f) > MaxPbufs THEN RemoveOldest(reass, f.key, Pbufs(f))
  ELSE [q |-> reass, freed |-> 0]

(* Mutant: only the newest datagram is compared.                           *)
IndexFirst(q, k) == IF q # <<>> /\ q[1].key = k THEN 1 ELSE 0

(* The datagram a fragment belongs to, or 0.                               *)
Index(q, k) == SelectInSeq(q, LAMBDA d : d.key = k)

(* Mutant: any fragment restarts the timer.                                *)
WithHeaderRestart(d, f) ==
  [d EXCEPT !.timer = MaxAge, !.header = IF f.start = 0 THEN 0 ELSE @]

(* Mutant: the header of the fragment that came first is kept.             *)
WithHeaderKept(d, f) == d

(* The header of the first fragment replaces that of a later one.          *)
WithHeader(d, f) ==
  IF f.start = 0 /\ d.header # 0 THEN [d EXCEPT !.header = 0] ELSE d

NewDatagram(f) ==
  [key |-> f.key, timer |-> MaxAge, frags |-> <<>>, last |-> FALSE, len |-> 0,
   header |-> f.start]

(* The second part: the queue with the fragment's datagram in it, or as it *)
(* is when that can not be allocated (ip_reass_enqueue_new_datagram).      *)
Entered(q, f) ==
  LET i == Index(q, f.key)
      r == IF Len(q) < NumReassdata THEN [q |-> q, freed |-> 0]
           ELSE RemoveOldest(q, f.key, Pbufs(f))
  IN  IF i # 0 THEN [q |-> [q EXCEPT ![i] = WithHeader(@, f)], freed |-> 0]
      ELSE IF Len(q) < NumReassdata \/ r.freed >= Pbufs(f)
      THEN [q |-> <<NewDatagram(f)>> \o r.q, freed |-> r.freed]
      ELSE r

-----------------------------------------------------------------------------
(* ip_reass_chain_frag_into_datagram_and_validate.                         *)

(* Where the fragment goes: before the first that begins after it.         *)
Place(fs, f) ==
  LET i == SelectInSeq(fs, LAMBDA g : f.start < g.start)
  IN  IF i = 0 THEN Len(fs) + 1 ELSE i

Wraps(f) == (f.end % W) < f.start \/ (~f.mf /\ f.end % W > W - 1 - HeaderLength)

(* It overlaps one that was passed, or the one that follows.               *)
Overlaps(fs, f) ==
  \/ \E j \in 1 .. Place(fs, f) - 1 : f.start = fs[j].start \/ f.start < fs[j].end
  \/ Place(fs, f) <= Len(fs) /\ f.end > fs[Place(fs, f)].start

(* Mutant: that the last fragment was seen is forgotten.                   *)
ChainedForgets(d, f) ==
  [d EXCEPT !.frags = InsertAt(@, Place(@, f), [start |-> f.start, end |-> f.end]),
            !.last  = ~f.mf,
            !.len   = IF f.mf THEN @ ELSE f.end]

Chained(d, f) ==
  [d EXCEPT !.frags = InsertAt(@, Place(@, f), [start |-> f.start, end |-> f.end]),
            !.last  = @ \/ ~f.mf,
            !.len   = IF f.mf THEN @ ELSE f.end]

(* Mutant: a hole between two fragments is overlooked.                     *)
FinishedWithHole(d) == d.last /\ d.frags[1].start = 0

(* The last fragment is there, the first one is, and no two have a hole    *)
(* between them.                                                           *)
Finished(d) ==
  /\ d.last
  /\ d.frags[1].start = 0
  /\ \A i \in 1 .. Len(d.frags) - 1 : d.frags[i].end = d.frags[i + 1].start

-----------------------------------------------------------------------------
(* ip4_reass, by the way it returns.                                       *)
Input(f) ==
  LET room    == Room(f)
      crowded == /\ count + Pbufs(f) > MaxPbufs
                 /\ room.freed = 0 \/ count - room.freed + Pbufs(f) > MaxPbufs
      ready   == Entered(room.q, f)
      q       == ready.q
      i       == Index(q, f.key)
      left    == count - room.freed - ready.freed
      drop    == Wraps(f) \/ Overlaps(q[i].frags, f)
      d       == Chained(q[i], f)
  IN \/ (* too many pbufs are queued, even after others were freed *)
        /\ crowded
        /\ reass' = room.q
        /\ count' = count - room.freed
        /\ out' = Exceeded(Gone(reass, room.q))
     \/ (* no struct ip_reassdata can be had *)
        /\ ~crowded /\ i = 0
        /\ reass' = q
        /\ count' = left
        /\ out' = Exceeded(Gone(reass, q))
     \/ (* the fragment is dropped, and a datagram that has no other *)
        /\ ~crowded /\ i # 0 /\ drop
        /\ reass' = IF q[i].frags = <<>> THEN RemoveAt(q, i) ELSE q
        /\ count' = left
        /\ out' = Exceeded(Gone(reass, q))
     \/ (* it is queued *)
        /\ ~crowded /\ i # 0 /\ ~drop /\ ~Finished(d)
        /\ reass' = [q EXCEPT ![i] = d]
        /\ count' = left + Pbufs(f)
        /\ out' = Exceeded(Gone(reass, q))
     \/ (* it is the last one that was missing *)
        /\ ~crowded /\ i # 0 /\ ~drop /\ Finished(d)
        /\ reass' = RemoveAt(q, i)
        /\ count' = left + Pbufs(f) - Held(d)
        /\ out' = Exceeded(Gone(reass, q)) \cup
                  {[kind |-> "datagram", key |-> d.key, header |-> d.header,
                    len |-> d.len, frags |-> d.frags]}

(* Mutant: pbufs of datagrams that timed out are not given back.           *)
TmrKeeps ==
  LET live == SelectSeq(reass, LAMBDA d : d.timer > 0)
  IN /\ reass' = [i \in DOMAIN live |-> [live[i] EXCEPT !.timer = @ - 1]]
     /\ count' = count
     /\ out' = Exceeded(SelectSeq(reass, LAMBDA d : d.timer = 0))

(* ip_reass_tmr.                                                           *)
Tmr ==
  LET dead == SelectSeq(reass, LAMBDA d : d.timer = 0)
      live == SelectSeq(reass, LAMBDA d : d.timer > 0)
  IN /\ reass' = [i \in DOMAIN live |-> [live[i] EXCEPT !.timer = @ - 1]]
     /\ count' = count - FoldFunction(+, 0, [i \in DOMAIN dead |-> Held(dead[i])])
     /\ out' = Exceeded(dead)

Next == (\E f \in Fragments : Input(f)) \/ Tmr

Spec == Init /\ [][Next]_vars

(* The timer list calls ip_reass_tmr again and again.                      *)
FairSpec == Spec /\ WF_vars(Tmr)

-----------------------------------------------------------------------------
(* The list has no more structures than their pool and no two for one      *)
(* datagram, none without a fragment, and the limit on pbufs is kept.      *)
TypeOK ==
  /\ Len(reass) <= NumReassdata
  /\ \A i \in DOMAIN reass :
       /\ reass[i].key \in Keys /\ reass[i].timer \in 0 .. MaxAge
       /\ reass[i].last \in BOOLEAN /\ reass[i].len \in 0 .. W - 1
       /\ reass[i].frags # <<>>
       /\ \A j \in DOMAIN reass : reass[i].key = reass[j].key => i = j
  /\ count \in 0 .. MaxPbufs

(* ip_reass_pbufcount is the number of pbufs that are queued: datagrams    *)
(* that are completed, freed for others or timed out give back what their  *)
(* fragments took, no more and no less.                                    *)
CountExact == count = FoldFunction(+, 0, [i \in DOMAIN reass |-> Held(reass[i])])

(* ip4_reass returns exactly the datagram that was sent, whichever way it  *)
(* was cut and in whichever order the fragments came: every byte once and  *)
(* in order, and the length of the original.                               *)
DeliveredWhole ==
  \A o \in out : o.kind = "datagram" =>
    /\ o.frags[1].start = 0 /\ o.frags[Len(o.frags)].end = Size[o.key]
    /\ \A i \in 1 .. Len(o.frags) - 1 : o.frags[i].end = o.frags[i + 1].start
    /\ o.len = Size[o.key]

(* A datagram of which every byte is there is not left in the queue: the   *)
(* fragment that closed the last hole, wherever it was, completed it.      *)
Bytes(d) == UNION {d.frags[i].start .. d.frags[i].end - 1 : i \in DOMAIN d.frags}

NoneComplete ==
  \A i \in DOMAIN reass : Bytes(reass[i]) # 0 .. Size[reass[i].key] - 1

(* What is delivered, and what ICMP reports, carries the header of the     *)
(* first fragment, even if that came later than others.                    *)
FirstHeader == \A o \in out : o.header = 0

(* A datagram that is freed to make room is not younger than any that      *)
(* stays, except the one the fragment belongs to.                          *)
Stays(q, k) == \E i \in DOMAIN q : q[i].key = k

SacrificesOldest ==
  [][\A f \in Fragments :
       LET others == {i \in DOMAIN reass : reass[i].key # f.key}
           kept   == {i \in others : Stays(reass', reass[i].key)}
       IN  (\E i \in others \ kept, j \in kept : reass[i].timer > reass[j].timer) => ~Input(f)]_vars

(* No reassembly lasts for ever, however many repeated fragments arrive:   *)
(* they do not restart the timer.                                          *)
ReassemblyEnds == \A k \in Keys : Stays(reass, k) ~> ~Stays(reass, k)
=============================================================================
