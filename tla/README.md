# Verification of baremetal-lwip

TLA+ models of the parts of this repository that keep state, the TLC
configurations that check them on small instances, and TLAPS proofs for the
timer list and the ARP cache. The code is the reference: every definition that
stands for code names the lines it stands for in `PROJECT.json` (`map`).

## The system

The program is a single-threaded network node on a VersatilePB board. `main.c`
calls into `app.c`, which resets the LAN91C111 Ethernet chip, configures one
interface and then loops for ever: `nr_lan91c111_check_for_events` polls the
chip and hands frames to the stack, and `sys_check_timeouts` runs the timers
(`NO_SYS=1`, no threads, no interrupt handlers). What runs concurrently with the
program is the hardware, the network and the clock.

```
 wire <-> LAN91C111 <-> eth_driver.c <-> app.c (process_frames, netif_output)
                                            |
                 etharp.c   ip4.c/udp.c/tcp*.c   dhcp.c acd.c autoip.c dns.c sntp.c
                                            |
                            timeouts.c   memp.c mem.c pbuf.c
```

| Part | Source (below `src/`) | State it keeps | Module | Status |
|---|---|---|---|---|
| Ethernet driver, glue, main loop | `platform/eth_driver.c`, `app/app.c` | chip FIFOs and MMU, register bank, transmit packet, pbuf pool | `EthDriver`, `FrameQueue` | receive, transmit, reset |
| Timer list | `lwip/src/core/timeouts.c` | sorted list of wrapped times, TCP timer flag | `Timeouts`, `TimeoutsProofs` | complete |
| ARP | `lwip/src/core/ipv4/etharp.c` | table, packet queues, cached index | `Etharp`, `EtharpProofs` | complete for this build, except queries without a packet |
| DHCP client | `lwip/src/core/ipv4/dhcp.c` | state, tries, three lease timers, transaction number | `Dhcp` | state machine and timers |
| SNTP client | `lwip/src/apps/sntp/sntp.c` | server table, current server, two timers | - | planned |
| Conflict detection, AutoIP | `lwip/src/core/ipv4/acd.c`, `autoip.c` | probe/announce/defend state machine | - | planned |
| IPv4 fragmentation, reassembly | `lwip/src/core/ipv4/ip4_frag.c` | datagram list, fragment chains, pbuf count, timer | `Reass` | complete |
| Memory | `lwip/src/core/memp.c`, `mem.c`, `pbuf.c` | pools, heap, reference counts | - | planned |
| TCP | `lwip/src/core/tcp.c`, `tcp_in.c`, `tcp_out.c`, `altcp*.c` | control block lists, send and out-of-sequence queues, timers | - | planned |
| DNS | `lwip/src/core/dns.c` | query table, pcb pool, retries | - | planned |
| UDP, RAW, interfaces | `lwip/src/core/udp.c`, `raw.c`, `netif.c` | pcb lists, interface flags and addresses | - | planned |
| IPv4, ICMP, Ethernet framing | `lwip/src/core/ipv4/ip4.c`, `icmp.c`, `netif/ethernet.c` | (almost) none | - | stateless, not planned |
| Checksums, byte order | `lwip/src/core/inet_chksum.c`, `def.c` | none | - | as operators, if at all |
| Sequential and socket API | `lwip/src/api/` | - | - | compiled to nothing by `NO_SYS=1` |
| IPv6, PPP, SNMP, HTTP, MQTT, mDNS, ... | rest of `lwip/` | - | - | not built by the Makefile |

## Modules

### EthDriver, FrameQueue

One sequential program (`pc`) against a chip that acts between any two register
accesses: it receives (`ChipReceive`) or overruns (`ChipOverrun`), finishes a
transmission (`ChipSent`, `ChipTxFailed`), finishes an MMU release
(`ChipReleaseDone`). The driver's actions follow `nr_lan91c111_reset`
(`ResetChip` .. `AllocAnswer`), `nr_lan91c111_check_for_events` (`Enter` ..
`GoHome`), `process_frames` (`ProcessFrame`), `netif_output` and
`nr_lan91c111_tx_frame` (`NetifOutput`, `TxIrqOff` .. `TxReturn`). A step is one
access the chip can race with. A frame is a direction, a serial number, an error
bit and a length; lengths matter because the length arithmetic of the driver
(control byte, odd frames, error frames) is modelled in full, 16-bit truncation
included. The chip is external code: its behaviour is what the driver relies on.

`FrameQueue` is what the receive side promises: a queue that hands over or drops
the oldest frame and never invents, repeats or reorders one. `EthDriver` is
checked to implement it (`ImplementsFrameQueue`); the queue is the RX FIFO,
preceded by the frame in `g_frame_buffer` once its packet is released.

### Timeouts, TimeoutsProofs

All of `timeouts.c`. Times wrap at `W`; beside the wrapped `time` that the code
compares, each entry carries `left`, the ticks until it is really due, which only
the properties look at. `sys_check_timeouts` is split into its loop steps and the
run of a handler, during which the clock moves and timers are started and
stopped. `sys_timeouts_sleeptime`, `sys_restart_timeouts`, the cyclic timers'
catch-up rule and the on-demand TCP timer are included.

### Etharp, EtharpProofs

`etharp_output`, `etharp_query`, `etharp_input`, `etharp_tmr`,
`etharp_cleanup_netif` and the effect of a change of address, over a table of
slots with state, age and at most one waiting packet (`ARP_QUEUEING` is 0). An
address is a next hop; a packet is the address it is for. `held` counts the pbuf
references that were taken and not given back, `out` is what the last step sent
for one address (`Watched`, which may be any), and `learned`, a history variable,
what that address last announced. `Senders` says which stations announce which
addresses; the proofs hold for any.

### Dhcp

The client's operations are functions from `struct dhcp` (with the interface
address) to `struct dhcp`, so that handlers that call one another
(`dhcp_timeout` - `dhcp_release_and_stop` - `dhcp_start` - `dhcp_discover`)
compose as they do in the code. The lease timers are kept in full in coarse
timer periods, the request timeout as running or not. The network is modelled by
`sent`, the messages of the present transaction, each of which may be answered at
any time, repeatedly, or never. `left` is the true remaining lease. `calm` marks
the moment after which servers no longer refuse, memory no longer runs out and
the link stays up.

### Reass

`ip4_frag` is the function `Cut`; what it yields, for every MTU of the instance
and once more on the way, is what can arrive. Any of these fragments may reach
`ip4_reass` (`Input`) at any time, which covers loss, repetition and reordering.
`Input` is the whole handler: room for the pbufs, the search for the datagram or
its allocation, both at the expense of the oldest ones, the insertion, and the
five ways it returns. `ip_reass_tmr` is `Tmr`. Bytes are not kept: a fragment's
bytes are those of its datagram between `start` and `end`. `header` is the offset
of the fragment whose header is kept. `out` is what the last call returned or
sent by ICMP.

## Runs

| Run | Instance | Shows |
|---|---|---|
| `eth_driver` | 4 packets, 3 receptions of two lengths, 1 transmission | bank discipline, FIFO never empty when read, packet conservation, order, errors kept out, every frame accounted for, refinement of `FrameQueue` |
| `eth_stall` | 3 packets, MMU may outlast the poll limit, unknown chip identity | transmit packet never freed, wire order, every received frame is taken off the chip (liveness) |
| `timeouts` | `W` = 11, two cyclic timers, TCP timer, a one-shot, clock may run 2 late | order across wraparound, no early call, no lost or doubled timer, exact sleep time, cyclic timers fire for ever, TCP timer stops |
| `etharp` | 2 slots, 4 addresses, a gateway that moves between 2 stations, address changes | one entry per address, no frame to a stale station, no packet lost silently or sacrificed needlessly, pending ends |
| `dhcp` | 2 addresses; leases of 1, 2 and 6 periods | never silent, renewal before expiry, an address once the network is calm |
| `reass` | 3 datagrams of 7, 5 and 3 bytes, blocks of 2, MTUs of 2 and 4, 5 pbufs, 2 structures | what is delivered is what was sent, nothing complete stays queued, exact pbuf count, the first header, the oldest is sacrificed, every reassembly ends |
| `eth_overwrite`, `eth_error_frame`, `eth_alloc_failed`, `dhcp_supplied`, `dhcp_lease`, `reass_mtu` | as small as the case needs | disagreements between comments and code, below |

Bounds. The chip really has 4 packets; three receptions fill it beside the
transmit packet, so that overrun, release and reception race. `Timeouts` needs
`2 * (MaxInterval + MaxLate) < W`, which the assumption states; 11 is the
smallest width for the intervals used, so that every comparison is near its
limit. With two ARP slots and four addresses insertions recycle all the time.
DHCP's constants scale 2^32 seconds, 60 seconds and 65535 periods down to 256, 2
and 15 and keep their order: an endless lease still gives T1 and T2 at the cap.
`Reass` scales blocks of 8 bytes to 2, and has one datagram too large for the
pbuf limit, one that just fits and one small one. The build has a single
`struct ip_reassdata` (`MEMP_NUM_REASSDATA`); the run has two, so that datagrams
compete and the choice of the oldest matters. `W` is far above the sizes: the
senders are correct, so the checks for overflow in `Wraps` never apply.

Fairness. The only process is the main loop, so weak fairness of its steps says
that the program runs. It holds for a bounded number of arrivals: the receive
loop itself has no bound (see below). In `Timeouts` the clock advances and
`sys_check_timeouts` is called again and again. In `Etharp`, `Dhcp` and `Reass` the
timers fire, which is what `CyclicFires` shows of the timer list. `Dhcp` also assumes
that a link that is down comes up, and that a request repeated for ever is in the
end answered (strong fairness of `Offer` and `Ack`); without this no protocol
over a lossy network obtains anything.

`CHECK_DEADLOCK FALSE` is used for `Etharp` only: an idle cache has nothing to do.

## Proofs

`TimeoutsProofs` proves, for every clock width, interval table, delay set, pool
size and lateness that satisfy `TimeoutsAssumption`:

* `TypeCorrect`: no handler is later than `MaxLate`, nothing leaves its range;
* `AlwaysSorted`: `time` agrees with the moment an entry is due, and the list is
  in true order although only wrapped times are compared;
* `NeverEarly`: no handler is called that was not due when `sys_check_timeouts`
  was entered;
* `SleepTimeCorrect`: `sys_timeouts_sleeptime` is exact;
* `NoTimerLost`: if the pool has room for every handler, each started cyclic
  timer is in the list exactly once or running, and the TCP timer exactly while
  its flag is set.

Sortedness alone is not inductive: the wrapped comparison is only right for two
times less than half the range apart. `IInv` adds that every entry lies between
`-MaxLate` and `MaxInterval` ticks from now, that the list's order is the true
order, and what `checkNow`, `due` and `late` mean while a check or a handler is
in progress. `TimeLess` is then shown to compare `left`, insertion to keep the
order, and each action to keep `IInv`. `NoTimerLost` adds `Once`, which counts
entries by handler. All leaves are first-order or linear arithmetic; facts about
records of integers are split into an arithmetic lemma and its instance.

`EtharpProofs` proves, for every table size, set of addresses and stations, and
ages that satisfy `EtharpAssumption`:

* `NeverTwice`: an address has at most one entry;
* `WaitsOnItsHop`: a packet waits only on the pending entry of its next hop;
* `SentToLearned`: unicast packets go to the station their next hop announced
  last.

The last one is not inductive: nothing in it speaks of the table. `IInv` adds
that every stable entry for `Watched` holds what it announced last, which in turn
needs the other two: with two entries an update could miss one, and a packet on a
foreign entry would be sent to the wrong station. A useful consequence of the
proof is that none of this depends on which entry is recycled.

Only model-checked: everything about liveness (`CyclicFires`, `TcpTimerStops`,
`RxDrained`, `PendingEnds`, `GetsAddress`, `ReassemblyEnds`), which needs fairness and `ENABLED`,
the reference counts and the choice of the victim in `Etharp` (`PacketsConserved`,
`PacketsSacrificedLast`), and, so far, `EthDriver`, `Dhcp` and `Reass`.

## What the checks found

Each has a run that exhibits it and an entry in `findings`.

* `eth_overwrite`: `ever_sent_packet` is never set, so "Be sure previous packet
  is gone" is never tested and a frame the chip has not sent yet is overwritten.
* `eth_error_frame`: a frame in error gets length 0, the control byte makes it
  negative, and it is passed on instead of being "tossed out". It does not reach
  the stack because no pbuf of 65534 bytes can be had (`ErrorsStayOut`).
* `eth_alloc_failed`: `AR_FAILED` is tested in the wrong byte, so a failed
  allocation of the transmit packet goes unnoticed.
* `dhcp_supplied`: after a refusal T1 and T2 keep running; firing during the new
  negotiation they move it to RENEWING or REBINDING, which claim an address that
  is not there.
* `dhcp_lease`: a lease that ends while it is verified after a link change, or
  in the discovery that follows, leaves its address on the interface. The driver
  of this port reports no link changes, so here it takes another caller of
  `netif_set_link_up`.

* `reass_mtu`: `ip4_frag` rounds the size of a fragment down to 8 bytes but not
  the test for the last one. With an MTU such as 1400 (`app.c` takes any) and 1377
  to 1380 bytes left, the last fragment but one goes out without `IP_MF`, and the
  receiver takes it for the end. With 1500 the two agree.

Observed while modelling, without a run of their own:

* `sys_now()` in `arch/cc.h` returns 0, so in this port no timer fires until a
  system timer is added; the model's clock advances as in `test_timers.c`.
* The receive loop of `check_for_events` is unbounded: a chip that receives as
  fast as it is read keeps the timers from running.
* A transmit error stops the transmitter and nothing enables it again.
* SNTP can hold two timers after a kiss-of-death answer: with six cyclic timers
  and the TCP timer that is nine, and `MEMP_NUM_SYS_TIMEOUT` is 8. `NoTimerLost`
  needs a pool that suffices.
* `dhcp.c`: a comment in `dhcp_network_changed_link_up` says that SELECTING
  continues "with current 'rid'", but `tries` has just been set to 0 and the next
  message takes a new number. The `t1_timeout = 0` for short leases has no effect
  since `t1_renew_time` is already set. A lease without end leaves an earlier
  `t0_timeout` running. `offered_t0_lease * 7U` wraps for leases above 19 years.
* `app.c` passes a static `struct dhcp` with `dhcp_set_struct` before `netif_add`,
  which clears `client_data`; `dhcp_start` then allocates one from the heap.
  `app.c` describes its default as "DHCP with fallback to AutoIP", but
  `LWIP_DHCP_AUTOIP_COOP` is 0 and AutoIP is not started in that mode.
* `ip4_frag.c`: when the structures are used up, `ip_reass_enqueue_new_datagram`
  frees datagrams, but drops the fragment all the same if they held fewer pbufs
  than it has (a disjunct of `Input`). `ip_reass_remove_oldest_datagram` frees as
  many pbufs as the fragment has, even when fewer are missing.
* `etharp.c`: a comment in `etharp_query` says requests are not re-sent by
  `etharp_tmr`, which re-sends them; the comment on `ARP_MAXPENDING` says 10
  seconds for what is 5.

## Not modelled

In the driver: MII/PHY access, EEPROM, MAC address and diagnostics. In DHCP:
option parsing and `dhcp_inform`, `dhcp_cleanup`; an ACK is assumed to carry a
lease time and to grant the address requested, T1 and T2 take their defaults, and
the client's UDP control block is assumed to be available. In ARP: static entries
(not built) and `etharp_query` without a packet (no caller). The configuration
menu and tables of `app.c`. Everything the table above lists as planned.

## Plan

Next, in this order:

1. `Sntp`: poll, retry and server rotation, with the timers it takes from the pool.
2. Proofs for `Reass`: `CountExact` and `DeliveredWhole` from an invariant on
   sorted, disjoint fragments.
3. `Pbuf`/`Memp`: chains and reference counts against an abstract owner count;
   the pool as an abstract specification implemented by the free list.
4. `Tcp`: connection states of two ends over a lossy network; send, unacked and
   out-of-sequence queues; sequence arithmetic modulo 2^32 with lemmas proved;
   the slow timer's back-off and the persist timer.
5. `Acd`: probing, announcing and defending by two hosts that want one address.
6. `Dns`: query table, retries, server rotation and time to live.
7. Composition: DHCP, ARP and SNTP over one `Timeouts`, to justify the fairness
   that each now assumes and the size of the timer pool.
