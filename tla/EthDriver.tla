------------------------------ MODULE EthDriver ------------------------------
(***************************************************************************)
(* The polled LAN91C111 driver of the port (platform/eth_driver.c), the    *)
(* two functions of app/app.c that connect it to the stack                 *)
(* (process_frames, netif_output) and the main loop, running against the   *)
(* Ethernet chip.                                                          *)
(*                                                                         *)
(* The chip works by itself: between any two register accesses of the      *)
(* driver it may receive a frame, finish a transmission or finish an MMU   *)
(* command.  The driver is one sequential program whose program counter    *)
(* is pc; a step of it is one register access that the chip can race with, *)
(* together with the accesses around it that it cannot.                    *)
(*                                                                         *)
(* A frame is a record: the direction it travels in, a serial number, the  *)
(* error bits of its receive status (RS_ERRORS, as one Boolean) and its    *)
(* length in bytes without the chip's status, count and control words.     *)
(***************************************************************************)
EXTENDS Integers, Sequences, FiniteSets

CONSTANTS
  NumPackets,   \* packets of the chip's MMU (4 segments of 2 kB)
  PoolSize,     \* PBUF_POOL_SIZE
  PoolBufSize,  \* PBUF_POOL_BUFSIZE
  Lengths,      \* lengths of the frames on the wire
  MaxRx,        \* bound: frames the chip accepts
  MaxTx,        \* bound: frames the stack transmits
  MmuStall,     \* may the MMU stay busy for the 1000000 polls of one wait?
  Identity      \* outcomes of the chip identity check: a subset of BOOLEAN

ASSUME EthAssumption ==
  /\ NumPackets \in Nat \ {0} /\ NumPackets <= 64
  /\ PoolSize \in Nat \ {0} /\ PoolBufSize \in Nat \ {0}
  /\ PoolSize * PoolBufSize < 65534
  /\ Lengths \subseteq 14 .. 1514
  /\ MaxRx \in Nat /\ MaxTx \in Nat
  /\ MmuStall \in BOOLEAN /\ Identity \subseteq BOOLEAN

VARIABLES
  \* the chip
  mmu,      \* what the MMU holds each packet for: "free", "rx" or "tx"
  mem,      \* the frame in each packet's memory
  rxFifo,   \* packets received and not released, oldest first
  txFifo,   \* packets enqueued for transmission
  relBusy,  \* MC_RELEASE commands not completed; MC_BUSY is relBusy # 0
  arr,      \* allocation result register
  rxOvrn, ephInt, txInt,   \* bits of the interrupt register
  rxEn, txEn,              \* RCR_RXEN and TCR_ENABLE
  bank,     \* bank select register
  ptr,      \* what the pointer register points into
  \* the driver and the application
  pc,
  sls,      \* s_lan91c111_state
  result,   \* result of nr_lan91c111_reset; the main loop ignores the
            \* result of check_for_events
  savedBank, savedPtr,     \* saved_bank and saved_pointer
  cur,      \* the frame in g_frame_buffer
  status,   \* the error bits read from the frame's status word
  frameLength,             \* frame_length of check_for_events
  oldIrq, ret,             \* old_irq of tx_frame, and its return address
  pool, held,              \* pool pbufs free, and held inside the stack
  linkDrop,                \* lwip_stats.link.drop
  ooseqPending,            \* pbuf_free_ooseq_pending
  \* history
  nrx, ntx,                \* frames received and transmitted so far
  granted,                 \* did MC_ALLOC get a packet at once?
  nread,                   \* packets read and released since boot
  input,                   \* frames handed to e0netif.input
  wire                     \* frames the chip transmitted

mmuVars   == <<mmu, rxFifo, relBusy, arr>>
intVars   == <<rxOvrn, ephInt, txInt>>
enVars    == <<rxEn, txEn>>
regVars   == <<bank, ptr>>
chipVars  == <<mmuVars, mem, txFifo, intVars, enVars, regVars>>
iterVars  == <<cur, status, frameLength>>
rxVars    == <<savedBank, savedPtr, iterVars>>
callVars  == <<oldIrq, ret>>
drvVars   == <<sls, result, rxVars, callVars>>
appVars   == <<pool, held, linkDrop, ooseqPending>>
countVars == <<nrx, ntx, nread, input, wire>>
histVars  == <<countVars, granted>>
vars      == <<chipVars, pc, drvVars, appVars, histVars>>

-----------------------------------------------------------------------------
Packets   == 0 .. NumPackets - 1
AR_FAILED == 128
NoFrame   == [dir |-> "none", id |-> 0, err |-> FALSE, len |-> 0]
Frame     == [dir : {"none", "rx", "tx"}, id : Nat, err : BOOLEAN, len : Nat]
FreePkts  == {p \in Packets : mmu[p] = "free"}
LowestFree == CHOOSE p \in FreePkts : \A q \in FreePkts : p <= q
U16(n)    == n % 65536

(* Reads through the pointer register in receive mode come from the packet *)
(* at the top of the RX FIFO.                                              *)
RxHead    == IF rxFifo = <<>> THEN NoFrame ELSE mem[Head(rxFifo)]

(* The 16-bit word at the packet number register: the allocation result in *)
(* the high byte, the packet number in the low byte, which nothing has     *)
(* written when r_allocate_tx_packet reads it.                             *)
PnrWord   == arr * 256

BootPcs == {"reset", "enable", "mcreset", "mcalloc", "pnr", "promisc"}
RxPcs   == {"ovrn", "eph", "rxtest", "fifo", "header", "data", "release",
            "poll", "process", "input", "home"}
TxPcs   == {"txirq", "txprev", "txcopy", "txack", "txenq", "txret"}
(* Where netif_output is called from: netdev_config and sntp_init, the     *)
(* input function of the interface, and the timers.                        *)
Callers == {"init", "input", "timers"}
Pcs     == BootPcs \cup RxPcs \cup TxPcs \cup {"init", "enter", "timers"}

Init ==
  /\ mmu = [p \in Packets |-> "free"] /\ mem = [p \in Packets |-> NoFrame]
  /\ rxFifo = <<>> /\ txFifo = <<>> /\ relBusy = 0 /\ arr = 0
  /\ rxOvrn = FALSE /\ ephInt = FALSE /\ txInt = FALSE
  /\ rxEn = FALSE /\ txEn = FALSE /\ bank = 0 /\ ptr = "none"
  /\ pc = "reset" /\ result = 0
  /\ sls = [ever_sent_packet |-> 0, tx_packet |-> 0, irq_onoff |-> 0]
  /\ savedBank = 0 /\ savedPtr = "none"
  /\ cur = NoFrame /\ status = FALSE /\ frameLength = 0
  /\ oldIrq = 0 /\ ret = "init"
  /\ pool = PoolSize /\ held = 0 /\ linkDrop = 0 /\ ooseqPending = FALSE
  /\ nrx = 0 /\ ntx = 0 /\ granted = FALSE /\ nread = 0
  /\ input = <<>> /\ wire = <<>>

-----------------------------------------------------------------------------
(* The chip.                                                               *)

(* A frame arrives and the MMU has a packet for it.                        *)
ChipReceive ==
  /\ rxEn /\ FreePkts # {} /\ nrx < MaxRx
  /\ \E l \in Lengths, e \in BOOLEAN :
       mem' = [mem EXCEPT ![LowestFree] =
                 [dir |-> "rx", id |-> nrx + 1, err |-> e, len |-> l]]
  /\ mmu' = [mmu EXCEPT ![LowestFree] = "rx"]
  /\ rxFifo' = Append(rxFifo, LowestFree)
  /\ nrx' = nrx + 1
  /\ UNCHANGED <<drvVars, intVars, enVars, regVars, appVars, relBusy, arr,
                 txFifo, pc, ntx, nread, input, wire, granted>>

(* A frame arrives and there is no packet for it: it is lost.              *)
ChipOverrun ==
  /\ rxEn /\ FreePkts = {}
  /\ rxOvrn' = TRUE
  /\ UNCHANGED <<drvVars, histVars, mmuVars, enVars, regVars, appVars, mem,
                 txFifo, ephInt, txInt, pc>>

(* The transmitter takes the next packet; it reads the packet's memory as  *)
(* it is now.                                                              *)
ChipSent ==
  /\ txEn /\ txFifo # <<>>
  /\ wire' = Append(wire, mem[Head(txFifo)])
  /\ txFifo' = Tail(txFifo) /\ txInt' = TRUE
  /\ UNCHANGED <<drvVars, mmuVars, enVars, regVars, appVars, mem, rxOvrn,
                 ephInt, pc, nrx, ntx, nread, input, granted>>

(* A transmission fails: the chip clears TCR_ENABLE.                       *)
ChipTxFailed ==
  /\ txEn /\ txFifo # <<>>
  /\ txFifo' = Tail(txFifo)
  /\ txInt' = TRUE /\ ephInt' = TRUE /\ txEn' = FALSE
  /\ UNCHANGED <<drvVars, histVars, mmuVars, regVars, appVars, mem, rxOvrn,
                 rxEn, pc>>

(* The MMU completes a release: the packet at the top of the RX FIFO is    *)
(* removed and freed, or given to an allocation that is still waiting.     *)
ChipReleaseDone ==
  /\ relBusy > 0
  /\ relBusy' = relBusy - 1
  /\ IF rxFifo = <<>>
       THEN UNCHANGED <<mmu, rxFifo, arr>>
       ELSE /\ rxFifo' = Tail(rxFifo)
            /\ mmu' = [mmu EXCEPT ![Head(rxFifo)] =
                         IF arr = AR_FAILED THEN "tx" ELSE "free"]
            /\ arr' = IF arr = AR_FAILED THEN Head(rxFifo) ELSE arr
  /\ UNCHANGED <<drvVars, histVars, intVars, enVars, regVars, appVars, mem,
                 txFifo, pc>>

ChipStep == ChipReceive \/ ChipOverrun \/ ChipSent \/ ChipTxFailed \/ ChipReleaseDone

-----------------------------------------------------------------------------
(* Boot: lwip_config_init calls nr_lan91c111_reset and set_promiscuous.    *)

(* Both soft resets, the identity checks and the configuration, up to the  *)
(* call of r_lan91c111_enable: the receiver and the transmitter are off,   *)
(* so the chip does nothing meanwhile.  known: the bank register and the   *)
(* revision are those of a chip in chip_ids.                               *)
ResetChip ==
  /\ pc = "reset"
  /\ rxEn' = FALSE /\ txEn' = FALSE
  /\ \E known \in Identity :
       IF known
         THEN /\ pc' = "enable" /\ bank' = 2
              /\ mmu' = [p \in Packets |-> "free"]
              /\ rxFifo' = <<>> /\ txFifo' = <<>> /\ relBusy' = 0
              /\ UNCHANGED result
         ELSE /\ pc' = "promisc" /\ bank' \in {0, 3} /\ result' = -1
              /\ UNCHANGED <<mmu, rxFifo, relBusy, txFifo>>
  /\ UNCHANGED <<histVars, intVars, rxVars, callVars, appVars, arr, mem, ptr,
                 sls>>

(* r_lan91c111_enable; from here on frames may arrive.                     *)
Enable ==
  /\ pc = "enable" /\ pc' = "mcreset"
  /\ txEn' = TRUE /\ rxEn' = TRUE /\ bank' = 2
  /\ UNCHANGED <<drvVars, histVars, mmuVars, intVars, appVars, mem, txFifo,
                 ptr>>

(* r_allocate_tx_packet: MC_RESET, MC_ALLOC, and the answer read from the  *)
(* packet number register.                                                 *)
AllocReset ==
  /\ pc = "mcreset" /\ pc' = "mcalloc"
  /\ bank' = 2
  /\ mmu' = [p \in Packets |-> "free"]
  /\ rxFifo' = <<>> /\ txFifo' = <<>> /\ relBusy' = 0
  /\ UNCHANGED <<drvVars, histVars, intVars, enVars, appVars, arr, mem, ptr>>

AllocCommand ==
  /\ pc = "mcalloc" /\ pc' = "pnr"
  /\ granted' = (FreePkts # {})
  /\ IF FreePkts # {}
       THEN mmu' = [mmu EXCEPT ![LowestFree] = "tx"] /\ arr' = LowestFree
       ELSE arr' = AR_FAILED /\ UNCHANGED mmu
  /\ UNCHANGED <<drvVars, countVars, intVars, enVars, regVars, appVars,
                 rxFifo, relBusy, mem, txFifo>>

(* The test is pnr & AR_FAILED: bit 7 of the 16-bit word.                  *)
AllocAnswer ==
  /\ pc = "pnr" /\ pc' = "promisc"
  /\ IF (PnrWord \div AR_FAILED) % 2 = 1
       THEN result' = -1 /\ UNCHANGED sls
       ELSE /\ sls' = [sls EXCEPT !.tx_packet = (PnrWord \div 256) % 64,
                                  !.ever_sent_packet = 0]
            /\ UNCHANGED result
  /\ UNCHANGED <<chipVars, histVars, rxVars, callVars, appVars>>

(* lwip_config_init ignores the result of the reset; set_promiscuous turns *)
(* the receiver on in any case.                                            *)
SetPromiscuous ==
  /\ pc = "promisc" /\ pc' = "init"
  /\ bank' = 0 /\ rxEn' = TRUE
  /\ UNCHANGED <<drvVars, histVars, mmuVars, intVars, appVars, mem, txFifo,
                 txEn, ptr>>

(* netdev_config and sntp_init are done (the frames they send are          *)
(* netif_output below); the main loop begins.                              *)
StackReady ==
  /\ pc = "init" /\ pc' = "enter"
  /\ UNCHANGED <<chipVars, drvVars, histVars, appVars>>

-----------------------------------------------------------------------------
(* nr_lan91c111_check_for_events                                           *)

(* Mutant: the bank is not selected on entry.                              *)
EnterAnyBank ==
  /\ pc = "enter" /\ pc' = "ovrn"
  /\ savedBank' = bank /\ savedPtr' = ptr
  /\ UNCHANGED <<chipVars, histVars, iterVars, callVars, appVars, sls,
                 result>>

(* Save the registers and select bank 2; watchdog is decremented once, on  *)
(* entry, where it is 50: the receive loop below is not bounded by it.     *)
Enter ==
  /\ pc = "enter"
  /\ savedBank' = bank /\ bank' = 2 /\ savedPtr' = ptr
  /\ pc' = "ovrn"
  /\ UNCHANGED <<histVars, mmuVars, intVars, enVars, iterVars, callVars,
                 appVars, mem, txFifo, ptr, sls, result>>

CheckOverrun ==
  /\ pc = "ovrn" /\ pc' = "eph"
  /\ rxOvrn' = FALSE
  /\ UNCHANGED <<drvVars, histVars, mmuVars, enVars, regVars, appVars, mem,
                 txFifo, ephInt, txInt>>

CheckEph ==
  /\ pc = "eph" /\ pc' = "rxtest"
  /\ ephInt' = FALSE
  /\ UNCHANGED <<drvVars, histVars, mmuVars, enVars, regVars, appVars, mem,
                 txFifo, rxOvrn, txInt>>

(* Mutant: the loop tests IM_TX_INT.                                       *)
RxTestWrongBit ==
  /\ pc = "rxtest"
  /\ pc' = IF txInt /\ rxFifo # <<>> THEN "fifo" ELSE "home"
  /\ UNCHANGED <<chipVars, drvVars, histVars, appVars>>

(* while (np_interrupt & IM_RCV_INT): set while the RX FIFO is not empty.  *)
RxTest ==
  /\ pc = "rxtest"
  /\ pc' = IF rxFifo # <<>> THEN "fifo" ELSE "home"
  /\ UNCHANGED <<chipVars, drvVars, histVars, appVars>>

(* The FIFO port says empty: "cannot happen".  Otherwise point at the      *)
(* packet.                                                                 *)
RxFifoPort ==
  /\ pc = "fifo"
  /\ IF rxFifo = <<>>
       THEN pc' = "home" /\ UNCHANGED ptr
       ELSE pc' = "header" /\ ptr' = "rx"
  /\ UNCHANGED <<drvVars, histVars, mmuVars, intVars, enVars, appVars, mem,
                 txFifo, bank>>

(* The count word of a received frame: status and count word, the frame,   *)
(* and one or two bytes that end in the control byte, so that it is even.  *)
OddFrame(f)  == f.len % 2 = 1
ByteCount(f) == 4 + f.len + (IF OddFrame(f) THEN 1 ELSE 2)

(* Mutant: the status word is not looked at.                               *)
RxHeaderNoStatus ==
  /\ pc = "header" /\ pc' = "data"
  /\ status' = FALSE /\ frameLength' = (ByteCount(RxHead) % 2048) - 4
  /\ UNCHANGED <<chipVars, histVars, callVars, appVars, sls, result,
                 savedBank, savedPtr, cur>>

RxHeader ==
  /\ pc = "header" /\ pc' = "data"
  /\ status' = RxHead.err
  /\ frameLength' = IF RxHead.err THEN 0 ELSE (ByteCount(RxHead) % 2048) - 4
  /\ UNCHANGED <<chipVars, histVars, callVars, appVars, sls, result,
                 savedBank, savedPtr, cur>>

(* The copy into g_frame_buffer and the control byte.  For a frame in      *)
(* error nothing is copied and the control byte is the one before the      *)
(* buffer, which may be anything.                                          *)
RxData ==
  /\ pc = "data" /\ pc' = "release"
  /\ cur' = RxHead
  /\ \E odd \in IF status THEN BOOLEAN ELSE {OddFrame(RxHead)} :
       frameLength' = frameLength - (IF odd THEN 1 ELSE 2)
  /\ UNCHANGED <<chipVars, histVars, callVars, appVars, sls, result,
                 savedBank, savedPtr, status>>

(* Mutants: MC_REMOVE, MC_FREEPKT or nothing instead of MC_RELEASE.        *)
RxReleaseRemove ==
  /\ pc = "release" /\ pc' = "poll"
  /\ rxFifo' = IF rxFifo = <<>> THEN rxFifo ELSE Tail(rxFifo)
  /\ UNCHANGED <<drvVars, countVars, intVars, enVars, regVars, appVars, mmu,
                 relBusy, arr, mem, txFifo, granted>>
RxReleaseFreePkt ==
  /\ pc = "release" /\ pc' = "poll"
  /\ mmu' = [mmu EXCEPT ![sls.tx_packet] = "free"]
  /\ UNCHANGED <<drvVars, countVars, intVars, enVars, regVars, appVars,
                 rxFifo, relBusy, arr, mem, txFifo, granted>>
RxReleaseNothing ==
  /\ pc = "release" /\ pc' = "poll"
  /\ UNCHANGED <<chipVars, drvVars, histVars, appVars>>

RxRelease ==
  /\ pc = "release" /\ pc' = "poll"
  /\ relBusy' = relBusy + 1
  /\ UNCHANGED <<drvVars, countVars, intVars, enVars, regVars, appVars, mmu,
                 rxFifo, arr, mem, txFifo, granted>>

(* Mutant: the driver does not wait for MC_BUSY to clear.                  *)
RxPollNoWait ==
  /\ pc = "poll" /\ pc' = "process" /\ nread' = nread + 1
  /\ UNCHANGED <<chipVars, drvVars, appVars, nrx, ntx, input, wire, granted>>

(* The wait for MC_BUSY to clear ends.                                     *)
RxPollDone ==
  /\ pc = "poll" /\ relBusy = 0
  /\ pc' = "process"
  /\ nread' = nread + 1
  /\ UNCHANGED <<chipVars, drvVars, appVars, nrx, ntx, input, wire, granted>>

(* The locals of one iteration of the receive loop are dead after it.      *)
IterationOver ==
  cur' = NoFrame /\ status' = FALSE /\ frameLength' = 0

(* The wait gives up: return -1 at once, with nothing restored.  Bound: at *)
(* most one release is left behind.                                        *)
RxPollTimeout ==
  /\ pc = "poll" /\ MmuStall /\ relBusy = 1
  /\ pc' = "timers" /\ IterationOver
  /\ UNCHANGED <<chipVars, countVars, callVars, appVars, sls, result,
                 savedBank, savedPtr, granted>>

(* Pool pbufs pbuf_alloc(PBUF_RAW, length, PBUF_POOL) chains together: one *)
(* at least, PoolBufSize bytes in each.                                    *)
PbufsFor(length) == IF length = 0 THEN 1
                    ELSE (length + PoolBufSize - 1) \div PoolBufSize

(* Mutant: a frame for which there is no pbuf is not counted.              *)
ProcessFrameUncounted ==
  LET need == PbufsFor(U16(frameLength)) IN
  /\ pc = "process"
  /\ IF need <= pool
       THEN /\ pool' = pool - need /\ held' = held + need
            /\ input' = Append(input, cur) /\ pc' = "input"
            /\ UNCHANGED iterVars
       ELSE pc' = "rxtest" /\ IterationOver /\ UNCHANGED <<pool, held, input>>
  /\ UNCHANGED <<chipVars, callVars, sls, result, savedBank, savedPtr,
                 linkDrop, ooseqPending, nrx, ntx, nread, wire, granted>>

(* process_frames, called when frame_length is not 0.  The length is       *)
(* passed to pbuf_alloc as a u16_t.  pbuf_take copies exactly that many    *)
(* bytes, and ethernet_input always returns ERR_OK, so their error         *)
(* branches are not taken.                                                 *)
ProcessFrame ==
  LET need == PbufsFor(U16(frameLength)) IN
  /\ pc = "process"
  /\ IF frameLength = 0
       THEN pc' = "rxtest" /\ IterationOver /\ UNCHANGED <<appVars, input>>
       ELSE IF need <= pool
         THEN /\ pool' = pool - need /\ held' = held + need
              /\ input' = Append(input, cur)
              /\ pc' = "input"
              /\ UNCHANGED <<iterVars, linkDrop, ooseqPending>>
         ELSE /\ linkDrop' = linkDrop + 1 /\ ooseqPending' = TRUE
              /\ pc' = "rxtest" /\ IterationOver
              /\ UNCHANGED <<pool, held, input>>
  /\ UNCHANGED <<chipVars, callVars, sls, result, savedBank, savedPtr, nrx,
                 ntx, nread, wire, granted>>

(* Mutant: process_frames frees the pbuf that the stack has freed.         *)
InputDoneFreeTwice ==
  /\ pc = "input" /\ pc' = "rxtest" /\ IterationOver
  /\ \E n \in {PbufsFor(U16(frameLength))} :
       held' = held - n /\ pool' = pool + 2 * n
  /\ UNCHANGED <<chipVars, histVars, callVars, sls, result, savedBank,
                 savedPtr, linkDrop, ooseqPending>>

(* The stack is done with the frame: it has freed its pbufs, or keeps them *)
(* in a queue.                                                             *)
InputDone ==
  /\ pc = "input" /\ pc' = "rxtest" /\ IterationOver
  /\ \E n \in {0, PbufsFor(U16(frameLength))} :
       held' = held - n /\ pool' = pool + n
  /\ UNCHANGED <<chipVars, histVars, callVars, sls, result, savedBank,
                 savedPtr, linkDrop, ooseqPending>>

GoHome ==
  /\ pc = "home" /\ pc' = "timers"
  /\ ptr' = savedPtr /\ bank' = savedBank
 
  /\ UNCHANGED <<drvVars, countVars, mmuVars, intVars, enVars, appVars, mem,
                 txFifo, granted>>

(* sys_check_timeouts: PBUF_CHECK_FREE_OOSEQ and the handlers may free     *)
(* pbufs the stack holds.                                                  *)
TimersDone ==
  /\ pc = "timers" /\ pc' = "enter"
  /\ ooseqPending' = FALSE
  /\ \E n \in 0 .. held : held' = held - n /\ pool' = pool + n
  /\ UNCHANGED <<chipVars, drvVars, histVars, linkDrop>>

-----------------------------------------------------------------------------
(* netif_output and nr_lan91c111_tx_frame.  The frame has an Ethernet      *)
(* header, so frame_length is not 0.                                       *)

NetifOutput ==
  /\ pc \in Callers /\ ntx < MaxTx
  /\ ntx' = ntx + 1 /\ ret' = pc /\ pc' = "txirq"
  /\ UNCHANGED <<chipVars, rxVars, appVars, sls, result, oldIrq, nrx, nread,
                 input, wire, granted>>

(* old_irq = nr_lan91c111_set_irq(0)                                       *)
TxIrqOff ==
  /\ pc = "txirq" /\ pc' = "txprev"
  /\ bank' = 2
  /\ oldIrq' = sls.irq_onoff /\ sls' = [sls EXCEPT !.irq_onoff = 0]
  /\ UNCHANGED <<histVars, mmuVars, intVars, enVars, rxVars, appVars, mem,
                 txFifo, ptr, result, ret>>

(* "Think about the previous packet we sent": refuse the frame if it is    *)
(* not gone, re-enable the transmitter if it failed.                       *)
TxPrevious ==
  /\ pc = "txprev"
  /\ IF sls.ever_sent_packet # 0
       THEN IF ~txInt
              THEN pc' = "txret" /\ bank' = 2 /\ UNCHANGED txEn
              ELSE pc' = "txcopy" /\ bank' = 0 /\ txEn' = TRUE
       ELSE pc' = "txcopy" /\ UNCHANGED <<txEn, bank>>
  /\ UNCHANGED <<drvVars, histVars, mmuVars, intVars, appVars, mem, txFifo,
                 rxEn, ptr>>

(* Mutant: another packet than the one enqueued is filled.                 *)
TxCopyWrongPacket ==
  /\ pc = "txcopy" /\ pc' = "txack"
  /\ bank' = 2 /\ ptr' = "tx"
  /\ mem' = [mem EXCEPT ![(sls.tx_packet + 1) % NumPackets] =
               [dir |-> "tx", id |-> ntx, err |-> FALSE, len |-> 0]]
  /\ UNCHANGED <<drvVars, histVars, mmuVars, intVars, enVars, appVars,
                 txFifo>>

(* Select the packet and fill its memory.                                  *)
TxCopy ==
  /\ pc = "txcopy" /\ pc' = "txack"
  /\ bank' = 2 /\ ptr' = "tx"
  /\ mem' = [mem EXCEPT ![sls.tx_packet] =
               [dir |-> "tx", id |-> ntx, err |-> FALSE, len |-> 0]]
  /\ UNCHANGED <<drvVars, histVars, mmuVars, intVars, enVars, appVars,
                 txFifo>>

TxAck ==
  /\ pc = "txack" /\ pc' = "txenq"
  /\ bank' = 2 /\ txInt' = FALSE
  /\ UNCHANGED <<drvVars, histVars, mmuVars, enVars, appVars, mem, txFifo,
                 rxOvrn, ephInt, ptr>>

TxEnqueue ==
  /\ pc = "txenq" /\ pc' = "txret"
  /\ txFifo' = Append(txFifo, sls.tx_packet)
  /\ UNCHANGED <<drvVars, histVars, mmuVars, intVars, enVars, regVars,
                 appVars, mem>>

(* nr_lan91c111_set_irq(old_irq), and back to the caller; netif_output     *)
(* ignores the result.                                                     *)
TxReturn ==
  /\ pc = "txret" /\ pc' = ret
  /\ bank' = 2 /\ sls' = [sls EXCEPT !.irq_onoff = oldIrq]
  /\ UNCHANGED <<histVars, mmuVars, intVars, enVars, rxVars, callVars,
                 appVars, mem, txFifo, ptr, result>>

-----------------------------------------------------------------------------
BootStep == \/ ResetChip \/ Enable \/ AllocReset \/ AllocCommand
            \/ AllocAnswer \/ SetPromiscuous \/ StackReady
RxStep   == \/ Enter \/ CheckOverrun \/ CheckEph \/ RxTest \/ RxFifoPort
            \/ RxHeader \/ RxData \/ RxRelease \/ RxPollDone \/ RxPollTimeout
            \/ ProcessFrame \/ InputDone \/ GoHome \/ TimersDone
TxStep   == \/ NetifOutput \/ TxIrqOff \/ TxPrevious \/ TxCopy \/ TxAck
            \/ TxEnqueue \/ TxReturn

Next == ChipStep \/ BootStep \/ RxStep \/ TxStep

Spec == Init /\ [][Next]_vars

(* The processor runs the main loop forever, and the MMU completes the     *)
(* commands it is given.  Nothing is assumed of the network.               *)
FairSpec == Spec /\ WF_vars(BootStep \/ RxStep \/ TxStep)
                 /\ WF_vars(ChipReleaseDone)

-----------------------------------------------------------------------------
(* Properties                                                              *)

TypeOK ==
  /\ mmu \in [Packets -> {"free", "rx", "tx"}] /\ mem \in [Packets -> Frame]
  /\ rxFifo \in Seq(Packets) /\ txFifo \in Seq(0 .. 63)
  /\ relBusy \in 0 .. 2 /\ arr \in Packets \cup {AR_FAILED}
  /\ rxOvrn \in BOOLEAN /\ ephInt \in BOOLEAN /\ txInt \in BOOLEAN
  /\ rxEn \in BOOLEAN /\ txEn \in BOOLEAN
  /\ bank \in 0 .. 3 /\ ptr \in {"none", "rx", "tx"}
  /\ pc \in Pcs /\ result \in {-1, 0}
  /\ sls \in [ever_sent_packet : {0}, tx_packet : Packets, irq_onoff : {0}]
  /\ savedBank \in 0 .. 3 /\ savedPtr \in {"none", "rx", "tx"}
  /\ cur \in Frame /\ status \in BOOLEAN /\ frameLength \in Int
  /\ oldIrq = 0 /\ ret \in Callers
  /\ pool \in 0 .. PoolSize /\ held = PoolSize - pool /\ linkDrop \in Nat
  /\ ooseqPending \in BOOLEAN
  /\ nrx \in Nat /\ ntx \in Nat /\ granted \in BOOLEAN
  /\ nread \in Nat
  /\ input \in Seq(Frame) /\ wire \in Seq(Frame)

(* "bank MUST be 2 for each iteration of loop": whenever check_for_events  *)
(* or tx_frame is about to touch a bank 2 register, bank 2 is selected,    *)
(* although the input function called inside the receive loop may have     *)
(* transmitted frames and so switched banks in between.                    *)
BankIsTwo ==
  pc \in {"ovrn", "eph", "rxtest", "fifo", "header", "data", "release", "poll",
          "process", "home", "txack", "txenq", "txret"} => bank = 2

(* "Unexpected condition, FIFO empty? cannot happen...": from the test of  *)
(* IM_RCV_INT until the packet is released, the FIFO holds the packet.     *)
FifoNeverEmpty ==
  pc \in {"fifo", "header", "data", "release"} => rxFifo # <<>>

(* Every packet of the chip has exactly one owner: a packet the MMU holds  *)
(* for reception is in the RX FIFO exactly once, every other packet is not *)
(* in it, and at most one packet is held for transmission.  Nothing leaks. *)
PacketsConserved ==
  /\ \A p \in Packets :
       Cardinality({i \in DOMAIN rxFifo : rxFifo[i] = p})
         = (IF mmu[p] = "rx" THEN 1 ELSE 0)
  /\ Cardinality({p \in Packets : mmu[p] = "tx"}) <= 1

(* "one buffer is reserved for transmit, which never gets freed": once the *)
(* main loop runs, no step takes the transmit packet away.                 *)
TxBufferNeverFreed ==
  [][(pc \notin BootPcs /\ mmu[sls.tx_packet] = "tx")
       => mmu'[sls'.tx_packet] = "tx"]_vars

(* The frames handed to the stack are received frames, in the order they   *)
(* arrived, none twice, provided that the driver owns the packet it        *)
(* transmits from.                                                         *)
InputInOrder ==
  granted => /\ \A i \in DOMAIN input : input[i].dir = "rx"
             /\ \A i, j \in DOMAIN input : i < j => input[i].id < input[j].id

(* A frame received in error never reaches the stack: check_for_events     *)
(* passes it on with length -1 or -2, and only pbuf_alloc, which has no    *)
(* 65535 bytes to give, keeps it out.                                      *)
ErrorsStayOut ==
  granted => \A i \in DOMAIN input : ~input[i].err

(* Every packet read and released is either handed to the stack or counted *)
(* in link.drop.                                                           *)
FramesAccounted ==
  granted => nread = Len(input) + linkDrop + (IF pc = "process" THEN 1 ELSE 0)

(* The chip transmits only frames that tx_frame wrote, never an older one  *)
(* after a newer one.                                                      *)
WireInOrder ==
  granted => /\ \A i \in DOMAIN wire : wire[i].dir = "tx"
             /\ \A i, j \in DOMAIN wire : i < j => wire[i].id <= wire[j].id

(* A received frame does not stay in the chip: the main loop takes it off  *)
(* the FIFO.                                                               *)
RxDrained ==
  \A n \in 1 .. MaxRx :
    LET waiting == \E i \in DOMAIN rxFifo : mem[rxFifo[i]].dir = "rx"
                                            /\ mem[rxFifo[i]].id = n
    IN  waiting ~> ~waiting

(* The receive side implements FrameQueue: the frames waiting are those in *)
(* the RX FIFO, preceded by the one in g_frame_buffer once its packet has  *)
(* been released.  The frame leaves the queue in ProcessFrame.             *)
RxFrames == [i \in DOMAIN rxFifo |-> mem[rxFifo[i]]]
Waiting  == IF (pc = "poll" /\ relBusy = 0) \/ pc = "process"
            THEN <<cur>> \o RxFrames
            ELSE RxFrames
FQ == INSTANCE FrameQueue
        WITH Frame <- [dir : {"rx"}, id : 1 .. MaxRx, err : BOOLEAN, len : Lengths],
             queue <- Waiting, out <- input, ready <- pc \notin BootPcs
ImplementsFrameQueue == FQ!Spec

(* Statements of the driver's comments that the code does not keep.        *)

(* eth_driver.c:1803 "Be sure previous packet is gone": tx_frame does not  *)
(* write into the transmit packet while the chip still has to send it.     *)
PreviousPacketGone ==
  pc = "txcopy" => \A i \in DOMAIN txFifo : txFifo[i] # sls.tx_packet

(* eth_driver.c:1543 "everything below keys off frame length so the packet *)
(* is effectively tossed out": process_frame is not called for a frame     *)
(* received in error.                                                      *)
ErrorFrameTossed == (pc = "process" /\ status) => frameLength = 0

(* eth_driver.c:1714 "High-bit indicates the answer we dont like": the     *)
(* reset reports success only if the MMU granted the transmit packet.      *)
ResetReportsFailure == (pc \notin BootPcs /\ result = 0) => granted
=============================================================================
