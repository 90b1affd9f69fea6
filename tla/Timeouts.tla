------------------------------ MODULE Timeouts ------------------------------
(***************************************************************************)
(* The timer list of the stack (core/timeouts.c), driven by the main loop  *)
(* of a NO_SYS system.                                                     *)
(*                                                                         *)
(* Times are unsigned integers that wrap at W (2^32 in the build), and the *)
(* list is kept sorted by comparing wrapped times.  Beside the wrapped     *)
(* time that the code stores, every entry carries left, the number of      *)
(* ticks until it is really due (negative once it is overdue): the         *)
(* properties are stated about left, the code only sees time.              *)
(*                                                                         *)
(* sys_now() returns the constant 0 in arch/cc.h of this port ("Implement  *)
(* system timer" is still to do), where no timer ever fires; the model's   *)
(* clock advances, as in test_timers.c.  It may advance between any two    *)
(* steps, also while a handler runs.                                       *)
(***************************************************************************)
EXTENDS Integers, Sequences, FiniteSets

CONSTANTS
  W,           \* modulus of u32_t
  Table,       \* lwip_cyclic_timers after the TCP timer: a sequence of names
  OneShots,    \* handlers of one-shot timers (two of SNTP)
  Interval,    \* interval_ms of each cyclic timer and of "tcp"
  Delays,      \* delays one-shot timers are started with
  MaxInterval, \* bound on intervals and delays (LWIP_UINT32_MAX / 4)
  MaxLate,     \* bound: how late the main loop may process a timer
  PoolSize,    \* MEMP_NUM_SYS_TIMEOUT
  CallRestart  \* does the application call sys_restart_timeouts?

Cyclic == {Table[i] : i \in DOMAIN Table}
Handlers == Cyclic \cup OneShots \cup {"tcp"}

ASSUME TimeoutsAssumption ==
  /\ W \in Nat /\ MaxInterval \in Nat /\ MaxLate \in Nat
  /\ Table \in Seq(Cyclic)
  /\ \A i, j \in DOMAIN Table : Table[i] = Table[j] => i = j
  /\ 2 * (MaxInterval + MaxLate) < W
  /\ Interval \in [Cyclic \cup {"tcp"} -> 1 .. MaxInterval]
  /\ Delays \subseteq 0 .. MaxInterval
  /\ {"tcp", "none"} \cap (Cyclic \cup OneShots) = {} /\ Cyclic \cap OneShots = {}
  /\ PoolSize \in Nat /\ CallRestart \in BOOLEAN

VARIABLES
  clock,     \* sys_now()
  list,      \* next_timeout: a sequence of [h, time, left]
  pc,        \* "init", "idle", "loop" (in sys_check_timeouts) or "run" (a handler)
  started,   \* timers that sys_timeouts_init has started
  checkNow,  \* now of sys_check_timeouts
  checkAgo,  \* ticks since it was read
  cur,       \* the handler that runs
  due,       \* current_timeout_due_time
  late,      \* ticks by which the handler that runs is late
  tcpActive, \* tcpip_tcp_timer_active
  pcbs       \* tcp_active_pcbs or tcp_tw_pcbs is not empty

checkVars == <<checkNow, checkAgo>>
runVars == <<cur, due, late>>
tcpVars == <<tcpActive, pcbs>>
vars == <<clock, list, pc, started, checkVars, runVars, tcpVars>>

-----------------------------------------------------------------------------
(* u32_t arithmetic.                                                       *)
Add32(a, b) == IF a + b >= W THEN a + b - W ELSE a + b
Sub32(a, b) == IF a >= b THEN a - b ELSE a - b + W

(* Mutant: the comparison without care for wraparound.                     *)
PlainLess(t, u) == t < u

(* TIME_LESS_THAN(t, compare_to): the difference is above LWIP_MAX_TIMEOUT.*)
TimeLess(t, u) == 2 * Sub32(t, u) >= W

Entry == [h : Handlers, time : 0 .. W - 1, left : Int]

(* The entry is linked before the first one whose time is later.           *)
LaterThan(l, e) == {i \in DOMAIN l : TimeLess(e.time, l[i].time)}
Place(l, e) == IF LaterThan(l, e) = {} THEN Len(l) + 1
               ELSE CHOOSE i \in LaterThan(l, e) :
                      \A j \in LaterThan(l, e) : i <= j
Insert(l, e) ==
  LET k == Place(l, e)
  IN  [i \in 1 .. Len(l) + 1 |->
         IF i < k THEN l[i] ELSE IF i = k THEN e ELSE l[i - 1]]

(* sys_timeout_abs: memp_malloc fails when the pool is empty, and then the *)
(* timer is not started (where assertions are enabled, one fails).         *)
TimeoutAbs(l, time, left, h) ==
  IF Len(l) >= PoolSize THEN l ELSE Insert(l, [h |-> h, time |-> time, left |-> left])

(* sys_timeout                                                             *)
SysTimeout(l, ms, h) == TimeoutAbs(l, Add32(clock, ms), ms, h)

(* sys_untimeout: the first matching entry is unlinked.                    *)
Matching(l, h) == {i \in DOMAIN l : l[i].h = h}
SysUntimeout(l, h) ==
  IF Matching(l, h) = {} THEN l
  ELSE LET k == CHOOSE i \in Matching(l, h) : \A j \in Matching(l, h) : i <= j
       IN  [i \in 1 .. Len(l) - 1 |-> IF i < k THEN l[i] ELSE l[i + 1]]

Pending(h) == Matching(list, h) # {}

-----------------------------------------------------------------------------
(* The clock may have any value when the program starts, the ones just     *)
(* before the wraparound included.                                         *)
Init ==
  /\ clock \in 0 .. W - 1
  /\ list = <<>> /\ pc = "init" /\ started = 0
  /\ checkNow = 0 /\ checkAgo = 0
  /\ cur = "none" /\ due = 0 /\ late = 0
  /\ tcpActive = FALSE /\ pcbs = FALSE

(* One turn of the loop of sys_timeouts_init.                              *)
InitTimer ==
  /\ pc = "init" /\ started < Len(Table)
  /\ list' = SysTimeout(list, Interval[Table[started + 1]], Table[started + 1])
  /\ started' = started + 1
  /\ UNCHANGED <<clock, pc, checkVars, runVars, tcpVars>>

InitDone ==
  /\ pc = "init" /\ started = Len(Table)
  /\ pc' = "idle"
  /\ UNCHANGED <<clock, list, started, checkVars, runVars, tcpVars>>

(* A millisecond passes.  The guard is the assumption on the main loop: no *)
(* timer waits, and no handler runs, for longer than MaxLate.              *)
Tick ==
  /\ \A i \in DOMAIN list : list[i].left > -MaxLate
  /\ pc \in {"loop", "run"} => checkAgo < MaxLate
  /\ pc = "run" => late < MaxLate
  /\ clock' = Add32(clock, 1)
  /\ list' = [i \in DOMAIN list |-> [list[i] EXCEPT !.left = @ - 1]]
  /\ checkAgo' = IF pc \in {"loop", "run"} THEN checkAgo + 1 ELSE checkAgo
  /\ late' = IF pc = "run" THEN late + 1 ELSE late
  /\ UNCHANGED <<pc, started, checkNow, cur, due, tcpVars>>

-----------------------------------------------------------------------------
(* Calls the rest of the stack makes, from the main loop (a frame came in) *)
(* or from a handler.                                                      *)
MayCall == pc \in {"idle", "run"}

(* SNTP removes a timer it starts again, so that a handler is in the list  *)
(* once at most.                                                           *)
StartTimer(h, ms) ==
  /\ MayCall
  /\ list' = SysTimeout(SysUntimeout(list, h), ms, h)
  /\ UNCHANGED <<clock, pc, started, checkVars, runVars, tcpVars>>

StopTimer(h) ==
  /\ MayCall /\ Pending(h)
  /\ list' = SysUntimeout(list, h)
  /\ UNCHANGED <<clock, pc, started, checkVars, runVars, tcpVars>>

(* Mutant: the flag is not looked at.                                      *)
TcpTimerAlways ==
  /\ MayCall
  /\ pcbs' = TRUE /\ tcpActive' = TRUE
  /\ list' = SysTimeout(list, Interval["tcp"], "tcp")
  /\ UNCHANGED <<clock, pc, started, checkVars, runVars>>

(* TCP_REG links a control block and calls tcp_timer_needed.               *)
TcpTimerNeeded ==
  /\ MayCall
  /\ pcbs' = TRUE /\ tcpActive' = TRUE
  /\ list' = IF tcpActive THEN list ELSE SysTimeout(list, Interval["tcp"], "tcp")
  /\ UNCHANGED <<clock, pc, started, checkVars, runVars>>

(* The last control block is gone: the timer finds out when it fires.      *)
TcpPcbsGone ==
  /\ MayCall /\ pcbs
  /\ pcbs' = FALSE
  /\ UNCHANGED <<clock, list, pc, started, checkVars, runVars, tcpActive>>

(* sys_restart_timeouts: the first timer becomes due now, and the others   *)
(* keep their distance to it.                                              *)
RestartTimeouts ==
  /\ CallRestart /\ pc = "idle" /\ list # <<>>
  /\ list' = [i \in DOMAIN list |->
                [list[i] EXCEPT
                   !.time = Add32(Sub32(@, list[1].time), clock),
                   !.left = @ - list[1].left]]
  /\ UNCHANGED <<clock, pc, started, checkVars, runVars, tcpVars>>

(* Mutant: an overdue timer is not told apart.                             *)
SleepTimeUnchecked ==
  IF list = <<>> THEN "never" ELSE Sub32(list[1].time, clock)

(* sys_timeouts_sleeptime, "never" for SYS_TIMEOUTS_SLEEPTIME_INFINITE.    *)
SleepTime ==
  IF list = <<>> THEN "never"
  ELSE IF TimeLess(list[1].time, clock) THEN 0
  ELSE Sub32(list[1].time, clock)

-----------------------------------------------------------------------------
(* sys_check_timeouts: the clock is read once.                             *)
CheckBegin ==
  /\ pc = "idle"
  /\ pc' = "loop" /\ checkNow' = clock /\ checkAgo' = 0
  /\ UNCHANGED <<clock, list, started, runVars, tcpVars>>

(* Mutant: the clock is read again for every timer.                        *)
CheckFireFresh ==
  /\ pc = "loop" /\ list # <<>>
  /\ ~TimeLess(clock, list[1].time)
  /\ pc' = "run" /\ cur' = list[1].h
  /\ due' = list[1].time /\ late' = -list[1].left
  /\ list' = Tail(list)
  /\ UNCHANGED <<clock, started, checkVars, tcpVars>>

(* The first timer has expired: it is unlinked and freed, then its handler *)
(* is called.                                                              *)
CheckFire ==
  /\ pc = "loop" /\ list # <<>>
  /\ ~TimeLess(checkNow, list[1].time)
  /\ pc' = "run" /\ cur' = list[1].h
  /\ due' = list[1].time /\ late' = -list[1].left
  /\ list' = Tail(list)
  /\ UNCHANGED <<clock, started, checkVars, tcpVars>>

CheckEnd ==
  /\ pc = "loop"
  /\ list # <<>> => TimeLess(checkNow, list[1].time)
  /\ pc' = "idle" /\ checkNow' = 0 /\ checkAgo' = 0
  /\ UNCHANGED <<clock, list, started, runVars, tcpVars>>

HandlerOver == pc' = "loop" /\ cur' = "none" /\ due' = 0 /\ late' = 0

(* Mutant: an overloaded timer is not moved forward.                       *)
CyclicDoneNoCatchUp ==
  /\ pc = "run" /\ cur \in Cyclic
  /\ list' = TimeoutAbs(list, Add32(due, Interval[cur]), Interval[cur] - late, cur)
  /\ HandlerOver
  /\ UNCHANGED <<clock, started, checkVars, tcpVars>>

(* Mutant: the timer is not started again.                                 *)
CyclicDoneForgets ==
  /\ pc = "run" /\ cur \in Cyclic
  /\ HandlerOver
  /\ UNCHANGED <<clock, list, started, checkVars, tcpVars>>

(* lwip_cyclic_timer, after the handler proper: the next time counts from  *)
(* the time the timer was due, or from now when that has passed already.   *)
CyclicDone ==
  /\ pc = "run" /\ cur \in Cyclic
  /\ list' = LET next == Add32(due, Interval[cur])
             IN  IF TimeLess(next, clock)
                 THEN TimeoutAbs(list, Add32(clock, Interval[cur]), Interval[cur], cur)
                 ELSE TimeoutAbs(list, next, Interval[cur] - late, cur)
  /\ HandlerOver
  /\ UNCHANGED <<clock, started, checkVars, tcpVars>>

(* Mutant: the flag stays set when the timer is not restarted.             *)
TcpDoneKeepsFlag ==
  /\ pc = "run" /\ cur = "tcp"
  /\ list' = IF pcbs THEN SysTimeout(list, Interval["tcp"], "tcp") ELSE list
  /\ HandlerOver
  /\ UNCHANGED <<clock, started, checkVars, tcpVars>>

(* tcpip_tcp_timer, after tcp_tmr: restarted while control blocks exist.   *)
TcpDone ==
  /\ pc = "run" /\ cur = "tcp"
  /\ list' = IF pcbs THEN SysTimeout(list, Interval["tcp"], "tcp") ELSE list
  /\ tcpActive' = pcbs
  /\ HandlerOver
  /\ UNCHANGED <<clock, started, checkVars, pcbs>>

(* A one-shot handler returns.                                             *)
OneShotDone ==
  /\ pc = "run" /\ cur \in OneShots
  /\ HandlerOver
  /\ UNCHANGED <<clock, list, started, checkVars, tcpVars>>

CheckStep == CheckBegin \/ CheckFire \/ CheckEnd \/ CyclicDone \/ TcpDone \/ OneShotDone
Next ==
  \/ InitTimer \/ InitDone \/ Tick
  \/ \E h \in OneShots : StopTimer(h) \/ \E ms \in Delays : StartTimer(h, ms)
  \/ TcpTimerNeeded \/ TcpPcbsGone \/ RestartTimeouts
  \/ CheckStep

Spec == Init /\ [][Next]_vars

(* The program runs on (its main loop calls sys_check_timeouts for ever,   *)
(* and handlers return), and time goes on.                                 *)
FairSpec ==
  Spec /\ WF_vars(InitTimer \/ InitDone) /\ WF_vars(CheckStep) /\ WF_vars(Tick)

-----------------------------------------------------------------------------
(* Types.                                                                  *)
TypeOK ==
  /\ clock \in 0 .. W - 1
  /\ list \in Seq(Entry)
  /\ pc \in {"init", "idle", "loop", "run"}
  /\ started \in 0 .. Len(Table)
  /\ checkNow \in 0 .. W - 1 /\ checkAgo \in 0 .. MaxLate
  /\ cur \in Handlers \cup {"none"} /\ (pc = "run" <=> cur # "none")
  /\ due \in 0 .. W - 1 /\ late \in 0 .. MaxLate
  /\ tcpActive \in BOOLEAN /\ pcbs \in BOOLEAN

(* The wrapped time of an entry is the moment it is due, and the list is   *)
(* in the order in which the timers are really due, across the wraparound  *)
(* of the clock, late processing and sys_restart_timeouts included.        *)
TimeOf(left) == IF left < 0 THEN Sub32(clock, -left) ELSE Add32(clock, left)
SortedByDueTime ==
  /\ \A i \in DOMAIN list : list[i].time = TimeOf(list[i].left)
  /\ \A i, j \in DOMAIN list : i < j => list[i].left <= list[j].left

(* A handler is called only for a timer that was due when                  *)
(* sys_check_timeouts was entered ("Process only timers expired at the     *)
(* start of the function"), so never early.                                *)
FiresOnlyExpired ==
  [][pc = "loop" /\ pc' = "run" => list[1].left + checkAgo <= 0]_vars

(* Every cyclic timer is in the list, or runs and will be put back, and    *)
(* never twice: none is lost, not even to an exhausted pool.  The same     *)
(* holds of the TCP timer exactly while its flag is set, and the flag is   *)
(* set while there are control blocks.                                     *)
EveryTimerOnce ==
  /\ \A i, j \in DOMAIN list : list[i].h = list[j].h => i = j
  /\ \A i \in DOMAIN list : list[i].h = cur => cur \in OneShots
  /\ \A i \in 1 .. started : Pending(Table[i]) \/ cur = Table[i]
  /\ tcpActive <=> Pending("tcp") \/ cur = "tcp"
  /\ pcbs => tcpActive

(* What lwip_cyclic_timer puts in the list is not expired at that moment   *)
(* and comes a full interval or more after the time it was due before.     *)
CyclicKeepsPace ==
  [][pc = "run" /\ pc' = "loop" /\ cur \in Cyclic =>
       \E i \in DOMAIN list' : /\ list'[i].h = cur /\ list'[i].left >= 0
                               /\ list'[i].left + late >= Interval[cur]]_vars

(* sys_timeouts_sleeptime answers the time until the first timer is due,   *)
(* and 0 when it is overdue: a wrapped difference is never taken for a     *)
(* long sleep.                                                             *)
SleepTimeExact ==
  list # <<>> => SleepTime = (IF list[1].left < 0 THEN 0 ELSE list[1].left)

(* Every cyclic timer fires again and again, whatever the others do,       *)
(* unless the application rebases the list for ever.                       *)
CyclicFires ==
  <>[][~RestartTimeouts]_vars =>
    \A i \in DOMAIN Table : []<>(pc = "run" /\ cur = Table[i])

(* The TCP timer stops once no control block is left.                      *)
TcpTimerStops ==
  <>[](~pcbs) /\ <>[][~RestartTimeouts]_vars => <>[](~tcpActive)
=============================================================================
