------------------------------ MODULE PtSemSafe ------------------------------
(***************************************************************************)
(* PT_SEM_SAFE_WAIT and PT_SEM_SAFE_SIGNAL of the protothreads header, one *)
(* memory access at a time: a waiter and a signaller of one semaphore,     *)
(* whose spin lock all semaphores share.                                   *)
(*                                                                         *)
(* WAIT takes the lock, sets its resume point, gives the lock back and     *)
(* yields.  The scheduler resumes it after the resume point, and so past   *)
(* the line that takes the lock: the test and the decrement run without    *)
(* it, and then the lock is given back, whoever has it.                    *)
(*                                                                         *)
(* The programs use it in three ways, the regimes of this module.          *)
(* "threads": the recv and ack threads of distance_vector/main.c both run  *)
(* on core 0 and take turns (new_udp_ack_s).  "interrupt":                 *)
(* udp_recv_callback interrupts the thread that waits and runs to its end  *)
(* (new_udp_recv_s).  "cores": in udp_send_recv_multicore.c the serial     *)
(* thread of core 0 signals the send thread of core 1 (new_udp_send_s).    *)
(***************************************************************************)
EXTENDS Integers

CONSTANTS Regimes,     \* the regimes to look at
          MaxSignals   \* bound on the signals

ASSUME RegimesAssumption ==
  /\ Regimes \subseteq {"threads", "interrupt", "cores"}
  /\ MaxSignals \in Nat

VARIABLES
  regime,     \* never changes
  locked,     \* sem_lock
  count,      \* (s)->count
  wait,       \* where the waiter is
  wait_reg,   \* the count it has loaded
  signal,     \* where the signaller is
  signal_reg,
  signalled,  \* how often a signal was begun
  passed      \* how often the waiter got past its WAIT

vars == <<regime, locked, count, wait, wait_reg, signal, signal_reg, signalled,
          passed>>

WaitPc == {"enter", "unlock_yield", "yielded", "test", "load", "store",
           "unlock_pass", "unlock_retry"}
SignalPc == {"idle", "lock", "load", "store", "unlock"}

TypeOK ==
  /\ regime \in Regimes
  /\ locked \in BOOLEAN
  /\ count \in Nat /\ wait_reg \in Nat /\ signal_reg \in Nat
  /\ wait \in WaitPc
  /\ signal \in SignalPc
  /\ signalled \in 0 .. MaxSignals
  /\ passed \in Nat

Init ==
  /\ regime \in Regimes
  /\ locked = FALSE
  /\ count = 0
  /\ wait = "enter" /\ wait_reg = 0
  /\ signal = "idle" /\ signal_reg = 0
  /\ signalled = 0 /\ passed = 0

(* Who may run: threads of one core take turns when they yield, and an     *)
(* interrupt comes at any time and holds up its core.                      *)
WaiterRuns == regime = "cores" \/ signal = "idle"
SignallerRuns == regime = "threads" => wait \in {"enter", "yielded"}

Goto(from, to) == wait = from /\ wait' = to /\ WaiterRuns

Step(from, to) == signal = from /\ signal' = to /\ SignallerRuns

waiterVars == <<regime, wait, wait_reg, passed>>
signallerVars == <<regime, signal, signal_reg, signalled>>

-----------------------------------------------------------------------------
(* PT_SEM_SAFE_WAIT *)
WaitLock ==
  /\ Goto("enter", "unlock_yield")
  /\ ~ locked
  /\ locked' = TRUE
  /\ UNCHANGED <<count, wait_reg, passed, signallerVars>>

(* Mutant of Yield: the lock is kept on the way out. *)
YieldLocked ==
  /\ Goto("unlock_yield", "yielded") \/ Goto("unlock_retry", "yielded")
  /\ UNCHANGED <<locked, count, wait_reg, passed, signallerVars>>

(* PT_YIELD_FLAG is 0 the first time.                                      *)
Yield ==
  /\ Goto("unlock_yield", "yielded") \/ Goto("unlock_retry", "yielded")
  /\ locked' = FALSE
  /\ UNCHANGED <<count, wait_reg, passed, signallerVars>>

Resume ==
  /\ Goto("yielded", "test")
  /\ UNCHANGED <<locked, count, wait_reg, passed, signallerVars>>

(* Mutant of Test: off by one *)
TestZero ==
  /\ \/ count >= 0 /\ Goto("test", "load")
     \/ count < 0 /\ Goto("test", "unlock_retry")
  /\ UNCHANGED <<locked, count, wait_reg, passed, signallerVars>>

Test ==
  /\ \/ count > 0 /\ Goto("test", "load")
     \/ count <= 0 /\ Goto("test", "unlock_retry")
  /\ UNCHANGED <<locked, count, wait_reg, passed, signallerVars>>

WaitLoad ==
  /\ Goto("load", "store")
  /\ wait_reg' = count
  /\ UNCHANGED <<locked, count, passed, signallerVars>>

(* Mutant of WaitStore: no decrement *)
WaitStoreNothing ==
  /\ Goto("store", "unlock_pass")
  /\ UNCHANGED <<locked, count, wait_reg, passed, signallerVars>>

WaitStore ==
  /\ Goto("store", "unlock_pass")
  /\ count' = wait_reg - 1
  /\ UNCHANGED <<locked, wait_reg, passed, signallerVars>>

Pass ==
  /\ Goto("unlock_pass", "enter")
  /\ locked' = FALSE
  /\ passed' = passed + 1
  /\ UNCHANGED <<count, wait_reg, signallerVars>>

Waiter == WaitLock \/ Yield \/ Resume \/ Test \/ WaitLoad \/ WaitStore \/ Pass

(* PT_SEM_SAFE_SIGNAL *)
SignalBegin ==
  /\ Step("idle", "lock")
  /\ signalled < MaxSignals
  /\ signalled' = signalled + 1
  /\ UNCHANGED <<locked, count, signal_reg, waiterVars>>

SignalLock ==
  /\ Step("lock", "load")
  /\ ~ locked
  /\ locked' = TRUE
  /\ UNCHANGED <<count, signal_reg, signalled, waiterVars>>

SignalLoad ==
  /\ Step("load", "store")
  /\ signal_reg' = count
  /\ UNCHANGED <<locked, count, signalled, waiterVars>>

SignalStore ==
  /\ Step("store", "unlock")
  /\ count' = signal_reg + 1
  /\ UNCHANGED <<locked, signal_reg, signalled, waiterVars>>

SignalUnlock ==
  /\ Step("unlock", "idle")
  /\ locked' = FALSE
  /\ UNCHANGED <<count, signal_reg, signalled, waiterVars>>

Signaller ==
  SignalBegin \/ SignalLock \/ SignalLoad \/ SignalStore \/ SignalUnlock

Next == Waiter \/ Signaller

Spec == Init /\ [][Next]_vars

(* The scheduler resumes the waiter again and again, and a signal that has *)
(* begun goes on as long as it may.                                        *)
FairSpec == Spec /\ WF_vars(Waiter) /\ WF_vars(SignalLock) /\ WF_vars(SignalLoad)
                 /\ WF_vars(SignalStore) /\ WF_vars(SignalUnlock)
-----------------------------------------------------------------------------
(* Each signal lets the waiter pass once: when neither is at work, count   *)
(* is what was signalled and not passed yet.                               *)
AtWork == wait \in {"load", "store", "unlock_pass"} \/ signal # "idle"
Balance == ~ AtWork => count = signalled - passed

(* Threads of one core that take turns lose no signal and gain none:       *)
(* PicoNetwork's atomic semaphores stand on it.                            *)
BalanceInTurns == regime = "threads" => Balance

(* The waiter never passes without a signal, not even if an interrupt      *)
(* comes between any two of its steps.                                     *)
NeverSpurious == passed <= signalled

(* main.c:86 of udp_recv_callback: "Signal waiting threads".  It gets to   *)
(* do so: the interrupt never spins on a lock that the thread it holds up  *)
(* has taken, which would stop the core for good.                          *)
NeverHangs == ~ (regime = "interrupt" /\ signal = "lock" /\ locked)

(* Between threads that take turns every signal is taken.                  *)
AllTakenInTurns ==
  regime = "threads" /\ signalled = MaxSignals ~> passed = MaxSignals
=============================================================================
