-------------------------- MODULE PtSemSafe_proofs --------------------------
(***************************************************************************)
(* What the safe semaphores promise, for any number of signals.  Between   *)
(* threads that take turns they count exactly; on one core no interrupt    *)
(* makes the waiter pass without a signal.  Neither holds of two cores     *)
(* (Balance in PtSemSafeCores.cfg), for which only the types are proved.   *)
(***************************************************************************)
EXTENDS PtSemSafe, TLAPS

(* The waiter loads and stores a count that is not 0.                      *)
Positive ==
  /\ wait = "load" => count > 0
  /\ wait = "store" => wait_reg > 0 /\ count > 0

TypeInv == TypeOK /\ Positive

(* A signal that has begun and is not in the count yet; a decrement whose  *)
(* waiter has not passed yet.                                              *)
Begun == IF signal \in {"lock", "load", "store"} THEN 1 ELSE 0
Taken == IF wait = "unlock_pass" THEN 1 ELSE 0

(* On one core the signaller is never cut between its load and its store,  *)
(* and the waiter only so that the count has grown meanwhile.              *)
OneCore ==
  regime # "cores" =>
    /\ signal = "store" => signal_reg = count
    /\ wait = "store" => wait_reg <= count
    /\ count + Begun + passed + Taken <= signalled

(* Threads that take turns are not cut at all.                             *)
InTurns ==
  regime = "threads" =>
    /\ signal # "idle" => wait \in {"enter", "yielded"}
    /\ wait = "store" => wait_reg = count
    /\ count + Begun + passed + Taken = signalled

IInv == TypeInv /\ OneCore /\ InTurns

(* The semaphore starts in the invariant.                                  *)
LEMMA InitIInv == Init => IInv
<1> SUFFICES ASSUME Init PROVE IInv
  OBVIOUS
<1>1. TypeOK
  <2>1. locked \in BOOLEAN
    BY Zenon DEF Init
  <2>2. QED
    BY <2>1, RegimesAssumption DEF Init, TypeOK, WaitPc, SignalPc
<1>2. Positive /\ OneCore /\ InTurns
  BY DEF Init, Positive, OneCore, InTurns, Begun, Taken
<1>3. QED
  BY <1>1, <1>2 DEF IInv, TypeInv

(* Each step of the waiter keeps the invariant.                            *)
LEMMA WaiterIInv == ASSUME IInv, Waiter PROVE IInv'
<1> USE DEF IInv, TypeInv, TypeOK, Positive, OneCore, InTurns, WaitPc,
            SignalPc, Begun, Taken, Goto, WaiterRuns, signallerVars
<1>1. CASE WaitLock
  BY <1>1 DEF WaitLock
<1>2. CASE Yield
  BY <1>2 DEF Yield
<1>3. CASE Resume
  BY <1>3 DEF Resume
<1>4. CASE Test
  BY <1>4 DEF Test
<1>5. CASE WaitLoad
  BY <1>5 DEF WaitLoad
<1>6. CASE WaitStore
  BY <1>6 DEF WaitStore
<1>7. CASE Pass
  <2>1. TypeOK'
    <3>1. locked' \in BOOLEAN
      BY <1>7, Zenon DEF Pass
    <3>2. QED
      BY <1>7, <3>1 DEF Pass
  <2>2. Positive'
    BY <1>7 DEF Pass
  <2>3. OneCore'
    BY <1>7 DEF Pass
  <2>4. InTurns'
    BY <1>7 DEF Pass
  <2>5. QED
    BY <2>1, <2>2, <2>3, <2>4
<1>8. QED
  BY <1>1, <1>2, <1>3, <1>4, <1>5, <1>6, <1>7 DEF Waiter

(* Each step of the signaller keeps the invariant.                         *)
LEMMA SignallerIInv == ASSUME IInv, Signaller PROVE IInv'
<1> USE RegimesAssumption
    DEF IInv, TypeInv, TypeOK, Positive, OneCore, InTurns, WaitPc,
        SignalPc, Begun, Taken, Step, SignallerRuns, waiterVars
<1>1. CASE SignalBegin
  BY <1>1 DEF SignalBegin
<1>2. CASE SignalLock
  BY <1>2 DEF SignalLock
<1>3. CASE SignalLoad
  BY <1>3 DEF SignalLoad
<1>4. CASE SignalStore
  BY <1>4 DEF SignalStore
<1>5. CASE SignalUnlock
  BY <1>5 DEF SignalUnlock
<1>6. QED
  BY <1>1, <1>2, <1>3, <1>4, <1>5 DEF Signaller

(* The inductive invariant of the semaphore, in all three regimes.         *)
THEOREM SemIInv == Spec => []IInv
<1>1. Init => IInv
  BY InitIInv
<1>2. IInv /\ [Next]_vars => IInv'
  <2> SUFFICES ASSUME IInv, [Next]_vars
               PROVE  IInv'
    OBVIOUS
  <2>1. CASE Waiter
    BY <2>1, WaiterIInv
  <2>2. CASE Signaller
    BY <2>2, SignallerIInv
  <2>3. CASE UNCHANGED vars
    BY <2>3 DEF vars, IInv, TypeInv, TypeOK, Positive, OneCore, InTurns,
                Begun, Taken
  <2>4. QED
    BY <2>1, <2>2, <2>3 DEF Next
<1>3. QED
  BY <1>1, <1>2, PTL DEF Spec

(* The count is never negative, whoever is cut where.                      *)
THEOREM SemTypeCorrect == Spec => []TypeOK
<1>1. IInv => TypeOK
  BY DEF IInv, TypeInv
<1>2. QED
  BY <1>1, SemIInv, PTL

(* Threads of one core that take turns lose no signal and gain none.       *)
THEOREM SemBalanceInTurns == Spec => []BalanceInTurns
<1>1. IInv => BalanceInTurns
  BY DEF IInv, TypeInv, TypeOK, InTurns, Begun, Taken, BalanceInTurns,
         Balance, AtWork
<1>2. QED
  BY <1>1, SemIInv, PTL

(* On one core the waiter never passes without a signal, wherever an       *)
(* interrupt comes.                                                        *)
THEOREM SemNeverSpurious ==
  ASSUME "cores" \notin Regimes PROVE Spec => []NeverSpurious
<1>1. IInv => NeverSpurious
  BY DEF IInv, TypeInv, TypeOK, OneCore, Begun, Taken, NeverSpurious
<1>2. QED
  BY <1>1, SemIInv, PTL
=============================================================================
