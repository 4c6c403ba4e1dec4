------------------------ MODULE AsyncContextProofs ------------------------
(***************************************************************************)
(* Theorems about AsyncContext, for any application threads, dispatch      *)
(* targets and number of redispatches, with and without the reaper.        *)
(***************************************************************************)
EXTENDS AsyncContext, FiniteSetTheorems, TLAPS

(***************************************************************************)
(* The inductive invariant.  The state alone does not say who moved it:    *)
(* after the compare-and-swap that leaves "Started", the winner finishes   *)
(* with plain stores that check nothing.  The parts say that a thread      *)
(* inside such a call owns the state it is about to overwrite.             *)
(***************************************************************************)

\* Nobody has left async mode before it is entered and left.
NobodyYet == state \in {"Dispatched", "Starting", "Started"} => winners = {}

\* Those who left async mode in this cycle are the same one.
SameWinner == \A v, w \in winners : v = w

\* startAsync()'s second store finds what its first one left.
ServletOwns == pc = "starting" => state = "Starting"

\* complete()'s second store finds its own "Completing".
CompleterOwns ==
  \A a \in App : app[a].at = "completing" => state = "Completing" /\ a \in winners

\* time_out()'s second step finds its own "Timing", the caller's or the reaper's.
TimeoutOwns ==
  /\ pc = "error" \/ reaper = "error" => state = "Timing"
  /\ ~(pc = "error" /\ reaper = "error")

\* A dispatch the caller acts upon is still the state of the request.
DispatchStands ==
  pc = "path" \/ (pc = "got" /\ outcome.kind = "Dispatched") => state = "Dispatching"

AsyncInv ==
  /\ TypeOK /\ NobodyYet /\ SameWinner /\ ServletOwns
  /\ CompleterOwns /\ TimeoutOwns /\ DispatchStands

(* A set whose members are all the same has at most one. *)
LEMMA AtMostOne ==
  ASSUME SameWinner
  PROVE  OneWinner
<1>1. CASE winners = {}
  BY <1>1, FS_EmptySet DEF OneWinner
<1>2. CASE winners # {}
  <2>1. PICK w : w \in winners
    BY <1>2
  <2>2. winners = {w}
    BY <2>1 DEF SameWinner
  <2>3. Cardinality({w}) = 1
    BY FS_Singleton
  <2> QED
    BY <2>2, <2>3 DEF OneWinner
<1> QED
  BY <1>1, <1>2

(* A request that has not been serviced is nobody's. *)
LEMMA AsyncInit == Init => AsyncInv
<1> SUFFICES ASSUME Init PROVE AsyncInv
  OBVIOUS
<1>1. 1 \in 1 .. MaxCycles
  BY AsyncAssumption
<1>2. app \in [App -> [at : {"idle", "completing", "store", "notify"},
                      path : Path \cup {NoPath}]]
  BY DEF Init, Idle
<1>3. timedOut \in BOOLEAN /\ timeout \in BOOLEAN
  BY DEF Init
<1>4. TypeOK
  BY <1>1, <1>2, <1>3 DEF Init, TypeOK, AsyncState, NoOutcome
<1> QED
  BY <1>4 DEF Init, AsyncInv, NobodyYet, SameWinner, ServletOwns, CompleterOwns, TimeoutOwns,
     DispatchStands, Idle

(* The caller's own steps outside time_out() and the redispatch. *)
LEMMA CallerStep ==
  ASSUME AsyncInv,
         \/ StartAsync \/ Started \/ ServiceSync \/ Returned \/ Settle \/ SettlePath
         \/ SettleFlag \/ NotAsync \/ Arm \/ ReadLimit \/ Woken \/ Timer \/ Serialize
  PROVE  AsyncInv'
<1> USE DEF AsyncInv, TypeOK, NobodyYet, SameWinner, ServletOwns, CompleterOwns, TimeoutOwns,
        DispatchStands, AsyncState
<1>1. CASE StartAsync
  BY <1>1 DEF StartAsync, MayAdvance, Legal
<1>2. CASE Started
  BY <1>2 DEF Started
<1>3. CASE ServiceSync
  BY <1>3 DEF ServiceSync
<1>4. CASE Returned
  BY <1>4 DEF Returned
<1>5. CASE Settle
  BY <1>5 DEF Settle, Return
<1>6. CASE SettlePath
  BY <1>6 DEF SettlePath, Return
<1>7. CASE SettleFlag
  BY <1>7 DEF SettleFlag, Return
<1>8. CASE NotAsync
  BY <1>8 DEF NotAsync, Return
<1>9. CASE Arm
  BY <1>9 DEF Arm
<1>10. CASE ReadLimit
  BY <1>10 DEF ReadLimit
<1>11. CASE Woken
  BY <1>11 DEF Woken
<1>12. CASE Timer
  BY <1>12 DEF Timer
<1>13. CASE Serialize
  BY <1>13 DEF Serialize
<1> QED
  BY <1>1, <1>2, <1>3, <1>4, <1>5, <1>6, <1>7, <1>8, <1>9, <1>10, <1>11, <1>12, <1>13

(* A redispatched request starts again with nobody having left async mode. *)
LEMMA RedispatchStep ==
  ASSUME AsyncInv, Redispatch
  PROVE  AsyncInv'
<1> USE DEF AsyncInv, Redispatch
<1>1. state = "Dispatching" /\ state' = "Dispatched"
  BY DEF DispatchStands, MayAdvance, Legal
<1>2. TypeOK'
  BY <1>1, AsyncAssumption DEF TypeOK, AsyncState, NoOutcome
<1> QED
  BY <1>1, <1>2 DEF NobodyYet, SameWinner, ServletOwns, CompleterOwns, TimeoutOwns,
     DispatchStands, TypeOK

(* time_out() by the caller. *)
LEMMA TimeOutKeeps ==
  ASSUME AsyncInv, TimeOut
  PROVE  AsyncInv'
<1> USE DEF AsyncInv, TypeOK, NobodyYet, SameWinner, ServletOwns, CompleterOwns, TimeoutOwns,
        DispatchStands, AsyncState, TimeOut, TimeOutStep
<1>1. CASE pc = "timing"
  BY <1>1 DEF MayAdvance, Legal
<1>2. CASE pc = "error"
  BY <1>2
<1>3. CASE pc = "flagging"
  BY <1>3
<1>4. CASE pc = "notify"
  BY <1>4 DEF Notify
<1> QED
  BY <1>1, <1>2, <1>3, <1>4

(* time_out() by the reaper. *)
LEMMA ReaperKeeps ==
  ASSUME AsyncInv, Reap \/ ReapStep
  PROVE  AsyncInv'
<1> USE DEF AsyncInv, TypeOK, NobodyYet, SameWinner, ServletOwns, CompleterOwns, TimeoutOwns,
        DispatchStands, AsyncState
<1>1. CASE Reap
  BY <1>1 DEF Reap
<1>2. CASE ReapStep
  <2> USE <1>2 DEF ReapStep, TimeOutStep
  <2>1. CASE reaper = "timing"
    BY <2>1 DEF MayAdvance, Legal
  <2>2. CASE reaper = "error"
    BY <2>2
  <2>3. CASE reaper = "flagging"
    BY <2>3
  <2>4. CASE reaper = "notify"
    BY <2>4 DEF Notify
  <2> QED
    BY <2>1, <2>2, <2>3, <2>4
<1> QED
  BY <1>1, <1>2

(* The calls of an application thread. *)
LEMMA AppKeeps ==
  ASSUME AsyncInv, NEW a \in App,
         \/ Complete(a) \/ AppStep(a)
         \/ \E p \in Path : Dispatch(a, p)
         \/ \E on \in BOOLEAN : SetTimeout(a, on)
  PROVE  AsyncInv'
<1> USE DEF AsyncInv, TypeOK, NobodyYet, SameWinner, ServletOwns, CompleterOwns, TimeoutOwns,
        DispatchStands, AsyncState
<1>1. CASE Complete(a)
  BY <1>1 DEF Complete, Move, MayAdvance, Legal
<1>2. CASE Completed(a)
  BY <1>2 DEF Completed, Move
<1>3. CASE StorePath(a)
  BY <1>3 DEF StorePath, Move
<1>4. CASE NotifyWaiters(a)
  BY <1>4 DEF NotifyWaiters, Notify, Idle
<1>5. ASSUME NEW p \in Path, Dispatch(a, p) PROVE AsyncInv'
  BY <1>5 DEF Dispatch, MayAdvance, Legal
<1>6. ASSUME NEW on \in BOOLEAN, SetTimeout(a, on) PROVE AsyncInv'
  BY <1>6 DEF SetTimeout
<1> QED
  BY <1>1, <1>2, <1>3, <1>4, <1>5, <1>6 DEF AppStep

(* Every step keeps the invariant. *)
LEMMA AsyncNext == AsyncInv /\ [Next]_vars => AsyncInv'
<1> SUFFICES ASSUME AsyncInv, [Next]_vars PROVE AsyncInv'
  OBVIOUS
<1>1. CASE Servlet \/ Caller \/ Timer
  BY <1>1, CallerStep, RedispatchStep, TimeOutKeeps DEF Servlet, Caller
<1>2. ASSUME NEW a \in App,
             \/ Complete(a) \/ AppStep(a)
             \/ \E p \in Path : Dispatch(a, p)
             \/ \E on \in BOOLEAN : SetTimeout(a, on)
      PROVE  AsyncInv'
  BY <1>2, AppKeeps
<1>3. CASE Reap \/ ReapStep
  BY <1>3, ReaperKeeps
<1>4. CASE UNCHANGED vars
  BY <1>4 DEF vars, AsyncInv, TypeOK, NobodyYet, SameWinner, ServletOwns, CompleterOwns,
     TimeoutOwns, DispatchStands
<1> QED
  BY <1>1, <1>2, <1>3, <1>4 DEF Next

(* The race to leave async mode (AsyncContextState::advance and the stores *)
(* that follow it in complete, dispatch and time_out): whatever the        *)
(* threads, the timer and the reaper do, one of them wins each             *)
(* startAsync(), and every cell stays in its range.                        *)
THEOREM OneWayOutHolds == Spec => []OneWayOut
<1>1. Init => AsyncInv
  BY AsyncInit
<1>2. AsyncInv /\ [Next]_vars => AsyncInv'
  BY AsyncNext
<1>3. AsyncInv => OneWayOut
  BY AtMostOne DEF AsyncInv, OneWayOut
<1> QED
  BY <1>1, <1>2, <1>3, PTL DEF Spec

(***************************************************************************)
(* No lost wake-up.  What the wait rests on: the caller holds a signal     *)
(* from the moment it looks again, an unfinished move has a thread that    *)
(* finishes it, and a request that has been serviced is past startAsync(). *)
(***************************************************************************)
SignalHeld == Waiting \/ (pc = "settle" /\ site = "again") => signal # "none"

MovesFinished ==
  /\ state = "Completing" => \E a \in App : app[a].at = "completing"
  /\ state = "Timing" => pc = "error" \/ reaper = "error"

PastStart ==
  pc \notin {"service", "starting", "done"} => state \notin {"Dispatched", "Starting"}

WakeInv == SignalHeld /\ MovesFinished /\ PastStart /\ NoLostWakeup

(* The caller's steps. *)
LEMMA CallerWakes ==
  ASSUME AsyncInv, WakeInv, Servlet \/ Caller \/ Timer
  PROVE  WakeInv'
<1> USE DEF AsyncInv, TypeOK, WakeInv, SignalHeld, MovesFinished, PastStart, NoLostWakeup,
        Waiting, Finishing, AsyncState
<1>1. CASE StartAsync
  BY <1>1 DEF StartAsync
<1>2. CASE Started
  BY <1>2 DEF Started
<1>3. CASE ServiceSync
  BY <1>3 DEF ServiceSync
<1>4. CASE Returned
  BY <1>4 DEF Returned
<1>5. CASE Settle
  BY <1>5 DEF Settle, Return
<1>6. CASE SettlePath
  BY <1>6 DEF SettlePath, Return
<1>7. CASE SettleFlag
  BY <1>7 DEF SettleFlag, Return
<1>8. CASE NotAsync
  BY <1>8 DEF NotAsync, Return
<1>9. CASE Arm
  BY <1>9 DEF Arm
<1>10. CASE ReadLimit
  BY <1>10 DEF ReadLimit
<1>11. CASE Woken
  BY <1>11 DEF Woken
<1>12. CASE Timer
  BY <1>12 DEF Timer
<1>13. CASE Serialize
  BY <1>13 DEF Serialize
<1>14. CASE Redispatch
  BY <1>14 DEF Redispatch, DispatchStands, MayAdvance, Legal
<1>15. CASE TimeOut
  BY <1>15 DEF TimeOut, TimeOutStep, MayAdvance, Legal, TimeoutOwns, Notify
<1> QED
  BY <1>1, <1>2, <1>3, <1>4, <1>5, <1>6, <1>7, <1>8, <1>9, <1>10, <1>11, <1>12, <1>13,
     <1>14, <1>15 DEF Servlet, Caller

(* The reaper's steps: its last one fires the signal. *)
LEMMA ReaperWakes ==
  ASSUME AsyncInv, WakeInv, Reap \/ ReapStep
  PROVE  WakeInv'
<1> USE DEF AsyncInv, TypeOK, WakeInv, SignalHeld, MovesFinished, PastStart, NoLostWakeup,
        Waiting, Finishing, AsyncState
<1>1. CASE Reap
  BY <1>1 DEF Reap
<1>2. CASE ReapStep
  <2> USE <1>2 DEF ReapStep, TimeOutStep
  <2>1. CASE reaper = "timing"
    BY <2>1 DEF MayAdvance, Legal
  <2>2. CASE reaper = "error"
    BY <2>2 DEF TimeoutOwns
  <2>3. CASE reaper = "flagging"
    BY <2>3
  <2>4. CASE reaper = "notify"
    BY <2>4 DEF Notify
  <2> QED
    BY <2>1, <2>2, <2>3, <2>4
<1> QED
  BY <1>1, <1>2

(* The application's calls: a thread inside one keeps the caller's hope    *)
(* alive until its last step fires the signal.                             *)
LEMMA AppWakes ==
  ASSUME AsyncInv, WakeInv, NEW a \in App,
         \/ Complete(a) \/ AppStep(a)
         \/ \E p \in Path : Dispatch(a, p)
         \/ \E on \in BOOLEAN : SetTimeout(a, on)
  PROVE  WakeInv'
<1> USE DEF AsyncInv, TypeOK, WakeInv, SignalHeld, MovesFinished, PastStart, NoLostWakeup,
        Waiting, Finishing, AsyncState
<1>1. CASE Complete(a)
  BY <1>1 DEF Complete, Move, MayAdvance, Legal
<1>2. CASE Completed(a)
  BY <1>2 DEF Completed, Move, CompleterOwns
<1>3. CASE StorePath(a)
  BY <1>3 DEF StorePath, Move
<1>4. CASE NotifyWaiters(a)
  BY <1>4 DEF NotifyWaiters, Notify, Idle
<1>5. ASSUME NEW p \in Path, Dispatch(a, p) PROVE WakeInv'
  BY <1>5 DEF Dispatch, MayAdvance, Legal
<1>6. ASSUME NEW on \in BOOLEAN, SetTimeout(a, on) PROVE WakeInv'
  BY <1>6 DEF SetTimeout
<1> QED
  BY <1>1, <1>2, <1>3, <1>4, <1>5, <1>6 DEF AppStep

(* await_completion arms its Notified before it looks at the state again:  *)
(* a request that leaves async mode at any moment of the wait has fired    *)
(* the signal or is in the hands of a thread that will, for any number of  *)
(* threads.                                                                *)
THEOREM WakeupsNotLost == Spec => []NoLostWakeup
<1>1. Init => AsyncInv /\ WakeInv
  BY AsyncInit DEF Init, WakeInv, SignalHeld, MovesFinished, PastStart, NoLostWakeup, Waiting
<1>2. AsyncInv /\ WakeInv /\ [Next]_vars => AsyncInv' /\ WakeInv'
  <2> SUFFICES ASSUME AsyncInv, WakeInv, [Next]_vars PROVE WakeInv'
    BY AsyncNext
  <2>1. CASE Servlet \/ Caller \/ Timer
    BY <2>1, CallerWakes
  <2>2. ASSUME NEW a \in App,
               \/ Complete(a) \/ AppStep(a)
               \/ \E p \in Path : Dispatch(a, p)
               \/ \E on \in BOOLEAN : SetTimeout(a, on)
        PROVE  WakeInv'
    BY <2>2, AppWakes
  <2>3. CASE Reap \/ ReapStep
    BY <2>3, ReaperWakes
  <2>4. CASE UNCHANGED vars
    BY <2>4 DEF vars, WakeInv, SignalHeld, MovesFinished, PastStart, NoLostWakeup, Waiting,
       Finishing
  <2> QED
    BY <2>1, <2>2, <2>3, <2>4 DEF Next
<1>3. WakeInv => NoLostWakeup
  BY DEF WakeInv
<1> QED
  BY <1>1, <1>2, <1>3, PTL DEF Spec

(* Both together, as the run of the container checks them: an asynchronous *)
(* request of async_servlet.rs ends once and its caller hears of it.       *)
THEOREM AsyncSound == Spec => []EndsOnceHeard
<1>1. OneWayOut /\ NoLostWakeup => EndsOnceHeard
  BY DEF EndsOnceHeard
<1> QED
  BY <1>1, OneWayOutHolds, WakeupsNotLost, PTL
=============================================================================
