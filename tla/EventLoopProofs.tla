--------------------------- MODULE EventLoopProofs --------------------------
(***************************************************************************)
(* Proofs about the event loop and wifi_cleanup, for every event set, queue*)
(* size and number of events.  The safety of the teardown needs that the   *)
(* write of "Exit" and the read of the answer do not fail; hang-ups and a  *)
(* lost "Done" are allowed.                                                *)
(***************************************************************************)
EXTENDS EventLoop, TLAPS

USE EventLoopAssumption DEF EventLoopAssumption

\* Receiving an event from the socket's queue, and queueing one, keep it a
\* sequence of events.
LEMMA QueueTyping ==
    ASSUME NEW q \in Seq(Event)
    PROVE  /\ q # <<>> => Tail(q) \in Seq(Event)
           /\ \A e \in Event : Append(q, e) \in Seq(Event)
  OBVIOUS

\* The state that wifi_initialize leaves is well typed.
LEMMA InitTyping == Init => TypeOK
<1> SUFFICES ASSUME Init PROVE TypeOK
  OBVIOUS
<1>1. <<>> \in Seq(Event) /\ 0 \in 0..MaxEvents
  OBVIOUS
<1>2. loop \in LoopPc /\ cleaner \in CleanerPc /\ sock = "ok" /\ info = "live"
  BY DEF Init, LoopPc, CleanerPc
<1>3. /\ in_event_loop \in BOOLEAN /\ clean_up \in BOOLEAN
      /\ exitMsg \in BOOLEAN /\ doneMsg \in BOOLEAN
  BY Zenon DEF Init
<1>4. queue = <<>> /\ sent = 0
  BY DEF Init
<1>5. QED
  BY <1>1, <1>2, <1>3, <1>4 DEF TypeOK

\* The variables keep their types in every behaviour, faults included.
THEOREM TypeCorrect == Spec => []TypeOK
<1>1. Init => TypeOK
  BY InitTyping
<1>2. TypeOK /\ [Next]_vars => TypeOK'
  <2> SUFFICES ASSUME TypeOK, [Next]_vars PROVE TypeOK'
    OBVIOUS
  <2> USE DEF TypeOK, LoopPc, CleanerPc, loopVars, sockVars, pairVars, cleanVars
  <2>1. ASSUME NEW e \in Event, KernelSend(e) PROVE TypeOK'
    BY <2>1, QueueTyping DEF KernelSend
  <2>2. CASE KernelHangUp
    BY <2>2 DEF KernelHangUp
  <2>3. CASE EnterLoop
    BY <2>3 DEF EnterLoop
  <2>4. CASE PollError
    BY <2>4 DEF PollError
  <2>5. CASE PollHangUp
    BY <2>5 DEF PollHangUp
  <2>6. CASE PollIn
    BY <2>6, QueueTyping DEF PollIn
  <2>7. CASE Handled
    BY <2>7 DEF Handled
  <2>8. CASE PollExit
    BY <2>8 DEF PollExit
  <2>9. CASE CheckCleanUp
    BY <2>9 DEF CheckCleanUp
  <2>10. CASE CleanupBegin
    BY <2>10 DEF CleanupBegin
  <2>11. CASE CleanerStep \/ CleanupReadFails
    BY <2>11, ZenonT(40)
       DEF CleanerStep, CleanupRead, CleanupReadFails, CleanupFlag, CleanupCancelled,
                 CleanupClose, CleanupFree
  <2>12. CASE UNCHANGED vars
    BY <2>12 DEF vars
  <2>13. QED
    BY <2>1, <2>2, <2>3, <2>4, <2>5, <2>6, <2>7, <2>8, <2>9, <2>10, <2>11, <2>12
       DEF Next, KernelStep, LoopStep
<1>3. QED
  BY <1>1, <1>2, PTL DEF Spec

\* The invariant of the handshake between wifi_event_loop and wifi_cleanup:
\* from the "Done" of the loop until the handle is freed the loop thread is out
\* of wifi_event_loop and in_event_loop keeps every later call out.  It needs
\* that the write of "Exit" and the read of the answer do not fail.
THEOREM HandshakeInvariant ==
    ASSUME Faults \cap {"exitWrite", "doneRead"} = {}
    PROVE  Spec => []IInv
<1>1. Init => IInv
  BY InitTyping DEF Init, IInv, LoopGone
<1>2. TypeOK' /\ IInv /\ [Next]_vars => IInv'
  <2> SUFFICES ASSUME TypeOK', IInv, [Next]_vars PROVE IInv'
    OBVIOUS
  <2> USE DEF IInv, LoopGone, loopVars, sockVars, pairVars, cleanVars
  <2>1. CASE KernelStep
    BY <2>1 DEF KernelStep, KernelSend, KernelHangUp
  <2>2. CASE EnterLoop
    BY <2>2 DEF EnterLoop, TypeOK, CleanerPc
  <2>3. CASE PollError \/ PollHangUp \/ PollIn \/ Handled \/ CheckCleanUp
    BY <2>3 DEF PollError, PollHangUp, PollIn, Handled, CheckCleanUp
  <2>4. CASE PollExit
    BY <2>4 DEF PollExit, TypeOK
  <2>5. CASE CleanupBegin
    BY <2>5 DEF CleanupBegin, TypeOK, CleanerPc
  <2>6. CASE CleanerStep \/ CleanupReadFails
    BY <2>6 DEF CleanerStep, CleanupRead, CleanupReadFails, CleanupFlag,
                CleanupCancelled, CleanupClose, CleanupFree, TypeOK, CleanerPc
  <2>7. CASE UNCHANGED vars
    BY <2>7 DEF vars
  <2>8. QED
    BY <2>1, <2>2, <2>3, <2>4, <2>5, <2>6, <2>7 DEF Next, LoopStep
<1>3. QED
  BY <1>1, <1>2, TypeCorrect, PTL DEF Spec

\* wifi_cleanup never closes or frees what the loop thread still uses.
THEOREM TeardownIsSafe ==
    ASSUME Faults \cap {"exitWrite", "doneRead"} = {}
    PROVE  Spec => []TornDownAfterLoop
<1>1. IInv => TornDownAfterLoop
  BY DEF IInv, TypeOK, CleanerPc, LoopGone, TornDownAfterLoop
<1>2. QED
  BY <1>1, HandshakeInvariant, PTL

\* The loop and wifi_cleanup implement the promise of module Shutdown: no
\* callback begins after the loop has stopped, and the handle goes last.
THEOREM ImplementsShutdown ==
    ASSUME Faults \cap {"exitWrite", "doneRead"} = {}
    PROVE  Spec => KeepsPromise
<1>1. Init => Promise!Init
  BY DEF Init, Promise!Init, phaseBar, busyBar
<1>2. IInv /\ IInv' /\ [Next]_vars => [Promise!Next]_Promise!shutdownVars
  <2> SUFFICES ASSUME IInv, IInv', [Next]_vars
               PROVE  [Promise!Next]_Promise!shutdownVars
    OBVIOUS
  <2> USE DEF phaseBar, busyBar, Promise!shutdownVars, loopVars, sockVars,
              pairVars, cleanVars
  <2>1. CASE KernelStep
    BY <2>1 DEF KernelStep, KernelSend, KernelHangUp
  <2>2. CASE EnterLoop \/ PollError \/ PollHangUp \/ PollExit \/ CheckCleanUp
    BY <2>2 DEF EnterLoop, PollError, PollHangUp, PollExit, CheckCleanUp
  <2>3. CASE PollIn
    <3>1. phaseBar \in {"up", "closing"}
      BY <2>3 DEF PollIn, IInv, LoopGone, TypeOK, CleanerPc
    <3>2. Promise!CallbackBegins
      BY <2>3, <3>1 DEF PollIn, Promise!CallbackBegins
    <3>3. QED
      BY <3>2 DEF Promise!Next
  <2>4. CASE Handled
    BY <2>4 DEF Handled, Promise!Next, Promise!CallbackEnds
  <2>5. CASE CleanupBegin
    BY <2>5 DEF CleanupBegin, Promise!Next, Promise!Close
  <2>6. CASE CleanupFlag
    <3>1. Promise!Stopped
      BY <2>6 DEF CleanupFlag, Promise!Stopped, IInv, LoopGone
    <3>2. QED
      BY <3>1 DEF Promise!Next
  <2>7. CASE CleanupFree
    BY <2>7 DEF CleanupFree, Promise!Next, Promise!Down
  <2>8. CASE CleanupRead \/ CleanupReadFails \/ CleanupCancelled \/ CleanupClose
    BY <2>8 DEF CleanupRead, CleanupReadFails, CleanupCancelled, CleanupClose
  <2>9. CASE UNCHANGED vars
    BY <2>9 DEF vars
  <2>10. QED
    BY <2>1, <2>2, <2>3, <2>4, <2>5, <2>6, <2>7, <2>8, <2>9
       DEF Next, LoopStep, CleanerStep
<1>3. QED
  BY <1>1, <1>2, HandshakeInvariant, PTL DEF Spec, KeepsPromise, Promise!Spec
=============================================================================
