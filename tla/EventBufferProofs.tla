------------------------- MODULE EventBufferProofs --------------------------
(***************************************************************************)
(* Proofs about the two handlers that keep a buffer from one event of the  *)
(* driver to the next:                                                     *)
(*  - the results of a ranging request (RttResults), for every size of the *)
(*    array, every number of results, and all shapes of results;             *)
(*  - the dump buffer of SetAlertHandler (AlertDump, at the end), for all  *)
(*    lengths, ring sizes, numbers of events and failures.                 *)
(***************************************************************************)
EXTENDS RttResults, AlertDump, TLAPS

USE RttResultsAssumption DEF RttResultsAssumption

\* A new RttCommand has no results.
LEMMA Initially == Init => IInv
<1> SUFFICES ASSUME Init PROVE IInv
  OBVIOUS
<1>1. TypeOK /\ Phases
  <2>1. last.shape \in Shape
    BY DEF Init
  <2>2. rttResults \in [Slots -> 0..DriverMax]
    <3>1. rttResults = [i \in Slots |-> 0] /\ 0 \in 0..DriverMax
      BY DEF Init, NULL
    <3>2. QED
      BY <3>1
  <2>3. Phases
    BY DEF Init, Phases
  <2>4. pc \in Pc /\ registered \in BOOLEAN /\ skip \in BOOLEAN
    BY Zenon DEF Init, Pc
  <2>5. /\ mCompleted \in 0..1 /\ currentIdx \in 0..MaxResults
        /\ totalCnt \in Nat /\ sent \in 0..DriverMax
        /\ heap \subseteq 1..DriverMax /\ reports \in Nat
    BY DEF Init
  <2>6. QED
    BY <2>1, <2>2, <2>3, <2>4, <2>5 DEF TypeOK
<1>2. Gathered
  BY DEF Init, Gathered, Stored
<1>3. ElementsRight
  BY DEF Init, ElementsRight
<1>4. QED
  BY <1>1, <1>2, <1>3 DEF IInv

\* Steps that touch neither the array nor its counters keep what is gathered,
\* also when more results have been sent.
LEMMA GatheredKept ==
    ASSUME Gathered, TypeOK,
           UNCHANGED <<currentIdx, totalCnt, rttResults, heap>>,
           sent' \in Nat, sent <= sent'
    PROVE  Gathered'
<1>1. /\ totalCnt' = currentIdx' /\ currentIdx' <= sent'
      /\ Stored' = Stored
  BY DEF Gathered, TypeOK, Stored
<1>2. \A i \in Stored : rttResults'[i] \in 1..sent'
  BY DEF Gathered, TypeOK
<1>3. QED
  BY <1>1, <1>2 DEF Gathered

\* What looking for LCI and LCR finds and reads.
LEMMA LookedRight ==
    ASSUME NEW s \in Shape, last' = Looked(s)
    PROVE  ElementsRight' /\ last'.shape \in Shape
<1>1. /\ s.extra \in Nat /\ s.len \in Nat /\ s.len > 0
      /\ StructLen \in Nat /\ HdrLen \in Nat /\ HdrLen <= StructLen
  <2>1. s.extra \in ExtraLens /\ s.len \in IeLens
    BY DEF Shape
  <2>2. s.extra \in Nat /\ s.len \in Nat \ {0}
    BY <2>1
  <2>3. StructLen \in Nat /\ HdrLen \in 1..StructLen
    OBVIOUS
  <2>4. QED
    BY <2>2, <2>3
<1>2. /\ last'.shape = s /\ last'.read = Headers(s)
      /\ last'.LCI = Found(s, "LCI") /\ last'.LCR = Found(s, "LCR")
  BY DEF Looked
<1>3. ASSUME NEW f \in {"LCI", "LCR"}
      PROVE  Found(s, f) \in {"ele_1", "ele_2"} => s[Found(s, f)] = f
  <2>1. CASE s.extra > 0 /\ s.ele_1 = f
    <3>1. Found(s, f) = "ele_1"
      BY <2>1 DEF Found
    <3>2. QED
      BY <2>1, <3>1
  <2>2. CASE ~(s.extra > 0 /\ s.ele_1 = f)
             /\ s.extra > 0 /\ s.ele_1 \notin {"other", f} /\ Left(s) > 0
             /\ s.ele_2 = f
    <3>1. Found(s, f) = "ele_2"
      BY <2>2 DEF Found
    <3>2. QED
      BY <2>2, <3>1
  <2>3. CASE /\ ~(s.extra > 0 /\ s.ele_1 = f)
             /\ ~(s.extra > 0 /\ s.ele_1 \notin {"other", f} /\ Left(s) > 0
                  /\ s.ele_2 = f)
    <3>1. Found(s, f) = "driver"
      BY <2>3 DEF Found
    <3>2. QED
      BY <3>1
  <2>4. QED
    BY <2>1, <2>2, <2>3
<1>4. ASSUME NEW o \in Headers(s)
      PROVE  o + HdrLen <= s.extra \/ (o = 0 /\ s.extra < HdrLen)
  <2>1. CASE o = 0
    BY <1>1, <2>1
  <2>2. CASE o = s.len
    <3>1. s.extra - StructLen - s.len > 0
      BY <2>2 DEF Headers, Left
    <3>2. QED
      BY <1>1, <2>2, <3>1
  <2>3. QED
    BY <2>1, <2>2 DEF Headers
<1>5. \A f \in {"LCI", "LCR"} : last'[f] = Found(s, f)
  BY <1>2
<1>6. ElementsRight'
  BY <1>2, <1>3, <1>4, <1>5 DEF ElementsRight
<1>7. QED
  BY <1>2, <1>6

\* A result that is stored comes behind the ones before it, within the array.
LEMMA ResultStored ==
    ASSUME IInv, NEW s \in Shape, pc = "attrs", sent < DriverMax,
           sent' = sent + 1, currentIdx \in Slots, StoreResult(s),
           UNCHANGED <<registered, reports>>
    PROVE  IInv'
<1> USE DEF IInv
<1>1. /\ currentIdx \in Nat /\ sent \in Nat /\ totalCnt = currentIdx
      /\ currentIdx < MaxResults
  BY DEF TypeOK, Gathered, Slots
<1>2. rttResults' \in [Slots -> 0..DriverMax]
  BY <1>1 DEF TypeOK, StoreResult
<1>3. \A i \in Stored : i \in Slots /\ rttResults'[i] = rttResults[i]
  BY <1>1 DEF TypeOK, StoreResult, Stored, Slots
<1>4. rttResults'[currentIdx] = sent + 1
  BY <1>1 DEF TypeOK, StoreResult
<1>5. Stored' = Stored \cup {currentIdx}
  BY <1>1 DEF StoreResult, Stored
<1>6. last'.shape \in Shape /\ ElementsRight'
  BY LookedRight DEF StoreResult
<1>7. TypeOK'
  BY <1>1, <1>2, <1>6 DEF TypeOK, StoreResult, Pc
<1>8. Gathered'
  <2>1. totalCnt' = currentIdx' /\ currentIdx' <= sent'
    BY <1>1 DEF Gathered, StoreResult
  <2>2. heap' = {rttResults'[i] : i \in Stored'}
    BY <1>3, <1>4, <1>5 DEF Gathered, StoreResult
  <2>3. \A i \in Stored' : rttResults'[i] \in 1..sent'
    BY <1>1, <1>3, <1>4, <1>5 DEF Gathered
  <2>4. \A i, j \in Stored' : i < j => rttResults'[i] < rttResults'[j]
    <3> SUFFICES ASSUME NEW i \in Stored', NEW j \in Stored', i < j
                 PROVE  rttResults'[i] < rttResults'[j]
      OBVIOUS
    <3>1. i \in Stored
      BY <1>1, <1>5 DEF Stored
    <3>2. CASE j \in Stored
      BY <3>1, <3>2, <1>3 DEF Gathered
    <3>3. CASE j = currentIdx
      <4>1. rttResults[i] \in 1..sent
        BY <3>1 DEF Gathered
      <4>2. rttResults'[i] = rttResults[i] /\ rttResults'[j] = sent + 1
        BY <3>1, <3>3, <1>3, <1>4
      <4>3. QED
        BY <4>1, <4>2, <1>1
    <3>4. QED
      BY <1>5, <3>2, <3>3
  <2>5. QED
    BY <2>1, <2>2, <2>3, <2>4 DEF Gathered
<1>9. Phases'
  BY DEF Phases, StoreResult
<1>10. QED
  BY <1>6, <1>7, <1>8, <1>9

\* Without memory the slot behind the stored ones is cleared.
LEMMA NoMemoryStep ==
    ASSUME IInv, pc = "attrs", sent < DriverMax, sent' = sent + 1,
           currentIdx \in Slots, NoMemory, UNCHANGED <<registered, reports>>
    PROVE  IInv'
<1> USE DEF IInv
<1>1. currentIdx \in Nat /\ sent \in Nat
  BY DEF TypeOK
<1>2. rttResults' \in [Slots -> 0..DriverMax]
  BY DEF TypeOK, NoMemory, NULL
<1>3. \A i \in Stored : i \in Slots /\ rttResults'[i] = rttResults[i]
  BY <1>1 DEF TypeOK, NoMemory, Stored, Slots
<1>4. TypeOK'
  BY <1>1, <1>2 DEF TypeOK, NoMemory, Pc
<1>5. Stored' = Stored
  BY DEF Stored, NoMemory
<1>6. Gathered'
  <2>1. heap' = {rttResults'[i] : i \in Stored'}
    BY <1>3, <1>5 DEF Gathered, NoMemory
  <2>2. QED
    BY <2>1, <1>1, <1>3, <1>5 DEF Gathered, NoMemory
<1>7. Phases' /\ ElementsRight'
  BY DEF Phases, ElementsRight, NoMemory
<1>8. QED
  BY <1>4, <1>6, <1>7

\* A result that is sent: stored, lost or behind the array.
LEMMA ResultStep ==
    ASSUME IInv, NEW s \in Shape, Result(s) PROVE IInv'
<1> USE DEF IInv
<1>1. /\ pc = "attrs" /\ sent < DriverMax /\ sent' = sent + 1
      /\ UNCHANGED <<registered, reports>>
  BY DEF Result
<1>2. currentIdx \in 0..MaxResults /\ currentIdx <= sent /\ sent \in Nat
  BY DEF TypeOK, Gathered
<1>3. ASSUME UNCHANGED <<skip, mCompleted, bufVars>>,
             \/ pc' = pc
             \/ pc' = "overrun" /\ currentIdx \notin Slots
      PROVE  IInv'
  <2>1. TypeOK' /\ ElementsRight'
    BY <1>1, <1>3 DEF TypeOK, Pc, ElementsRight, bufVars
  <2>2. Phases'
    <3>1. CASE pc' = pc
      BY <1>1, <1>3, <3>1 DEF Phases, bufVars
    <3>2. CASE pc' = "overrun" /\ currentIdx \notin Slots
      <4>1. currentIdx = MaxResults
        BY <1>2, <3>2 DEF Slots
      <4>2. sent' > MaxResults
        BY <1>1, <1>2, <4>1
      <4>3. QED
        BY <1>1, <1>3, <3>2, <4>2 DEF Phases
    <3>3. QED
      BY <1>3, <3>1, <3>2
  <2>3. Gathered'
    BY <1>1, <1>3, GatheredKept DEF TypeOK, bufVars
  <2>4. QED
    BY <2>1, <2>2, <2>3
<1>4. ASSUME currentIdx \in Slots, StoreResult(s) PROVE IInv'
  BY <1>1, <1>4, ResultStored
<1>5. ASSUME currentIdx \in Slots, NoMemory PROVE IInv'
  BY <1>1, <1>5, NoMemoryStep
<1>6. \/ UNCHANGED <<skip, mCompleted, bufVars>> /\ pc' = pc
      \/ currentIdx \in Slots /\ (StoreResult(s) \/ NoMemory)
      \/ /\ UNCHANGED <<skip, mCompleted, bufVars>>
         /\ pc' = "overrun" /\ currentIdx \notin Slots
  BY DEF Result
<1>7. QED
  BY <1>3, <1>4, <1>5, <1>6

\* The buffers that are freed are all there are.
LEMMA FreeStep == ASSUME IInv, Free PROVE IInv'
<1> USE DEF IInv
<1>1. heap' = {} /\ currentIdx' = 0 /\ totalCnt' = 0 /\ Stored' = {}
  BY DEF Free, Gathered, Stored
<1>2. rttResults' \in [Slots -> 0..DriverMax]
  BY DEF Free, TypeOK, NULL
<1>3. TypeOK'
  <2>1. /\ pc' = "release"
        /\ UNCHANGED <<registered, skip, mCompleted, sent, reports, last>>
    BY DEF Free
  <2>2. last'.shape \in Shape
    BY <2>1 DEF TypeOK
  <2>3. QED
    BY <1>1, <1>2, <2>1, <2>2 DEF TypeOK, Pc
<1>4. Gathered'
  BY <1>1 DEF Free, TypeOK, Gathered
<1>5. Phases' /\ ElementsRight'
  BY DEF Free, Phases, ElementsRight
<1>6. QED
  BY <1>3, <1>4, <1>5

\* No step of handleEvent, of the client or of wifi_cleanup breaks it.
LEMMA Inductive == IInv /\ [Next]_vars => IInv'
<1> SUFFICES ASSUME IInv, [Next]_vars PROVE IInv'
  OBVIOUS
<1>1. ASSUME UNCHANGED <<bufVars, sent>>, TypeOK', Phases'
      PROVE  IInv'
  <2>1. Gathered'
    BY <1>1, GatheredKept DEF IInv, TypeOK, bufVars
  <2>2. ElementsRight'
    BY <1>1 DEF IInv, ElementsRight, bufVars
  <2>3. QED
    BY <1>1, <2>1, <2>2 DEF IInv
<1> USE DEF IInv, TypeOK, Pc, Phases, bufVars
<1>2. CASE EventBegin \/ EventNoData
  BY <1>1, <1>2 DEF EventBegin, EventNoData
<1>3. CASE Target
  BY <1>1, <1>3 DEF Target
<1>4. CASE EventEnd
  BY <1>1, <1>4 DEF EventEnd
<1>5. ASSUME NEW flag \in 0..1, Complete(flag) PROVE IInv'
  BY <1>1, <1>5 DEF Complete
<1>6. ASSUME NEW s \in Shape, Result(s) PROVE IInv'
  BY <1>6, ResultStep
<1>7. CASE Report
  BY <1>1, <1>7 DEF Report
<1>8. CASE Free
  BY <1>8, FreeStep
<1>9. CASE Release
  BY <1>1, <1>9 DEF Release
<1>10. CASE RangeCancel
  BY <1>1, <1>10 DEF RangeCancel
<1>11. CASE CleanupRelease
  BY <1>1, <1>11 DEF CleanupRelease
<1>12. CASE UNCHANGED vars
  BY <1>1, <1>12 DEF vars
<1>13. QED
  BY <1>2, <1>3, <1>4, <1>5, <1>6, <1>7, <1>8, <1>9, <1>10, <1>11, <1>12
     DEF Next, HandleEvent

\* The array, its counters and the heap agree at every step, whatever the
\* driver sends, until it sends more than the array takes, with allocations
\* failing, and with the client cancelling and cleaning up.
THEOREM ResultsInvariant == Spec => []IInv
  BY Initially, Inductive, PTL DEF Spec

\* on_rtt_results gets every result that could be stored, live and in order.
THEOREM ReportsLive == Spec => []ReportedLive
<1>1. IInv => ReportedLive
  <2> SUFFICES ASSUME IInv PROVE ReportedLive
    OBVIOUS
  <2>1. Stored = 0..(totalCnt - 1) /\ sent \in Nat
    BY DEF IInv, Gathered, Stored, TypeOK
  <2>2. NULL \notin heap
    BY <2>1 DEF IInv, Gathered, NULL
  <2>3. QED
    BY <2>1, <2>2 DEF IInv, Gathered, ReportedLive
<1>2. QED
  BY <1>1, ResultsInvariant, PTL

\* A request that is released has been reported once and leaves no buffer.
THEOREM FreesAll == Spec => []FreedWhenDone
<1>1. IInv => FreedWhenDone
  BY DEF IInv, Gathered, Stored, Phases, FreedWhenDone
<1>2. QED
  BY <1>1, ResultsInvariant, PTL

\* LCI and LCR, where handleEvent sets them, point to elements of their kind,
\* and looking for them reads no header behind the result, except a first one
\* that less than a header was sent of: for all lengths of results and elements.
THEOREM PointsRight == Spec => []ElementsRight
<1>1. IInv => ElementsRight
  BY DEF IInv
<1>2. QED
  BY <1>1, ResultsInvariant, PTL

-----------------------------------------------------------------------------
(* SetAlertHandler                                                         *)

USE AlertDumpAssumption DEF AlertDumpAssumption

\* The inductive invariant, by parts.  Between the allocation and the end of
\* the handler the buffer is live and has room for the dump and the ring data,
\* until the first dump of the replies has released it; outside of it, it may be anything, but dangles only after a request that
\* could not be created.
AlertTypes ==
    /\ alertPc \in {"wait", "ask", "reply", "end"}
    /\ mBuff \in {"null", "live", "freed", "freedTwice"}
    /\ cap \in Nat /\ mBuffSize \in Nat /\ ring \in Nat /\ dumps \in Nat

Inside ==
    /\ alertPc = "ask" => mBuff = "live" /\ cap = mBuffSize + ring
    /\ alertPc = "reply" => IF dumps = 0 THEN mBuff = "live" /\ cap = mBuffSize
                                         ELSE mBuff = "null"

AlertInv == AlertTypes /\ Inside /\ FreedOnce /\ AlertWithinBuffer

\* A new SetAlertHandler has no buffer, which satisfies the invariant.
LEMMA AlertInitially == AlertInit => AlertInv
  BY DEF AlertInit, AlertInv, AlertTypes, Inside, FreedOnce,
     AlertWithinBuffer

\* An event of the driver: reading its attributes and allocating the buffer.
LEMMA EventStep ==
    ASSUME AlertInv,
           NEW l \in DumpLen \cup {NoLen}, NEW r \in RingLen,
           DumpEvent(l, r)
    PROVE  AlertInv'
<1> USE DEF AlertInv, AlertTypes, Inside, FreedOnce
<1>1. mBuffSize' \in Nat /\ ring' = r /\ r \in Nat
  BY DEF DumpEvent
<1>2. AlertWithinBuffer'
  BY DEF DumpEvent, AlertWithinBuffer
<1>3. CASE mBuffSize' = 0
  BY <1>1, <1>2, <1>3 DEF DumpEvent
<1>4. CASE mBuffSize' # 0
  <2>1. /\ Allocate(mBuffSize', r)
        /\ createFailed' = createFailed /\ dumps' = dumps
    BY <1>4 DEF DumpEvent
  <2>2. QED
    BY <1>1, <1>2, <2>1 DEF Allocate, FreeBuff
<1>5. QED
  BY <1>3, <1>4

\* No event, no request and no reply breaks the invariant.
LEMMA AlertInductive == AlertInv /\ [AlertNext]_alertVars => AlertInv'
<1> SUFFICES ASSUME AlertInv, [AlertNext]_alertVars PROVE AlertInv'
  OBVIOUS
<1> USE DEF AlertInv, AlertTypes, Inside, FreedOnce, AlertWithinBuffer
<1>1. ASSUME NEW l \in DumpLen \cup {NoLen}, NEW r \in RingLen,
             DumpEvent(l, r)
      PROVE  AlertInv'
  BY <1>1, EventStep
<1>2. CASE CreateFails
  BY <1>2 DEF CreateFails, FreeBuff
<1>3. CASE PutFails
  BY <1>3 DEF PutFails
<1>4. CASE RequestDump
  BY <1>4 DEF RequestDump
<1>5. ASSUME NEW n \in 1..MaxDumps, DumpReply(n) PROVE AlertInv'
  <2>1. n \in Nat /\ 1 \in 1..n /\ dumps' \in Nat /\ dumps' # 0
    BY <1>5 DEF DumpReply
  <2>2. ASSUME NEW a \in Calls(n)
        PROVE  IF a.nth = 1 THEN a.buff = "live" /\ a.size <= a.cap
                            ELSE a.buff = "null"
    <3>1. PICK k \in 1..n :
              a = [nth |-> dumps + k, size |-> mBuffSize,
                   buff |-> IF k = 1 THEN mBuff ELSE "null",
                   cap |-> IF k = 1 THEN cap ELSE 0]
      BY <2>2 DEF Calls
    <3>2. /\ a.nth = dumps + k /\ a.size = mBuffSize
          /\ a.buff = (IF k = 1 THEN mBuff ELSE "null")
          /\ a.cap = (IF k = 1 THEN cap ELSE 0)
      BY <3>1
    <3>3. CASE dumps = 0 /\ k = 1
      BY <1>5, <2>1, <3>2, <3>3 DEF DumpReply
    <3>4. CASE ~(dumps = 0 /\ k = 1)
      <4>1. dumps + k # 1
        BY <2>1, <3>4
      <4>2. a.buff = "null"
        BY <1>5, <2>1, <3>2, <3>4 DEF DumpReply
      <4>3. QED
        BY <3>2, <4>1, <4>2
    <3>5. QED
      BY <3>3, <3>4
  <2>3. AlertWithinBuffer'
    BY <1>5, <2>2 DEF DumpReply
  <2> HIDE DEF AlertWithinBuffer
  <2>4. QED
    BY <1>5, <2>1, <2>3 DEF DumpReply
<1>6. CASE WaitEnds
  BY <1>6 DEF WaitEnds
<1>7. CASE UNCHANGED alertVars
  BY <1>7 DEF alertVars
<1>8. QED
  BY <1>1, <1>2, <1>3, <1>4, <1>5, <1>6, <1>7 DEF AlertNext

\* What SetAlertHandler hands to on_alert with the first dump of a wait is an
\* allocated buffer and a size within it; with further ones it is NULL, and
\* with none a buffer that was freed.
THEOREM AlertSafe == AlertSpec => []AlertWithinBuffer
<1>1. AlertInv => AlertWithinBuffer
  BY DEF AlertInv
<1>2. QED
  BY <1>1, AlertInitially, AlertInductive, PTL DEF AlertSpec

\* The dump buffer is freed once, unless a request could not be created.
THEOREM DumpFreedOnce == AlertSpec => []FreedOnce
<1>1. AlertInv => FreedOnce
  BY DEF AlertInv
<1>2. QED
  BY <1>1, AlertInitially, AlertInductive, PTL DEF AlertSpec
=============================================================================
