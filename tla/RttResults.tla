----------------------------- MODULE RttResults -----------------------------
(***************************************************************************)
(* The results of one ranging request (RttCommand::handleEvent in          *)
(* wlan/hal/rtt.cpp): they arrive in several events and gather in an array *)
(* of fixed size until the driver sets the completion flag; then they are  *)
(* reported together and freed.  The client may cancel meanwhile, and      *)
(* wifi_cleanup may take the command away between events.                  *)
(***************************************************************************)
EXTENDS Integers, FiniteSets

CONSTANTS MaxResults,   \* RttCommand::MAX_RESULTS
          DriverMax,    \* bound: results the driver sends for one request
          StructLen,    \* sizeof(wifi_rtt_result)
          HdrLen,       \* bytes of an element up to its type
          IeLens,       \* lengths of a measurement element, header included
          ExtraLens     \* lengths of what follows the wifi_rtt_result

ASSUME RttResultsAssumption ==
    /\ MaxResults \in Nat
    /\ DriverMax \in Nat
    /\ StructLen \in Nat /\ HdrLen \in 1..StructLen
    /\ IeLens \subseteq Nat \ {0}
    /\ ExtraLens \subseteq Nat

VARIABLES pc,          \* where handleEvent is
          registered,  \* the handler of RTT_EVENT_COMPLETE is in event_cb
          skip,        \* the rest of this target is skipped (no memory)
          mCompleted,  \* mCompleted
          currentIdx,  \* currentIdx
          totalCnt,    \* totalCnt
          rttResults,  \* the buffer each slot points to, 0 for NULL
          sent,        \* results the driver has sent
          heap,        \* buffers not freed, numbered as they came
          reports,     \* calls of on_rtt_results
          last         \* the last result, what its LCI and LCR point to and
                       \* where the headers start that were read for it

bufVars == <<currentIdx, totalCnt, rttResults, heap, last>>
vars == <<pc, registered, skip, mCompleted, currentIdx, totalCnt, rttResults,
          sent, heap, reports, last>>

NULL == 0

\* A result with what follows it: the types of two elements that would fit
\* there, the length of the first and the number of bytes.
Type == {"LCI", "LCR", "other"}
Shape == [ele_1 : Type, ele_2 : Type, len : IeLens, extra : ExtraLens]

\* "wait": between events; "attrs": in an event; "report", "free", "release":
\* the request is complete; "done": released; "gone": taken away before;
\* "overrun": a pointer is stored behind the array, "crashed": NULL is read,
\* where a behaviour ends.
Pc == {"wait", "attrs", "report", "free", "release", "done", "gone", "overrun",
       "crashed"}

Slots == 0..(MaxResults - 1)

TypeOK ==
    /\ pc \in Pc
    /\ registered \in BOOLEAN
    /\ skip \in BOOLEAN
    /\ mCompleted \in 0..1
    /\ currentIdx \in 0..MaxResults
    /\ totalCnt \in Nat
    /\ rttResults \in [Slots -> 0..DriverMax]
    /\ sent \in 0..DriverMax
    /\ heap \subseteq 1..DriverMax
    /\ reports \in Nat
    /\ last.shape \in Shape

Init ==
    /\ pc = "wait"
    /\ registered = TRUE
    /\ skip = FALSE
    /\ mCompleted = 0
    /\ currentIdx = 0
    /\ totalCnt = 0
    /\ rttResults = [i \in Slots |-> NULL]
    /\ sent = 0
    /\ heap = {}
    /\ reports = 0
    /\ last \in [shape : Shape, LCI : {"driver"}, LCR : {"driver"}, read : {{}}]

-----------------------------------------------------------------------------
(* handleEvent: the attributes of an event, one by one.                    *)

EventBegin ==
    /\ pc = "wait"
    /\ registered
    /\ pc' = "attrs"
    /\ skip' = FALSE
    /\ UNCHANGED <<registered, mCompleted, bufVars, sent, reports>>

\* An event without vendor data: that is logged, and NULL is walked all the
\* same.
EventNoData ==
    /\ pc = "wait"
    /\ registered
    /\ pc' = "crashed"
    /\ UNCHANGED <<registered, skip, mCompleted, bufVars, sent, reports>>

\* Mutant of Complete: the flags of several events add up.
CompleteAdds(flag) ==
    /\ pc = "attrs"
    /\ mCompleted' = mCompleted + flag
    /\ UNCHANGED <<pc, registered, skip, bufVars, sent, reports>>

\* RTT_ATTRIBUTE_RESULTS_COMPLETE: the last flag counts, also after NoMemory.
Complete(flag) ==
    /\ pc = "attrs"
    /\ mCompleted' = flag
    /\ UNCHANGED <<pc, registered, skip, bufVars, sent, reports>>

\* The results of the next target.
Target ==
    /\ pc = "attrs"
    /\ skip' = FALSE
    /\ UNCHANGED <<pc, registered, mCompleted, bufVars, sent, reports>>

\* Mutant of Left: the length of the wifi_rtt_result is taken off once.
LeftOnce(s) == s.extra - s.len

\* The bytes that are left for a second element, as the code has it: the length
\* of the wifi_rtt_result is taken off twice.
Left(s) == s.extra - StructLen - s.len

\* Where the elements start whose id and type are read.
Headers(s) ==
    {o \in {0, s.len} :
        /\ s.extra > 0
        /\ o = s.len => s.ele_1 # "other" /\ Left(s) > 0}

\* Which of the elements behind a result of this shape its field for type (LCI,
\* LCR) points to; without one it keeps the bytes the driver sent.
Found(s, type) ==
    CASE s.extra > 0 /\ s.ele_1 = type -> "ele_1"
      [] s.extra > 0 /\ s.ele_1 \notin {"other", type} /\ Left(s) > 0
            /\ s.ele_2 = type -> "ele_2"
      [] OTHER -> "driver"

Looked(s) == [shape |-> s, LCI |-> Found(s, "LCI"), LCR |-> Found(s, "LCR"),
              read |-> Headers(s)]

\* Mutant of StoreResult: the index stays for a result without elements.
StoreResultKeepsIdx(s) ==
    /\ rttResults' = [rttResults EXCEPT ![currentIdx] = sent + 1]
    /\ heap' = heap \cup {sent + 1}
    /\ totalCnt' = totalCnt + 1
    /\ currentIdx' = IF s.extra = 0 THEN currentIdx ELSE currentIdx + 1
    /\ last' = Looked(s)
    /\ UNCHANGED <<pc, skip, mCompleted>>

\* A result is copied into a buffer of its own.
StoreResult(s) ==
    /\ rttResults' = [rttResults EXCEPT ![currentIdx] = sent + 1]
    /\ heap' = heap \cup {sent + 1}
    /\ totalCnt' = totalCnt + 1
    /\ currentIdx' = currentIdx + 1
    /\ last' = Looked(s)
    /\ UNCHANGED <<pc, skip, mCompleted>>

\* No memory: the request counts as complete and the target is left.
NoMemory ==
    /\ rttResults' = [rttResults EXCEPT ![currentIdx] = NULL]
    /\ mCompleted' = 1
    /\ skip' = TRUE
    /\ UNCHANGED <<pc, currentIdx, totalCnt, heap, last>>

\* An RTT_ATTRIBUTE_RESULT.  The index is not compared with the array.
Result(s) ==
    /\ pc = "attrs"
    /\ sent < DriverMax
    /\ sent' = sent + 1
    /\ \/ skip /\ UNCHANGED <<pc, skip, mCompleted, bufVars>>
       \/ /\ ~skip
          /\ IF currentIdx \in Slots
             THEN StoreResult(s) \/ NoMemory
             ELSE pc' = "overrun" /\ UNCHANGED <<skip, mCompleted, bufVars>>
    /\ UNCHANGED <<registered, reports>>

\* The end of the event: a complete request loses its handler.
EventEnd ==
    /\ pc = "attrs"
    /\ IF mCompleted = 1
       THEN pc' = "report" /\ registered' = FALSE
       ELSE pc' = "wait" /\ UNCHANGED registered
    /\ UNCHANGED <<skip, mCompleted, bufVars, sent, reports>>

\* on_rtt_results(id, totalCnt, rttResults)
Report ==
    /\ pc = "report"
    /\ reports' = reports + 1
    /\ pc' = "free"
    /\ UNCHANGED <<registered, skip, mCompleted, bufVars, sent>>

\* Mutant of Free: the last buffer is left out.
FreeButOne ==
    /\ pc = "free"
    /\ heap' = heap \ {rttResults[i] : i \in 0..(currentIdx - 2)}
    /\ rttResults' =
          [i \in Slots |-> IF i < currentIdx - 1 THEN NULL ELSE rttResults[i]]
    /\ totalCnt' = 0
    /\ currentIdx' = 0
    /\ pc' = "release"
    /\ UNCHANGED <<registered, skip, mCompleted, sent, reports, last>>

Free ==
    /\ pc = "free"
    /\ heap' = heap \ {rttResults[i] : i \in 0..(currentIdx - 1)}
    /\ rttResults' =
          [i \in Slots |-> IF i < currentIdx THEN NULL ELSE rttResults[i]]
    /\ totalCnt' = 0
    /\ currentIdx' = 0
    /\ pc' = "release"
    /\ UNCHANGED <<registered, skip, mCompleted, sent, reports, last>>

\* wifi_unregister_cmd and releaseRef (the table is in WifiHal).
Release ==
    /\ pc = "release"
    /\ pc' = "done"
    /\ UNCHANGED <<registered, skip, mCompleted, bufVars, sent, reports>>

-----------------------------------------------------------------------------
(* The client's thread                                                     *)

\* wifi_rtt_range_cancel unregisters the handler, in or between events.
RangeCancel ==
    /\ pc \notin {"done", "gone", "overrun", "crashed"}
    /\ registered
    /\ registered' = FALSE
    /\ UNCHANGED <<pc, skip, mCompleted, bufVars, sent, reports>>

\* wifi_cleanup cancels and releases the command; the loop thread has left, so
\* it is between events.  There is no destructor.
CleanupRelease ==
    /\ pc = "wait"
    /\ pc' = "gone"
    /\ registered' = FALSE
    /\ UNCHANGED <<skip, mCompleted, bufVars, sent, reports>>

HandleEvent ==
    \/ EventBegin \/ EventNoData \/ Target \/ EventEnd
    \/ \E flag \in 0..1 : Complete(flag)
    \/ \E s \in Shape : Result(s)
    \/ Report \/ Free \/ Release

Next == HandleEvent \/ RangeCancel \/ CleanupRelease

Spec == Init /\ [][Next]_vars

-----------------------------------------------------------------------------
(* Properties                                                              *)

\* What on_rtt_results is given: each of the first totalCnt slots points to a
\* live buffer, they are in the order of arrival, and no buffer is left out.
ReportedLive ==
    pc = "report" =>
        /\ heap = {rttResults[i] : i \in 0..(totalCnt - 1)}
        /\ NULL \notin heap
        /\ \A i, j \in 0..(totalCnt - 1) :
              i < j => rttResults[i] < rttResults[j]

\* A request is reported at most once, and when it has been released no buffer
\* is left; only a command that is taken away before its results are complete
\* keeps some.
FreedWhenDone == pc = "done" => reports = 1 /\ heap = {} /\ ~registered

\* A field LCI or LCR that handleEvent sets points to an element of its kind,
\* and the headers it reads to find them lie within the result's buffer, those
\* of second elements always; only when less than a header follows the
\* wifi_rtt_result does reading the first one go beyond.
ElementsRight ==
    /\ \A f \in {"LCI", "LCR"} :
          last[f] \in {"ele_1", "ele_2"} => last.shape[last[f]] = f
    /\ \A o \in last.read :
          o + HdrLen <= last.shape.extra \/ (o = 0 /\ last.shape.extra < HdrLen)

-----------------------------------------------------------------------------
(* The inductive invariant, by parts.                                      *)

\* The stored results are the first currentIdx slots: as many as are counted,
\* no more than were sent, in the order in which they came, all of them live
\* and nothing else.
Stored == 0..(currentIdx - 1)
Gathered ==
    /\ totalCnt = currentIdx
    /\ currentIdx <= sent
    /\ heap = {rttResults[i] : i \in Stored}
    /\ \A i \in Stored : rttResults[i] \in 1..sent
    /\ \A i, j \in Stored : i < j => rttResults[i] < rttResults[j]

\* One report, which the handler does not outlive, and then an empty array.
\* Only the results beyond MAX_RESULTS go behind it.
Phases ==
    /\ reports = IF pc \in {"free", "release", "done"} THEN 1 ELSE 0
    /\ pc \in {"report", "free", "release", "done"} => ~registered
    /\ pc \in {"release", "done"} => currentIdx = 0
    /\ pc = "overrun" => sent > MaxResults

\* Why the results of a request are reported once, whole and in order: the
\* array, its two counters and the heap agree at every attribute of every
\* event, until more results come than the array takes.
IInv == TypeOK /\ Gathered /\ Phases /\ ElementsRight
=============================================================================
