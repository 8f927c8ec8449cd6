------------------------------ MODULE Payloads ------------------------------
(***************************************************************************)
(* The one-shot requests of the WLAN HAL and the payloads of its events:   *)
(* what a request builds before it is sent, what its failure leaves behind,*)
(* and how the driver's data are copied into buffers of a fixed size and   *)
(* counted for the client.  One call, or one event, at a time; the wait    *)
(* for the answer is RequestResponse.                                      *)
(*                                                                         *)
(* A buffer is a number of entries (bytes of a struct, structs of an       *)
(* array); a payload has a length in such entries, or is a sequence of     *)
(* attributes: "num" with a count, "entry" with a length of its own (that  *)
(* of a ring status, of the name of a network), and "other".               *)
(***************************************************************************)
EXTENDS Naturals, Sequences, FiniteSets, SequencesExt

CONSTANTS Caps,       \* sizes of the caller's buffers
          MaxResults, \* size of the arrays of the event handlers
          MaxLen,     \* bound: length of a payload
          MaxAttrs,   \* bound: attributes of a payload
          MaxNum,     \* bound: counts the driver announces
          MaxChannels,\* channels a link statistic may have (11)
          FixedLen,   \* offsetof(wifi_gscan_full_result_t, ie_data)
          MaxIeLen,   \* MAX_PROBE_RESP_IE_LEN
          StatusLen,  \* sizeof(wifi_ring_buffer_status)
          EntryLen,   \* sizeof(wifi_scan_result),
          SsidAt,     \* where its ssid starts
          SsidRoom,   \* and how long that is
          Faults      \* what may fail on this side

ASSUME PayloadsAssumption ==
    /\ Caps \subseteq Nat \ {0}
    /\ MaxResults \in Nat \ {0}
    /\ {MaxLen, MaxAttrs, MaxNum} \subseteq Nat
    /\ {MaxChannels, FixedLen, MaxIeLen, StatusLen} \subseteq Nat
    /\ SsidAt \in Nat /\ SsidRoom \in Nat \ {0}
    /\ EntryLen \in Nat /\ SsidAt + SsidRoom <= EntryLen
    /\ Faults \subseteq {"new", "create", "put", "malloc"}

VARIABLES pc,      \* "idle", "build", "return"
          cls,     \* the request or the event
          cap,     \* size of the buffer it fills
          todo,    \* what is left of building the request
          heap,    \* objects it has allocated
          buf,     \* the buffer and what the client is told of it
          reply,   \* the driver's payload
          result

vars == <<pc, cls, cap, todo, heap, buf, reply, result>>

Lower(a, b) == IF a < b THEN a ELSE b

Attr == [type : {"num", "entry"}, val : 0..MaxNum]
        \cup [type : {"other"}, val : {0}]

\* One class for requests that differ only in a command number: GET_FW_VER
\* also for GET_DRV_VER, PKT_FATE for TX and RX, RTT_RESPONDER for asking for
\* the responder and enabling it.
DebugClass == {"GET_FW_VER", "GET_RING_DATA", "GET_RING_STATUS", "GET_FEATURE",
               "START_RING_LOG"}
FateClass == {"PKT_FATE", "PACKET_MONITOR_START"}
ApfClass == {"SET_APF_PROGRAM", "GET_APF_CAPABILITIES"}
KeepAliveClass == {"START_MKEEP_ALIVE", "STOP_MKEEP_ALIVE"}
FeatureSetClass == {"FEATURE_SET", "FEATURE_MATRIX"}
QueryClass == {"GSCAN_CAPABILITIES", "RTT_CAPABILITIES", "RTT_RESPONDER",
               "LINK_STATS"}
SetterClass == {"OUI", "NODFS", "COUNTRY", "ND_OFFLOAD", "CANCEL_RESPONDER"}
Class == DebugClass \cup FateClass \cup ApfClass \cup KeepAliveClass
         \cup FeatureSetClass \cup QueryClass \cup SetterClass
EventClass == {"SCAN", "FULL_SCAN", "HOTLIST", "EPNO", "SIG_CHANGE", "ANQPO",
               "RSSI", "RING_DATA"}

\* Payloads that are attributes, structs with a count in them, plain data.
AttrClass == {"GET_RING_STATUS", "FEATURE_MATRIX", "PKT_FATE",
              "GET_APF_CAPABILITIES", "EPNO", "RING_DATA"}
CountClass == {"LINK_STATS", "FULL_SCAN", "ANQPO", "RSSI"}
NoPayload == [len |-> 0, num |-> 0, attrs |-> <<>>]
Payload(c) ==
    {NoPayload} \cup
    IF c \in AttrClass
    THEN [len : {1}, num : {0}, attrs : BoundedSeq(Attr, MaxAttrs) \ {<<>>}]
    ELSE [len : 1..MaxLen, num : IF c \in CountClass THEN 0..MaxNum ELSE {0},
          attrs : {<<>>}]

-----------------------------------------------------------------------------
(* Building a request: the calls in their order.  "create" and "put" may   *)
(* fail, which ends the request with an error; "zero" clears the buffer.   *)

DebugRequest(c) ==
    CASE c = "START_RING_LOG" -> <<"create", "put", "put", "put", "put", "put">>
      [] c \in {"GET_FW_VER", "GET_RING_DATA"} -> <<"create", "put">>
      [] OTHER -> <<"create">>

FateRequest(c) ==
    IF c = "PKT_FATE" THEN <<"create", "zero", "put", "put">> ELSE <<"create">>

\* Mutant of ApfRequest: the copy of the program is not deleted.
ApfRequestKeeps(c) ==
    IF c = "SET_APF_PROGRAM" THEN <<"program", "create", "put", "put">>
    ELSE <<"create">>

ApfRequest(c) ==
    IF c = "SET_APF_PROGRAM"
    THEN <<"program", "create", "put", "put", "delete">>
    ELSE <<"create">>

KeepAliveRequest(c) ==
    IF c = "START_MKEEP_ALIVE"
    THEN <<"create", "put", "put", "put", "put", "put", "put">>
    ELSE <<"create", "put">>

SetterRequest(c) ==
    IF c = "CANCEL_RESPONDER" THEN <<"create">> ELSE <<"create", "put">>

\* Capabilities, feature sets, link statistics: no attributes.
QueryRequest == <<"create">>

Request(c) ==
    CASE c \in DebugClass -> DebugRequest(c)
      [] c \in FateClass -> FateRequest(c)
      [] c \in ApfClass -> ApfRequest(c)
      [] c \in KeepAliveClass -> KeepAliveRequest(c)
      [] c \in SetterClass -> SetterRequest(c)
      [] OTHER -> QueryRequest

\* The constructors that clear the buffer they are given.
ZeroedFirst(c) ==
    c \in {"GET_FW_VER", "GET_RING_STATUS", "GSCAN_CAPABILITIES",
           "RTT_CAPABILITIES", "RTT_RESPONDER"}

\* Requests made by an object of their own (new ... releaseRef); the others
\* use one on the stack.
OnHeap(c) == c \in DebugClass \cup FateClass \cup ApfClass \cup KeepAliveClass

\* Requests whose API looks at its arguments (pointers, sizes, the index and
\* the period of a keep-alive packet).
ChecksArgs(c) ==
    c \in KeepAliveClass \cup (DebugClass \ {"GET_RING_DATA"})

-----------------------------------------------------------------------------
(* handleResponse: the buffer b after payload r.                           *)

\* The buffer: the entries zeroed or written, the count or the success the
\* client is told of, and whether more was read than the payload or the field
\* of it has.
Fresh(n) == [zeroed |-> 1..n, written |-> {}, next |-> 1, num |-> 0,
             told |-> FALSE, overread |-> FALSE]
Wrote(b, n) == [b EXCEPT !.written = @ \cup 1..n]
Tells(b, n) == [b EXCEPT !.num = n, !.told = TRUE]

\* memcpy(buffer, data, min(len, size)): the client takes all of it for set.
StructReply(b, r) == Tells(Wrote(b, Lower(r.len, cap)), cap)

\* Replies without data are left out.
FeatureSetReply(b, r) == IF r.len = 0 THEN b ELSE StructReply(b, r)

\* The feature set of the logger: all of it, whatever the length.
FeatureReply(b, r) ==
    [Tells(Wrote(b, cap), cap) EXCEPT !.overread = r.len < cap]

\* RING_NUM must come first; then as many statuses as the caller has room for,
\* each of them whole, whatever its length.
RingStatusReply(b, r) ==
    IF r.attrs = <<>> \/ r.attrs[1].type # "num" THEN b
    ELSE LET entries == {i \in 2..Len(r.attrs) : r.attrs[i].type = "entry"}
             n == Lower(cap, r.attrs[1].val)
             Copied(i) == Cardinality({j \in entries : j <= i}) <= n
         IN  [Tells(Wrote(b, Lower(Cardinality(entries), n)), n) EXCEPT
                !.overread = \E i \in entries :
                                Copied(i) /\ r.attrs[i].val < StatusLen]

\* Mutant of MatrixAttr: an entry is stored whether or not it was announced.
MatrixAttrAny(b, a) ==
    CASE a.type = "num" -> Tells(b, Lower(a.val, cap))
      [] a.type = "entry" -> [Wrote(b, b.next) EXCEPT !.next = @ + 1]
      [] OTHER -> b

\* An attribute of the concurrency matrix; the caller's maximum is not 0.
MatrixAttr(b, a) ==
    CASE a.type = "num" -> Tells(b, Lower(a.val, cap))
      [] a.type = "entry" /\ b.next <= b.num ->
            [Wrote(b, b.next) EXCEPT !.next = @ + 1]
      [] OTHER -> b
MatrixReply(b, r) == FoldLeft(MatrixAttr, b, r.attrs)

\* The driver has filled the buffer and says how far.
FateAttr(b, a) == IF a.type = "num" THEN Tells(b, a.val) ELSE b
FateReply(b, r) == FoldLeft(FateAttr, b, r.attrs)

\* Version and maximal length are cleared and then set when present.
ApfReply(b, r) == IF r.len = 0 THEN b ELSE Tells(Wrote(b, cap), cap)

\* The statistics are handed on where they are, without a look at the length;
\* a reply with too many channels is left out.
LinkStatsReply(b, r) ==
    IF r.len = 0 \/ r.num > MaxChannels THEN b
    ELSE [Tells(b, 0) EXCEPT !.overread = r.len < cap]

HandleResponse(b, r) ==
    CASE cls \in {"GET_FW_VER", "GSCAN_CAPABILITIES", "RTT_CAPABILITIES",
                  "RTT_RESPONDER"} -> StructReply(b, r)
      [] cls = "FEATURE_SET" -> FeatureSetReply(b, r)
      [] cls = "GET_FEATURE" -> FeatureReply(b, r)
      [] cls = "GET_RING_STATUS" -> RingStatusReply(b, r)
      [] cls = "FEATURE_MATRIX" -> MatrixReply(b, r)
      [] cls = "PKT_FATE" -> FateReply(b, r)
      [] cls = "GET_APF_CAPABILITIES" -> ApfReply(b, r)
      [] cls = "LINK_STATS" -> LinkStatsReply(b, r)
      [] OTHER -> b

-----------------------------------------------------------------------------
(* handleEvent: what the handler of event class c makes of payload r.      *)

EventCap(c) == IF c = "FULL_SCAN" THEN FixedLen + MaxIeLen ELSE MaxResults

\* GSCAN_EVENT_COMPLETE_SCAN and ..._AVAILABLE: one word, the kind of event.
ScanEvent(r) == IF r.len = 1 THEN Tells(Fresh(0), 0) ELSE Fresh(0)

\* A copy with a ceiling on the elements, which must lie within the data.
FullScanEvent(r) ==
    LET ie == Lower(MaxIeLen, r.num)
    IN  IF r.len < FixedLen + 1 \/ FixedLen + ie > r.len THEN Fresh(0)
        ELSE [Tells(Wrote(Fresh(0), FixedLen + ie), FixedLen + ie)
                EXCEPT !.overread = FixedLen + ie > r.len]

\* The array is cleared, then filled as far as it goes.
HotlistEvent(r) ==
    LET n == Lower(MaxResults, r.len)
    IN  IF r.len = 0 THEN Fresh(0) ELSE Tells(Wrote(Fresh(MaxResults), n), n)

\* The entries of the array that a name of v bytes and its terminator reach,
\* from entry i on: its length is the driver's and held against nothing.
SsidReaches(i, v) == i..(i + ((SsidAt + v) \div EntryLen))

\* The networks of an event that are looked at, and those of them that were
\* found and have names longer than an ssid.
Networks(r) == 1..Lower(MaxResults, Len(r.attrs))
LongSsid(r) ==
    \E i \in Networks(r) :
        r.attrs[i].type = "entry" /\ r.attrs[i].val >= SsidRoom

\* Only networks that were found are copied, but all of them are counted.
EPNOEvent(r) ==
    LET found == {i \in Networks(r) : r.attrs[i].type = "entry"}
    IN  IF r.len = 0 THEN Fresh(0)
        ELSE [Tells(Fresh(MaxResults), Lower(MaxResults, Len(r.attrs))) EXCEPT
                !.written = UNION {SsidReaches(i, r.attrs[i].val) : i \in found},
                !.overread = LongSsid(r)]

\* Mutant of SigChangeEvent: the count is that of the event.
SigChangeEventAll(r) ==
    LET n == Lower(MaxResults, r.len)
    IN  IF n = 0 THEN Fresh(0) ELSE Tells(Wrote(Fresh(0), n), r.len)

\* The array keeps what it had; no report without a change.
SigChangeEvent(r) ==
    LET n == Lower(MaxResults, r.len)
    IN  IF n = 0 THEN Fresh(0) ELSE Tells(Wrote(Fresh(0), n), n)

\* The answer of the network is looked for behind ie_length bytes, which are
\* not held against the length of the event.
AnqpoEvent(r) ==
    IF r.len < FixedLen THEN Fresh(0)
    ELSE [Tells(Fresh(0), 0) EXCEPT !.overread = FixedLen + r.num >= r.len]

\* num is the version, which must be 1.
RSSIEvent(r) ==
    IF r.len = 0 \/ r.num # 1 THEN Fresh(0)
    ELSE [Tells(Fresh(0), 0) EXCEPT !.overread = r.len < EventCap("RSSI")]

\* The status of the ring is cleared and copied whole, whatever the length it
\* comes with ("entry"); it goes to the client with the last piece of ring data
\* ("num"), if any.
LogEvent(r) ==
    LET statuses == {i \in DOMAIN r.attrs : r.attrs[i].type = "entry"}
    IN  IF r.len = 0 THEN Fresh(0)
        ELSE [Tells(Wrote(Fresh(1), Lower(Cardinality(statuses), 1)), 1) EXCEPT
                !.overread = \E i \in statuses : r.attrs[i].val < StatusLen]

HandleEvent(c, r) ==
    CASE c = "SCAN" -> ScanEvent(r)
      [] c = "FULL_SCAN" -> FullScanEvent(r)
      [] c = "HOTLIST" -> HotlistEvent(r)
      [] c = "EPNO" -> EPNOEvent(r)
      [] c = "SIG_CHANGE" -> SigChangeEvent(r)
      [] c = "ANQPO" -> AnqpoEvent(r)
      [] c = "RSSI" -> RSSIEvent(r)
      [] c = "RING_DATA" -> LogEvent(r)

-----------------------------------------------------------------------------
Init ==
    /\ pc = "idle" /\ cls = "none" /\ cap = 0 /\ todo = <<>> /\ heap = {}
    /\ buf = Fresh(0) /\ reply = NoPayload /\ result = "SUCCESS"

\* The client calls the API of class c with a buffer of n entries.
Call(c, n) ==
    /\ pc = "idle"
    /\ pc' = "build" /\ cls' = c /\ cap' = n /\ todo' = Request(c)
    /\ heap' = IF OnHeap(c) THEN {"cmd"} ELSE {}
    /\ buf' = Fresh(IF ZeroedFirst(c) THEN n ELSE 0)
    /\ reply' = NoPayload /\ result' = "SUCCESS"

\* Arguments the API does not take, or no memory for the command.
CallRefused(c, n, e) ==
    /\ pc = "idle"
    /\ \/ e = "INVALID_ARGS" /\ ChecksArgs(c)
       \/ e = "OUT_OF_MEMORY" /\ OnHeap(c) /\ "new" \in Faults
    /\ cls' = c /\ cap' = n /\ todo' = <<>> /\ heap' = {}
    /\ buf' = Fresh(0) /\ reply' = NoPayload /\ result' = e
    /\ UNCHANGED pc

\* One call of the building of the request.
Build ==
    /\ pc = "build" /\ todo # <<>>
    /\ todo' = Tail(todo)
    /\ heap' = CASE Head(todo) = "program" -> heap \cup {"program"}
                 [] Head(todo) = "delete" -> heap \ {"program"}
                 [] OTHER -> heap
    /\ buf' = IF Head(todo) = "zero" THEN Fresh(cap) ELSE buf
    /\ UNCHANGED <<pc, cls, cap, reply, result>>

\* It fails: what is left of it is not done.
BuildFails ==
    /\ pc = "build" /\ todo # <<>>
    /\ \/ Head(todo) \in Faults /\ result' = "ERROR"
       \/ Head(todo) = "program" /\ "new" \in Faults /\ result' = "OUT_OF_MEMORY"
    /\ pc' = "return" /\ todo' = <<>>
    /\ UNCHANGED <<cls, cap, heap, buf, reply>>

\* The driver refuses, or only acknowledges: handleResponse is not called.
Exchange(e) ==
    /\ pc = "build" /\ todo = <<>>
    /\ pc' = "return" /\ result' = e
    /\ UNCHANGED <<cls, cap, todo, heap, buf, reply>>

\* The driver answers with payload r and acknowledges.
ExchangeReply(r) ==
    /\ pc = "build" /\ todo = <<>>
    /\ pc' = "return" /\ reply' = r /\ buf' = HandleResponse(buf, r)
    /\ UNCHANGED <<cls, cap, todo, heap, result>>

\* cmd->releaseRef(), and the result goes to the client.
Return ==
    /\ pc = "return"
    /\ pc' = "idle" /\ heap' = heap \ {"cmd"}
    /\ UNCHANGED <<cls, cap, todo, buf, reply, result>>

\* The event loop hands an event of class c to its handler.  The copies of
\* a full scan result and of a passpoint match are allocated and freed in it.
Event(c, r) ==
    /\ pc = "idle"
    /\ cls' = c /\ cap' = EventCap(c) /\ reply' = r
    /\ \/ buf' = HandleEvent(c, r)
       \/ /\ c \in {"FULL_SCAN", "ANQPO"} /\ "malloc" \in Faults
          /\ buf' = Fresh(0)
    /\ heap' = {} /\ result' = "SUCCESS"
    /\ UNCHANGED <<pc, todo>>

Next ==
    \/ \E c \in Class, n \in Caps : Call(c, n)
    \/ \E c \in Class, n \in Caps, e \in {"INVALID_ARGS", "OUT_OF_MEMORY"} :
          CallRefused(c, n, e)
    \/ Build
    \/ BuildFails
    \/ \E e \in {"SUCCESS", "ERROR"} : Exchange(e)
    \/ \E r \in Payload(cls) : ExchangeReply(r)
    \/ Return
    \/ \E c \in EventClass : \E r \in Payload(c) : Event(c, r)

Spec == Init /\ [][Next]_vars

-----------------------------------------------------------------------------
\* The handlers that copy or hand on a struct without a look at its length.
Unchecked == {"GET_FEATURE", "GET_RING_STATUS", "LINK_STATS", "ANQPO", "RSSI",
              "RING_DATA"}

\* Whatever length, count or order of attributes the driver sends, no
\* handleResponse or handleEvent stores behind the end of its buffer, and no
\* copy reads more than the driver sent, except for the handlers that take the
\* length of a struct for granted, and for a network of a preferred-network
\* event whose name is longer than an ssid: its copy goes beyond the entry.
InBounds ==
    /\ \/ buf.written \cup buf.zeroed \subseteq 1..cap
       \/ cls = "EPNO" /\ LongSsid(reply)
    /\ buf.overread =>
          \/ cls \in Unchecked
          \/ cls = "EPNO" /\ LongSsid(reply)

\* A matrix that announces its sets first and brings as many as it announced.
WholeMatrix(r) ==
    /\ r.attrs # <<>> /\ r.attrs[1].type = "num"
    /\ \A i \in 2..Len(r.attrs) : r.attrs[i].type = "entry"
    /\ Len(r.attrs) = r.attrs[1].val + 1

\* The client may walk the entries it is told of: there is room for all of
\* them and each was cleared or written by the HAL.  Left out are what the
\* code takes on trust: the number of packet fates, and a matrix that does
\* not bring the sets it announces, into an array nobody clears; and the
\* feature set of a driver that sends less than a word.
CountTrusted ==
    buf.told =>
        \/ /\ buf.num <= cap
           /\ 1..buf.num \subseteq buf.written \cup buf.zeroed
        \/ cls = "PKT_FATE" /\ buf.num > cap
        \/ /\ cls = "FEATURE_MATRIX" /\ ~WholeMatrix(reply)
           /\ buf.num <= cap
        \/ cls = "FEATURE_SET" /\ reply.len < cap

\* Once a call has returned nothing it allocated is left, whichever of its
\* steps failed: except the copy of a packet filter program, which is lost
\* when the message cannot be made.
ReleasedOnReturn ==
    (pc = "idle" /\ heap # {}) =>
        cls = "SET_APF_PROGRAM" /\ result = "ERROR" /\ reply = NoPayload
=============================================================================
