----------------------------- MODULE AlertDump ------------------------------
(***************************************************************************)
(* SetAlertHandler (wlan/hal/wifi_logger.cpp): an event of the driver      *)
(* announces a firmware dump; the handler allocates a buffer, asks for the *)
(* dump and hands both to the client when the reply comes.  Buffer and     *)
(* size are members that live from one event to the next, and from one     *)
(* dump attribute of the replies to the next.                              *)
(***************************************************************************)
EXTENDS Naturals

CONSTANTS DumpLen,     \* values of the dump length attribute
          NoLen,       \* an event has no such attribute
          RingLen,     \* sizes of the ring data of an event, 0: none
          MaxEvents,   \* bound: events in a behaviour
          MaxDumps,    \* bound: dump attributes in the replies of one wait
          Faults       \* what may fail

ASSUME AlertDumpAssumption ==
    /\ NoLen \notin DumpLen /\ DumpLen \subseteq Nat
    /\ RingLen \subseteq Nat /\ MaxEvents \in Nat /\ MaxDumps \in Nat
    /\ Faults \subseteq {"malloc", "create", "put", "request"}

VARIABLES alertPc,    \* "wait" for an event, "ask", wait for the "reply", "end"
          mBuff,      \* "null", "live", "freed" (dangling), "freedTwice"
          cap,        \* bytes the live buffer has
          mBuffSize,  \* the member
          ring,       \* ring data of the event at hand
          events,     \* events so far
          dumps,      \* dump attributes handled in the last wait
          alerts,     \* arguments of on_alert in the last wait
          createFailed  \* history: a dump request could not be created

alertVars ==
    <<alertPc, mBuff, cap, mBuffSize, ring, events, dumps, alerts,
      createFailed>>

AlertInit ==
    /\ alertPc = "wait"
    /\ mBuff = "null" /\ cap = 0 /\ mBuffSize = 0
    /\ ring = 0 /\ events = 0
    /\ dumps = 0 /\ alerts = {}
    /\ createFailed = FALSE

\* free() of what mBuff points at; the pointer is kept.
FreeBuff == CASE mBuff = "live" -> "freed"
              [] mBuff = "null" -> "null"
              [] mBuff \in {"freed", "freedTwice"} -> "freedTwice"

-----------------------------------------------------------------------------
(* handleEvent                                                             *)

\* Mutant of Allocate: room for the dump alone.
AllocateShort(size, r) ==
    /\ mBuff' = "live"
    /\ cap' = size
    /\ alertPc' = "ask"

\* if (mBuff) free(mBuff); mBuff = malloc(mBuffSize + buffer_size).  A second
\* free of the same buffer is where a behaviour ends.
Allocate(size, r) ==
    \/ /\ FreeBuff = "freedTwice"
       /\ mBuff' = "freedTwice"
       /\ alertPc' = "end"
       /\ UNCHANGED cap
    \/ /\ FreeBuff # "freedTwice"
       /\ mBuff' = "live"
       /\ cap' = size + r
       /\ alertPc' = "ask"
    \/ /\ FreeBuff # "freedTwice"
       /\ "malloc" \in Faults
       /\ mBuff' = "null"
       /\ cap' = 0
       /\ alertPc' = "wait"

\* An event with vendor data: its attributes are read, a length that is not
\* given is that of the member.
DumpEvent(l, r) ==
    /\ alertPc = "wait"
    /\ events < MaxEvents
    /\ events' = events + 1
    /\ ring' = r
    /\ mBuffSize' = IF l = NoLen THEN mBuffSize ELSE l
    /\ IF mBuffSize' = 0
       THEN UNCHANGED <<alertPc, mBuff, cap>>
       ELSE Allocate(mBuffSize', r)
    /\ UNCHANGED <<dumps, alerts, createFailed>>

\* The request for the dump cannot be created: the buffer is freed.
CreateFails ==
    /\ "create" \in Faults
    /\ alertPc = "ask"
    /\ mBuff' = FreeBuff
    /\ createFailed' = TRUE
    /\ alertPc' = "wait"
    /\ UNCHANGED <<cap, mBuffSize, ring, events, dumps, alerts>>

\* An attribute does not fit: the buffer is kept.
PutFails ==
    /\ "put" \in Faults
    /\ alertPc = "ask"
    /\ alertPc' = "wait"
    /\ UNCHANGED <<mBuff, cap, mBuffSize, ring, events, dumps, alerts, createFailed>>

\* mBuffSize += buffer_size, and the request is sent.
RequestDump ==
    /\ alertPc = "ask"
    /\ mBuffSize' = mBuffSize + ring
    /\ dumps' = 0 /\ alerts' = {}
    /\ alertPc' = "reply"
    /\ UNCHANGED <<mBuff, cap, ring, events, createFailed>>

-----------------------------------------------------------------------------
(* handleResponse, called from within requestResponse                      *)

\* on_alert is called for each of n dump attributes with the members as they
\* are: the first call releases the buffer, and the size stays.
Calls(n) ==
    {[nth |-> dumps + k, size |-> mBuffSize,
      buff |-> IF k = 1 THEN mBuff ELSE "null",
      cap |-> IF k = 1 THEN cap ELSE 0] : k \in 1..n}

\* Mutant of DumpReply: the pointer is not reset.
DumpReplyDangling(n) ==
    /\ alertPc = "reply"
    /\ dumps + n <= MaxDumps
    /\ dumps' = dumps + n
    /\ alerts' = alerts \cup Calls(n)
    /\ mBuff' = FreeBuff
    /\ UNCHANGED <<alertPc, cap, mBuffSize, ring, events, createFailed>>

\* A reply with n dump attributes.  The wait goes on until the request is
\* acknowledged, so that further replies may come: of the driver, or those to
\* a dump request of another thread on the shared socket.
DumpReply(n) ==
    /\ alertPc = "reply"
    /\ dumps + n <= MaxDumps
    /\ dumps' = dumps + n
    /\ alerts' = alerts \cup Calls(n)
    /\ mBuff' = "null"
    /\ cap' = 0
    /\ UNCHANGED <<alertPc, mBuffSize, ring, events, createFailed>>

\* The request is acknowledged after the dump, or it is refused or no reply
\* holds a dump: then the buffer is kept.
WaitEnds ==
    /\ alertPc = "reply"
    /\ dumps > 0 \/ "request" \in Faults
    /\ alertPc' = "wait"
    /\ UNCHANGED <<mBuff, cap, mBuffSize, ring, events, dumps, alerts,
                   createFailed>>

AlertNext ==
    \/ \E l \in DumpLen \cup {NoLen}, r \in RingLen : DumpEvent(l, r)
    \/ \E n \in 1..MaxDumps : DumpReply(n)
    \/ CreateFails \/ PutFails \/ RequestDump \/ WaitEnds

AlertSpec == AlertInit /\ [][AlertNext]_alertVars

-----------------------------------------------------------------------------
(* Properties                                                              *)

\* The first dump of a wait is handed to on_alert in a buffer that is still
\* allocated and at least as long as the size that goes with it, after any
\* failed events before; further ones come with no buffer, although with the
\* same size, and none with a buffer that was freed.
AlertWithinBuffer ==
    \A a \in alerts :
        IF a.nth = 1 THEN a.buff = "live" /\ a.size <= a.cap
                     ELSE a.buff = "null"

\* The buffer is freed once, after failed allocations, attributes, requests
\* and replies; only a request that could not be created leaves the pointer
\* to the freed buffer behind.
FreedOnce == mBuff \in {"freed", "freedTwice"} => createFailed
=============================================================================
