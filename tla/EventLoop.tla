----------------------------- MODULE EventLoop ------------------------------
(***************************************************************************)
(* The event loop of the WLAN HAL (wifi_event_loop) and its handshake with *)
(* wifi_cleanup over the socket pair cleanup_socks (wlan/hal/wifi_hal.cpp).*)
(*                                                                         *)
(* Two threads run: the loop thread, inside wifi_event_loop, and the       *)
(* client's thread, which calls wifi_cleanup.  The kernel queues vendor    *)
(* events on the event socket, may report an overrun (POLLERR) and may     *)
(* hang up (POLLHUP).  What the handler of an event does, and what         *)
(* cancelling the outstanding commands does, is refined by WifiHal.        *)
(***************************************************************************)
EXTENDS Naturals, Sequences

CONSTANTS Event,        \* the vendor events the kernel can send
          QueueSize,    \* receive buffer of the event socket, in events
          MaxEvents,    \* bound: events the kernel sends in a behaviour
          Faults        \* the failures of the environment that may happen

ASSUME EventLoopAssumption ==
    /\ QueueSize \in Nat \ {0}
    /\ MaxEvents \in Nat
    /\ Faults \subseteq {"hangup", "exitWrite", "doneWrite", "doneRead"}

VARIABLES loop,           \* where the loop thread is
          in_event_loop,  \* hal_info.in_event_loop
          clean_up,       \* hal_info.clean_up
          exitMsg,        \* "Exit" is readable at cleanup_socks[1]
          doneMsg,        \* "Done" is readable at cleanup_socks[0]
          queue,          \* events readable at the event socket
          sock,           \* condition of the event socket
          sent,           \* events the kernel has sent
          cleaner,        \* where the thread calling wifi_cleanup is
          info            \* the hal_info: "live", sockets "closed", "freed"

loopVars == <<loop, in_event_loop>>
sockVars == <<queue, sock, sent>>
pairVars == <<exitMsg, doneMsg>>
cleanVars == <<clean_up, cleaner, info>>
vars == <<loop, in_event_loop, clean_up, exitMsg, doneMsg, queue, sock, sent,
          cleaner, info>>

\* "out": not in wifi_event_loop; "poll": blocked in poll; "handle": in
\* internal_pollin_handler; "check": at the loop condition !clean_up.
LoopPc == {"out", "poll", "handle", "check"}

\* "idle": before wifi_cleanup; "read": waiting for "Done"; "flag": about to
\* set clean_up; "cancel": cancelling the commands; "close", "free": in
\* internal_cleaned_up_handler; "done": returned.
CleanerPc == {"idle", "read", "flag", "cancel", "close", "free", "done"}

TypeOK ==
    /\ loop \in LoopPc
    /\ in_event_loop \in BOOLEAN
    /\ clean_up \in BOOLEAN
    /\ exitMsg \in BOOLEAN
    /\ doneMsg \in BOOLEAN
    /\ queue \in Seq(Event)
    /\ sock \in {"ok", "err", "hup"}
    /\ sent \in 0..MaxEvents
    /\ cleaner \in CleanerPc
    /\ info \in {"live", "closed", "freed"}

\* The state wifi_initialize leaves: no thread in the loop yet.
Init ==
    /\ loop = "out"
    /\ in_event_loop = FALSE
    /\ clean_up = FALSE
    /\ exitMsg = FALSE
    /\ doneMsg = FALSE
    /\ queue = <<>>
    /\ sock = "ok"
    /\ sent = 0
    /\ cleaner = "idle"
    /\ info = "live"

-----------------------------------------------------------------------------
(* The kernel's side of the event socket.                                  *)

\* A vendor event is multicast.  With the receive buffer full it is lost and
\* the socket reports an overrun.
KernelSend(e) ==
    /\ sent < MaxEvents
    /\ info = "live"
    /\ sent' = sent + 1
    /\ IF Len(queue) < QueueSize
       THEN queue' = Append(queue, e) /\ UNCHANGED sock
       ELSE sock' = (IF sock = "hup" THEN "hup" ELSE "err") /\ UNCHANGED queue
    /\ UNCHANGED <<loopVars, pairVars, cleanVars>>

KernelHangUp ==
    /\ "hangup" \in Faults
    /\ info = "live"
    /\ sock # "hup"
    /\ sock' = "hup"
    /\ UNCHANGED <<loopVars, pairVars, cleanVars, queue, sent>>

-----------------------------------------------------------------------------
(* wifi_event_loop.  With the hal_info torn down under it the loop thread   *)
(* reads closed descriptors and freed memory: that is where a behaviour of  *)
(* this model ends, and TornDownAfterLoop says that it is never reached.    *)

\* A call while in_event_loop is set returns at once and changes nothing.
\* The client calls only with a handle that has not been cleaned up.
EnterLoop ==
    /\ loop = "out"
    /\ info = "live"
    /\ ~in_event_loop
    /\ in_event_loop' = TRUE
    /\ loop' = "poll"
    /\ UNCHANGED <<pairVars, sockVars, cleanVars>>

\* POLLERR: one read from the socket, which returns the error and clears it.
PollError ==
    /\ loop = "poll"
    /\ info = "live"
    /\ sock = "err"
    /\ sock' = "ok"
    /\ loop' = "check"
    /\ UNCHANGED <<in_event_loop, pairVars, cleanVars, queue, sent>>

\* POLLHUP: leave the loop.
PollHangUp ==
    /\ loop = "poll"
    /\ info = "live"
    /\ sock = "hup"
    /\ loop' = "out"
    /\ UNCHANGED <<in_event_loop, pairVars, sockVars, cleanVars>>

\* POLLIN on the event socket: nl_recvmsgs takes the next message and calls
\* internal_valid_message_handler with it.
PollIn ==
    /\ loop = "poll"
    /\ info = "live"
    /\ sock = "ok"
    /\ queue # <<>>
    /\ queue' = Tail(queue)
    /\ loop' = "handle"
    /\ UNCHANGED <<in_event_loop, pairVars, cleanVars, sock, sent>>

\* The handler returns.
Handled ==
    /\ loop = "handle"
    /\ info = "live"
    /\ loop' = "check"
    /\ UNCHANGED <<in_event_loop, pairVars, sockVars, cleanVars>>

\* Mutants of PollExit: the loop answers but does not leave, leaves and lets
\* wifi_event_loop be called again, or leaves without an answer.
PollExitStays ==
    /\ loop = "poll" /\ info = "live" /\ sock = "ok" /\ queue = <<>> /\ exitMsg
    /\ exitMsg' = FALSE
    /\ doneMsg' = TRUE
    /\ loop' = "check"
    /\ UNCHANGED <<in_event_loop, sockVars, cleanVars>>

PollExitResets ==
    /\ loop = "poll" /\ info = "live" /\ sock = "ok" /\ queue = <<>> /\ exitMsg
    /\ exitMsg' = FALSE
    /\ doneMsg' = TRUE
    /\ loop' = "out"
    /\ in_event_loop' = FALSE
    /\ UNCHANGED <<sockVars, cleanVars>>

PollExitSilent ==
    /\ loop = "poll" /\ info = "live" /\ sock = "ok" /\ queue = <<>> /\ exitMsg
    /\ exitMsg' = FALSE
    /\ loop' = "out"
    /\ UNCHANGED <<in_event_loop, doneMsg, sockVars, cleanVars>>

\* POLLIN on the cleanup socket alone: read "Exit", answer "Done", leave.
PollExit ==
    /\ loop = "poll"
    /\ info = "live"
    /\ sock = "ok"
    /\ queue = <<>>
    /\ exitMsg
    /\ exitMsg' = FALSE
    /\ doneMsg' \in {TRUE} \cup (IF "doneWrite" \in Faults THEN {FALSE} ELSE {})
    /\ loop' = "out"
    /\ UNCHANGED <<in_event_loop, sockVars, cleanVars>>

\* while (!info->clean_up)
CheckCleanUp ==
    /\ loop = "check"
    /\ info = "live"
    /\ loop' = IF clean_up THEN "out" ELSE "poll"
    /\ UNCHANGED <<in_event_loop, pairVars, sockVars, cleanVars>>

-----------------------------------------------------------------------------
(* wifi_cleanup                                                            *)

\* Mutant of CleanupBegin: waits for the answer to an "Exit" it did not write.
CleanupBeginWaits ==
    /\ cleaner = "idle"
    /\ \/ exitMsg' = TRUE
       \/ "exitWrite" \in Faults /\ UNCHANGED exitMsg
    /\ cleaner' = "read"
    /\ UNCHANGED <<loopVars, sockVars, doneMsg, clean_up, info>>

\* Ask the loop to exit; if the write fails skip the wait for its answer.
CleanupBegin ==
    /\ cleaner = "idle"
    /\ \/ /\ exitMsg' = TRUE
          /\ cleaner' = "read"
       \/ /\ "exitWrite" \in Faults
          /\ cleaner' = "flag"
          /\ UNCHANGED exitMsg
    /\ UNCHANGED <<loopVars, sockVars, doneMsg, clean_up, info>>

\* Mutant of CleanupRead: goes on without an answer.
CleanupReadTimesOut ==
    /\ cleaner = "read"
    /\ doneMsg' = FALSE
    /\ cleaner' = "flag"
    /\ UNCHANGED <<loopVars, sockVars, exitMsg, clean_up, info>>

\* The blocking read returns what is written at the other end: "Done".
CleanupRead ==
    /\ cleaner = "read"
    /\ doneMsg
    /\ doneMsg' = FALSE
    /\ cleaner' = "flag"
    /\ UNCHANGED <<loopVars, sockVars, exitMsg, clean_up, info>>

\* It fails: that is only logged.  "Hopefully we dont get errors", the code says.
CleanupReadFails ==
    /\ "doneRead" \in Faults
    /\ cleaner = "read"
    /\ cleaner' = "flag"
    /\ UNCHANGED <<loopVars, sockVars, pairVars, clean_up, info>>

CleanupFlag ==
    /\ cleaner = "flag"
    /\ clean_up' = TRUE
    /\ cleaner' = "cancel"
    /\ UNCHANGED <<loopVars, sockVars, pairVars, info>>

\* All outstanding commands are cancelled (one by one in WifiHal).
CleanupCancelled ==
    /\ cleaner = "cancel"
    /\ cleaner' = "close"
    /\ UNCHANGED <<loopVars, sockVars, pairVars, clean_up, info>>

\* internal_cleaned_up_handler: close the sockets, call the client's handler,
\* free the hal_info.
CleanupClose ==
    /\ cleaner = "close"
    /\ info' = "closed"
    /\ cleaner' = "free"
    /\ UNCHANGED <<loopVars, sockVars, pairVars, clean_up>>

CleanupFree ==
    /\ cleaner = "free"
    /\ info' = "freed"
    /\ cleaner' = "done"
    /\ UNCHANGED <<loopVars, sockVars, pairVars, clean_up>>

-----------------------------------------------------------------------------
LoopStep == EnterLoop \/ PollError \/ PollHangUp \/ PollIn \/ Handled
            \/ PollExit \/ CheckCleanUp

CleanerStep == CleanupRead \/ CleanupFlag \/ CleanupCancelled \/ CleanupClose
               \/ CleanupFree

KernelStep == (\E e \in Event : KernelSend(e)) \/ KernelHangUp

Next == KernelStep \/ LoopStep \/ CleanupBegin \/ CleanupReadFails
        \/ CleanerStep

\* Both threads are scheduled; the client starts the loop (runEventLoop runs
\* in a thread of its own), but nobody has to call wifi_cleanup and no call has
\* to fail.
Fairness == WF_vars(LoopStep) /\ WF_vars(CleanerStep)

Spec == Init /\ [][Next]_vars
FairSpec == Spec /\ Fairness

-----------------------------------------------------------------------------
(* Properties                                                              *)

\* internal_cleaned_up_handler closes the sockets and frees the hal_info that
\* wifi_event_loop reads on every turn: by then the loop thread has left.
TornDownAfterLoop == info # "live" => loop = "out"

\* wifi_cleanup runs to its end once called, whatever the loop is doing when
\* "Exit" is written, provided the kernel's events end.
CleanupCompletes == cleaner # "idle" ~> cleaner = "done"

\* With hang-ups, a lost "Done", an "Exit" that cannot be written and a read of
\* the answer that fails: the only way for wifi_cleanup not to end is to wait
\* for the answer of a loop that has left without one.  A fault before its own
\* write never hangs it.
Unanswered == cleaner = "read" /\ loop = "out" /\ in_event_loop /\ ~doneMsg
CleanupEnds == cleaner # "idle" ~> cleaner = "done" \/ Unanswered

\* The abstract view of the handshake.
phaseBar == CASE cleaner = "idle"                    -> "up"
              [] cleaner \in {"read", "flag"}        -> "closing"
              [] cleaner \in {"cancel", "close", "free"} -> "stopped"
              [] cleaner = "done"                    -> "down"
busyBar == loop = "handle"

Promise == INSTANCE Shutdown WITH phase <- phaseBar, busy <- busyBar
KeepsPromise == Promise!Spec

\* The inductive invariant of the handshake: once the loop has answered "Done"
\* it has left for good, for in_event_loop is never reset.
LoopGone == loop = "out" /\ in_event_loop

IInv ==
    /\ TypeOK
    /\ loop # "out" => in_event_loop
    /\ cleaner = "idle" => ~exitMsg /\ ~doneMsg
    /\ doneMsg => LoopGone
    /\ cleaner \notin {"idle", "read"} => LoopGone
    /\ (info = "live") <=> (cleaner \notin {"free", "done"})
    /\ clean_up <=> cleaner \in {"cancel", "close", "free", "done"}
=============================================================================
