------------------------------ MODULE WifiHal -------------------------------
(***************************************************************************)
(* The two tables of the WLAN HAL and the command objects in them          *)
(* (wlan/hal/common.cpp, cpp_bindings.h, gscan.cpp, rtt.cpp, wifi_hal.cpp, *)
(* wifi_logger.cpp).                                                       *)
(*                                                                         *)
(* The client's thread starts and stops commands; the thread of the event  *)
(* loop dispatches vendor events to the handlers in event_cb.  A command   *)
(* object is reference counted: one reference belongs to whoever may still *)
(* cancel it (its entry in cmd, or the client thread while it takes it     *)
(* down), one to the loop thread during a callback.                        *)
(*                                                                         *)
(* The loop itself and the start of wifi_cleanup are those of EventLoop;   *)
(* the steps here say what an event handler and the cancelling of the      *)
(* outstanding commands do.                                                *)
(***************************************************************************)
EXTENDS Integers, Sequences, FiniteSets, SequencesExt

CONSTANTS Command,      \* addresses of command objects
          NoCommand,    \* the null pointer
          RequestId,    \* request ids the client uses
          AnyId,        \* the id -1 of the "whichever is running" calls
          ClassName,    \* the commands the client starts
          ApiCalls,     \* the kinds of calls the client makes
          AllocEventCb, \* alloc_event_cb
          AllocCmd,     \* alloc_cmd
          Misuse,       \* what a careless client does, see ClientMayStart
          QueueSize, MaxEvents, Faults   \* see EventLoop

ASSUME WifiHalAssumption ==
    /\ NoCommand \notin Command
    /\ AnyId \notin RequestId
    /\ ClassName \subseteq {"FullScan", "Scan", "Hotlist", "EPNO", "SigChange",
                           "Anqpo", "RSSI", "Rtt", "Log", "Alert"}
    /\ AllocEventCb \in Nat
    /\ AllocCmd \in Nat
    /\ Misuse \subseteq {"sameId", "sameEvents", "stopRtt"}
    /\ ApiCalls \subseteq {"start", "stop", "stopAny", "rttCancel", "cleanup"}
    /\ QueueSize \in Nat \ {0}
    /\ MaxEvents \in Nat
    /\ Faults \subseteq {"hangup", "doneWrite"}   \* see TornDownAfterLoop

VARIABLES loop, in_event_loop, clean_up, exitMsg, doneMsg, queue, sock, sent,
          cleaner, info,   \* EventLoop's
          event_cb,   \* handlers, a sequence of [key, cmd]
          cmd,        \* outstanding commands, a sequence of [id, cmd]
          refs,       \* mRefs of every object; 0: not allocated
          class,      \* the class of an object
          id,         \* mId of an object
          todo,       \* what is left of the client thread's call
          this,       \* the command that call works on
          bad,        \* bad_commands of wifi_cleanup
          num,        \* num_cmd saved by wifi_cleanup
          held,       \* the command whose handler the loop thread runs
          step        \* where in the handler the loop thread is

loopVars == <<loop, in_event_loop, clean_up, exitMsg, doneMsg, queue, sock,
              sent, cleaner, info>>
objVars == <<refs, class, id>>
apiVars == <<todo, this>>
cleanupVars == <<bad, num>>
handlerVars == <<held, step>>
vars == <<loopVars, event_cb, cmd, objVars, apiVars, cleanupVars, handlerVars>>

-----------------------------------------------------------------------------
(* Command classes.  start() and cancel() of a class are short programs:   *)
(*   try        a request that the driver may refuse; on failure the rest  *)
(*              is dropped, "undo" is run and the call fails               *)
(*   ask        a request whose failure changes nothing                    *)
(*   register, unregister   one vendor event handler                       *)
(*   unregisterCmd          wifi_unregister_cmd(id())                      *)
(*   release                releaseRef()                                   *)

Instr(op, key, undo) == [op |-> op, key |-> key, undo |-> undo]
Try(undo) == Instr("try", "", undo)
Ask == Instr("ask", "", <<>>)
Register(keys) == [i \in DOMAIN keys |-> Instr("register", keys[i], <<>>)]
Unregister(keys) == [i \in DOMAIN keys |-> Instr("unregister", keys[i], <<>>)]
UnregisterCmd == Instr("unregisterCmd", "", <<>>)
Release == Instr("release", "", <<>>)
CleanupRelease == Instr("cleanupRelease", "", <<>>)

\* FullScanResultsCommand
FullScanStart == <<Try(<<>>)>> \o Register(<<"FULL_SCAN">>)
                 \o <<Try(Unregister(<<"FULL_SCAN">>))>>
FullScanCancel == <<Ask>> \o Unregister(<<"FULL_SCAN">>)

\* ScanCommand: setup, scan configuration, then the start request
ScanKeys == <<"SCAN_COMPLETE", "SCAN_AVAILABLE", "FULL_SCAN">>
ScanStart == <<Try(<<>>), Try(<<>>), Try(<<>>)>>
             \o Register(<<"SCAN_AVAILABLE", "SCAN_COMPLETE", "FULL_SCAN">>)
             \o <<Try(Unregister(ScanKeys))>>
ScanCancel == <<Ask>> \o Unregister(ScanKeys)

\* BssidHotlistCommand: a refused setup also unregisters
HotlistKeys == <<"HOTLIST_FOUND", "HOTLIST_LOST">>
HotlistStart == <<Try(<<>>), Try(Unregister(HotlistKeys)), Try(<<>>)>>
                \o Register(HotlistKeys) \o <<Try(Unregister(HotlistKeys))>>
\* Mutant of HotlistCancel: forgets the handler of the lost events.
HotlistCancelOne == Unregister(<<"HOTLIST_FOUND">>) \o <<Ask>>
HotlistCancel == Unregister(HotlistKeys) \o <<Ask>>

\* ePNOCommand: the handler is registered after the only request
EPNOStart == <<Try(<<>>), Try(Unregister(<<"EPNO">>))>> \o Register(<<"EPNO">>)
EPNOCancel == Unregister(<<"EPNO">>) \o <<Ask>>

\* SignificantWifiChangeCommand
SigChangeStart == <<Try(<<>>), Try(<<>>)>> \o Register(<<"SIG_CHANGE">>)
                  \o <<Try(Unregister(<<"SIG_CHANGE">>))>>
SigChangeCancel == Unregister(<<"SIG_CHANGE">>) \o <<Ask>>

\* AnqpoConfigureCommand
AnqpoStart == <<Try(<<>>)>> \o Register(<<"ANQPO">>)
              \o <<Try(Unregister(<<"ANQPO">>))>>
AnqpoCancel == <<Ask>> \o Unregister(<<"ANQPO">>)

\* SetRSSIMonitorCommand
RSSIStart == <<Try(<<>>)>> \o Register(<<"RSSI">>)
RSSICancel == <<Ask>> \o Unregister(<<"RSSI">>)

\* RttCommand; cancel_specific differs from cancel in the request alone
RttStart == <<Try(<<>>)>> \o Register(<<"RTT">>)
RttCancel == <<Ask>> \o Unregister(<<"RTT">>)

\* SetLogHandler
LogStart == Register(<<"RING">>)
LogCancel == Unregister(<<"RING">>) \o <<Ask>>

\* SetAlertHandler: cancel() also takes the command out of the cmd table
AlertStart == Register(<<"MEM_DUMP">>)
AlertCancel == Unregister(<<"MEM_DUMP">>) \o <<UnregisterCmd>>

StartProgram == [
    FullScan |-> FullScanStart, Scan |-> ScanStart, Hotlist |-> HotlistStart,
    EPNO |-> EPNOStart, SigChange |-> SigChangeStart, Anqpo |-> AnqpoStart,
    RSSI |-> RSSIStart, Rtt |-> RttStart, Log |-> LogStart, Alert |-> AlertStart]
CancelProgram == [
    FullScan |-> FullScanCancel, Scan |-> ScanCancel, Hotlist |-> HotlistCancel,
    EPNO |-> EPNOCancel, SigChange |-> SigChangeCancel, Anqpo |-> AnqpoCancel,
    RSSI |-> RSSICancel, Rtt |-> RttCancel, Log |-> LogCancel, Alert |-> AlertCancel]

\* Classes whose stop call takes id -1 for "whichever is running".
StopAnyClass == {"FullScan", "Scan", "EPNO", "RSSI", "Log", "Alert"}

Keys(c) == {StartProgram[c][i].key :
                i \in {j \in DOMAIN StartProgram[c] : StartProgram[c][j].op = "register"}}
Event == UNION {Keys(c) : c \in ClassName}

L == INSTANCE EventLoop

-----------------------------------------------------------------------------
(* The tables                                                              *)

\* Every search of the code takes the first match.
FirstKey(key) == SelectInSeq(event_cb, LAMBDA h : h.key = key)
FirstId(i) == SelectInSeq(cmd, LAMBDA c : c.id = i)

\* Mutant of RegisterVendorHandler: cb_arg is left null.
RegisterWithoutArg(key, c) ==
    event_cb' = IF Len(event_cb) < AllocEventCb
                THEN Append(event_cb, [key |-> key, cmd |-> NoCommand])
                ELSE event_cb

\* wifi_register_vendor_handler; a full table makes it fail, which no caller
\* looks at.
RegisterVendorHandler(key, c) ==
    event_cb' = IF Len(event_cb) < AllocEventCb
                THEN Append(event_cb, [key |-> key, cmd |-> c])
                ELSE event_cb

\* Mutant of UnregisterVendorHandler: compares the vendor but not the event.
UnregisterAnyHandler(key) ==
    event_cb' = IF event_cb = <<>> THEN event_cb ELSE Tail(event_cb)

\* wifi_unregister_vendor_handler: whoever registered the first match
UnregisterVendorHandler(key) ==
    event_cb' = IF FirstKey(key) = 0 THEN event_cb
                ELSE RemoveAt(event_cb, FirstKey(key))

\* wifi_register_cmd
CmdTableFull == Len(cmd) >= AllocCmd
RegisterCmd(i, c) == ~CmdTableFull /\ cmd' = Append(cmd, [id |-> i, cmd |-> c])

\* wifi_unregister_cmd: the table without the first match
WithoutFirst(i) == IF FirstId(i) = 0 THEN cmd ELSE RemoveAt(cmd, FirstId(i))

AddRef(c) == [refs EXCEPT ![c] = @ + 1]
\* releaseRef: the object is deleted with its last reference.
ReleaseRef(c) ==
    /\ refs' = [refs EXCEPT ![c] = @ - 1]
    /\ class' = IF refs[c] = 1 THEN [class EXCEPT ![c] = "none"] ELSE class
    /\ id' = IF refs[c] = 1 THEN [id EXCEPT ![c] = AnyId] ELSE id

New(o, c, i) ==
    /\ refs[o] = 0
    /\ refs' = [refs EXCEPT ![o] = 1]
    /\ class' = [class EXCEPT ![o] = c]
    /\ id' = [id EXCEPT ![o] = i]

-----------------------------------------------------------------------------
(* Calls of the client.  One thread, one call at a time; wifi_cleanup is   *)
(* its last.                                                               *)

ApiIdle == todo = <<>> /\ cleaner = "idle"

\* A careful client uses no request id that is still in use, starts no second
\* command for events that a running one subscribes to, and stops RTT with
\* wifi_rtt_range_cancel and no other stop call.
ClientMayStart(c, i) ==
    /\ "sameId" \in Misuse \/ \A j \in DOMAIN cmd : cmd[j].id # i
    /\ \/ "sameEvents" \in Misuse
       \/ \A j \in DOMAIN event_cb : event_cb[j].key \notin Keys(c)

ClientMayStop(i) ==
    \/ "stopRtt" \in Misuse
    \/ \A j \in DOMAIN cmd : cmd[j].id = i => class[cmd[j].cmd] # "Rtt"

\* wifi_start_gscan, wifi_set_bssid_hotlist, ...: allocate the command, save
\* it and start it; with the table full it is released again.
StartCommand(c, o, i) ==
    /\ "start" \in ApiCalls
    /\ ApiIdle
    /\ ClientMayStart(c, i)
    /\ New(o, c, i)
    /\ this' = o
    /\ \/ RegisterCmd(i, o) /\ todo' = StartProgram[c]
       \/ CmdTableFull /\ todo' = <<Release>> /\ UNCHANGED cmd
    /\ UNCHANGED <<loopVars, event_cb, cleanupVars, handlerVars>>

\* wifi_cancel_cmd
StopCommand(i) ==
    /\ "stop" \in ApiCalls
    /\ ApiIdle
    /\ ClientMayStop(i)
    /\ FirstId(i) # 0
    /\ this' = cmd[FirstId(i)].cmd
    /\ cmd' = WithoutFirst(i)
    /\ todo' = CancelProgram[class[this']] \o <<Release>>
    /\ UNCHANGED <<loopVars, event_cb, objVars, cleanupVars, handlerVars>>

\* wifi_stop_gscan(-1) and its like: cancel() of an object made for the call
\* (FullScan passes id 0; no id of the client's is -1 or 0).
StopAny(c, o) ==
    /\ "stopAny" \in ApiCalls
    /\ ApiIdle
    /\ c \in StopAnyClass
    /\ New(o, c, AnyId)
    /\ this' = o
    /\ todo' = CancelProgram[c] \o <<Release>>
    /\ UNCHANGED <<loopVars, event_cb, cmd, cleanupVars, handlerVars>>

\* wifi_rtt_range_cancel: cancel_specific() of an object made for the call
RttRangeCancel(o, i) ==
    /\ "rttCancel" \in ApiCalls
    /\ ApiIdle
    /\ New(o, "Rtt", i)
    /\ this' = o
    /\ todo' = RttCancel \o <<Release>>
    /\ UNCHANGED <<loopVars, event_cb, cmd, cleanupVars, handlerVars>>

\* Mutant of WifiCleanup: with nothing outstanding it does not stop the loop.
WifiCleanupInHaste ==
    /\ "cleanup" \in ApiCalls
    /\ todo = <<>>
    /\ \/ cmd # <<>> /\ L!CleanupBegin
       \/ /\ cmd = <<>>
          /\ cleaner = "idle"
          /\ cleaner' = "flag"
          /\ UNCHANGED <<loop, in_event_loop, clean_up, exitMsg, doneMsg, queue,
                         sock, sent, info>>
    /\ UNCHANGED <<event_cb, cmd, objVars, apiVars, cleanupVars, handlerVars>>

WifiCleanup ==
    /\ "cleanup" \in ApiCalls
    /\ todo = <<>>
    /\ L!CleanupBegin
    /\ UNCHANGED <<event_cb, cmd, objVars, apiVars, cleanupVars, handlerVars>>

-----------------------------------------------------------------------------
(* The steps of a call                                                     *)

At(op) == todo # <<>> /\ Head(todo).op = op

Continue(rest) == todo' = rest /\ this' = IF rest = <<>> THEN NoCommand ELSE this

\* A request of start(): refused, the call undoes what it did, takes the first
\* command with this id out of the table and releases its own.
TryRequest ==
    /\ At("try")
    /\ \/ Continue(Tail(todo))
       \/ Continue(Head(todo).undo \o <<UnregisterCmd, Release>>)
    /\ UNCHANGED <<loopVars, event_cb, cmd, objVars, cleanupVars, handlerVars>>

AskRequest ==
    /\ At("ask")
    /\ Continue(Tail(todo))
    /\ UNCHANGED <<loopVars, event_cb, cmd, objVars, cleanupVars, handlerVars>>

DoRegister ==
    /\ At("register")
    /\ RegisterVendorHandler(Head(todo).key, this)
    /\ Continue(Tail(todo))
    /\ UNCHANGED <<loopVars, cmd, objVars, cleanupVars, handlerVars>>

DoUnregister ==
    /\ At("unregister")
    /\ UnregisterVendorHandler(Head(todo).key)
    /\ Continue(Tail(todo))
    /\ UNCHANGED <<loopVars, cmd, objVars, cleanupVars, handlerVars>>

DoUnregisterCmd ==
    /\ At("unregisterCmd")
    /\ cmd' = WithoutFirst(id[this])
    /\ Continue(Tail(todo))
    /\ UNCHANGED <<loopVars, event_cb, objVars, cleanupVars, handlerVars>>

DoRelease ==
    /\ At("release")
    /\ ReleaseRef(this)
    /\ Continue(Tail(todo))
    /\ UNCHANGED <<loopVars, event_cb, cmd, cleanupVars, handlerVars>>

\* wifi_cleanup, one turn of its loop: cancel() the command at bad_commands ...
CleanupTurn ==
    /\ cleaner = "cancel"
    /\ todo = <<>>
    /\ Len(cmd) > bad
    /\ num' = Len(cmd)
    /\ this' = cmd[bad + 1].cmd
    /\ todo' = CancelProgram[class[this']] \o <<CleanupRelease>>
    /\ UNCHANGED <<loopVars, event_cb, cmd, objVars, bad, handlerVars>>

\* Mutant of DoCleanupRelease: steps past every command.
DoCleanupReleaseSkips ==
    /\ At("cleanupRelease")
    /\ bad' = bad + 1
    /\ ReleaseRef(this)
    /\ Continue(Tail(todo))
    /\ UNCHANGED <<loopVars, event_cb, cmd, num, handlerVars>>

\* ... and step past it if that did not take it out of the table.
DoCleanupRelease ==
    /\ At("cleanupRelease")
    /\ bad' = IF Len(cmd) = num THEN bad + 1 ELSE bad
    /\ ReleaseRef(this)
    /\ Continue(Tail(todo))
    /\ UNCHANGED <<loopVars, event_cb, cmd, num, handlerVars>>

CleanupLoopEnds ==
    /\ todo = <<>>
    /\ Len(cmd) <= bad
    /\ L!CleanupCancelled
    /\ UNCHANGED <<event_cb, cmd, objVars, apiVars, cleanupVars, handlerVars>>

CleanupOther ==
    /\ L!CleanupRead \/ L!CleanupFlag \/ L!CleanupClose \/ L!CleanupFree
    /\ UNCHANGED <<event_cb, cmd, objVars, apiVars, cleanupVars, handlerVars>>

-----------------------------------------------------------------------------
(* The loop thread                                                         *)

\* Mutant of Dispatch: the callback runs without a reference of its own.
DispatchUncounted ==
    /\ L!PollIn
    /\ LET i == FirstKey(Head(queue)) IN
       IF i = 0
       THEN held' = NoCommand /\ step' = "return"
       ELSE held' = event_cb[i].cmd /\ step' = "handler"
    /\ UNCHANGED <<event_cb, cmd, objVars, apiVars, cleanupVars>>

\* internal_valid_message_handler up to the call of the handler: the first
\* match gets the event, its command a reference; an event without a handler
\* is dropped.
Dispatch ==
    /\ L!PollIn
    /\ LET i == FirstKey(Head(queue)) IN
       IF i = 0
       THEN held' = NoCommand /\ step' = "return" /\ UNCHANGED refs
       ELSE /\ held' = event_cb[i].cmd
            /\ refs' = AddRef(event_cb[i].cmd)
            /\ step' = "handler"
    /\ UNCHANGED <<event_cb, cmd, class, id, apiVars, cleanupVars>>

\* handleEvent: the client's callback runs.  An RTT event may carry the
\* completion flag, and its handler then goes on.
HandleEvent ==
    /\ step = "handler"
    /\ step' \in {"release"} \cup (IF class[held] = "Rtt" THEN {"rttUnregister"} ELSE {})
    /\ UNCHANGED <<loopVars, event_cb, cmd, objVars, apiVars, cleanupVars, held>>

RttUnregister ==
    /\ step = "rttUnregister"
    /\ UnregisterVendorHandler("RTT")
    /\ step' = "rttFinish"
    /\ UNCHANGED <<loopVars, cmd, objVars, apiVars, cleanupVars, held>>

\* After the results are delivered: release the command of this id.
RttFinish ==
    /\ step = "rttFinish"
    /\ LET i == FirstId(id[held]) IN
       /\ cmd' = WithoutFirst(id[held])
       /\ IF i = 0 THEN UNCHANGED objVars ELSE ReleaseRef(cmd[i].cmd)
    /\ step' = "release"
    /\ UNCHANGED <<loopVars, event_cb, apiVars, cleanupVars, held>>

ReleaseHeld ==
    /\ step = "release"
    /\ ReleaseRef(held)
    /\ held' = NoCommand
    /\ step' = "return"
    /\ UNCHANGED <<loopVars, event_cb, cmd, apiVars, cleanupVars>>

HandlerReturns ==
    /\ step = "return"
    /\ L!Handled
    /\ step' = "none"
    /\ UNCHANGED <<event_cb, cmd, objVars, apiVars, cleanupVars, held>>

LoopOther ==
    /\ \/ L!EnterLoop \/ L!PollError \/ L!PollHangUp
       \/ L!PollExit \/ L!CheckCleanUp
    /\ UNCHANGED <<event_cb, cmd, objVars, apiVars, cleanupVars, handlerVars>>

KernelStep ==
    /\ L!KernelStep
    /\ UNCHANGED <<event_cb, cmd, objVars, apiVars, cleanupVars, handlerVars>>

-----------------------------------------------------------------------------
Init ==
    /\ L!Init
    /\ event_cb = <<>>
    /\ cmd = <<>>
    /\ refs = [o \in Command |-> 0]
    /\ class = [o \in Command |-> "none"]
    /\ id = [o \in Command |-> AnyId]
    /\ todo = <<>>
    /\ this = NoCommand
    /\ bad = 0
    /\ num = 0
    /\ held = NoCommand
    /\ step = "none"

ClientCall ==
    \/ \E c \in ClassName, o \in Command, i \in RequestId : StartCommand(c, o, i)
    \/ \E i \in RequestId : StopCommand(i)
    \/ \E c \in ClassName, o \in Command : StopAny(c, o)
    \/ \E o \in Command, i \in RequestId : RttRangeCancel(o, i)
    \/ WifiCleanup

ClientStep == \/ TryRequest \/ AskRequest \/ DoRegister \/ DoUnregister
              \/ DoUnregisterCmd \/ DoRelease
              \/ CleanupTurn \/ DoCleanupRelease \/ CleanupLoopEnds \/ CleanupOther

LoopStep == \/ Dispatch \/ HandleEvent \/ RttUnregister \/ RttFinish
            \/ ReleaseHeld \/ HandlerReturns \/ LoopOther

Next == KernelStep \/ ClientCall \/ ClientStep \/ LoopStep

\* Both threads are scheduled and the driver answers every request; nobody has
\* to call the HAL.
Spec == Init /\ [][Next]_vars
FairSpec == Spec /\ WF_vars(ClientStep) /\ WF_vars(LoopStep)

-----------------------------------------------------------------------------
(* Properties                                                              *)

TypeOK ==
    /\ L!TypeOK
    /\ event_cb \in Seq([key : Event, cmd : Command])
    /\ cmd \in Seq([id : RequestId, cmd : Command])
    /\ refs \in [Command -> Nat]
    /\ class \in [Command -> DOMAIN StartProgram \cup {"none"}]
    /\ id \in [Command -> RequestId \cup {AnyId}]
    /\ this \in Command \cup {NoCommand}
    /\ bad \in Nat /\ num \in Nat
    /\ held \in Command \cup {NoCommand}
    /\ step \in {"none", "handler", "rttUnregister", "rttFinish", "release", "return"}

\* Somebody will still cancel and release the command: it is in the cmd table
\* (past the entries that wifi_cleanup is done with), or the client's thread
\* is working on it.
Owned(o) == \/ \E j \in DOMAIN cmd : j > bad /\ cmd[j].cmd = o
            \/ this = o

\* The reference count of a command is exact: one reference for its owner, one
\* for the callback in progress.  No command is freed while it is in use and
\* none is left allocated without an owner.
RefsExact ==
    \A o \in Command :
        refs[o] = (IF Owned(o) THEN 1 ELSE 0) + (IF held = o THEN 1 ELSE 0)

\* No handler outlives its command: the cb_arg of every entry in event_cb is a
\* command that somebody owns, whatever starts, stops, refused requests and
\* completions came before.
HandlersOwned == \A i \in DOMAIN event_cb : Owned(event_cb[i].cmd)

\* Once wifi_cleanup has cancelled everything, no handler and no command
\* object is left.
NothingLeaked ==
    cleaner \in {"close", "free", "done"} =>
        event_cb = <<>> /\ \A o \in Command : refs[o] = 0

\* A command in the table that nobody is working on has every handler it asked
\* for, so its events reach it; an RTT command loses its own on completion.
Subscribed ==
    cleaner = "idle" =>
        \A j \in DOMAIN cmd : LET o == cmd[j].cmd IN
            (this # o /\ ~(held = o /\ step = "rttFinish")) =>
                \A k \in Keys(class[o]) :
                    \E i \in DOMAIN event_cb : event_cb[i] = [key |-> k, cmd |-> o]

\* The tables and handlers refine the event loop, and the cancelling loop of
\* wifi_cleanup ends.
RefinesEventLoop == L!Spec
CleanupCompletes == L!CleanupCompletes
=============================================================================
