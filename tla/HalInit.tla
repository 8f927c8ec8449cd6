------------------------------- MODULE HalInit ------------------------------
(***************************************************************************)
(* wifi_wait_for_driver_ready and wifi_initialize (wlan/hal/wifi_hal.cpp): *)
(* the stages in which the hal_info, its sockets, the interface table and  *)
(* the multicast memberships come into being, with the error path of each  *)
(* stage, while netdevs come and go.  The client may call again after a    *)
(* failure, after wifi_cleanup, and while a handle is alive.               *)
(***************************************************************************)
EXTENDS Integers, Sequences, FiniteSets

CONSTANTS Netdev,       \* names under /sys/class/net
          WifiDev,      \* those that begin with wlan or p2p
          wlan0,        \* the one the driver creates first
          MaxPolls,     \* POLL_DRIVER_MAX_TIME_MS * 1000 / POLL_DRIVER_DURATION_US
          MaxPlugs,     \* bound: netdevs that come or go
          MaxCalls,     \* bound: calls of wifi_initialize
          Faults        \* the calls that may fail

FaultKinds == {"malloc", "socketpair", "cmd", "event", "get_cb", "resolve",
               "opendir", "group", "membership"}

ASSUME HalInitAssumption ==
    /\ IsFiniteSet(Netdev)
    /\ WifiDev \subseteq Netdev
    /\ wlan0 \in WifiDev
    /\ MaxPolls \in Nat \ {0}
    /\ MaxPlugs \in Nat
    /\ MaxCalls \in Nat
    /\ Faults \subseteq FaultKinds

VARIABLES netdev,          \* the netdevs there are
          plugs,           \* how often one has come or gone
          pc,              \* where the client's thread is
          count,           \* wifi_wait_for_driver_ready: polls left
          ready,           \* it has returned success, and no netdev has gone since
          calls,           \* calls of wifi_initialize
          result,          \* what the last one returned
          info,            \* the hal_info of the last call: "none", "alloc", "freed"
          open,            \* nl sockets of the process, by their fixed port
          cb_lock,         \* its mutex; while a handle is live, that one's
          live,            \* a handle has been returned with success
          handle,          \* *handle of the last call: NULL or a hal_info
          found,           \* what wifi_init_interfaces returned
          interfaces,      \* the netdevs entered into the interface table
          num_interfaces,  \* its size
          moved,           \* since the size was counted, netdevs have "come", "gone"
          joined           \* multicast groups of the last event socket

envVars == <<netdev, plugs>>
waitVars == <<count, ready>>
tableVars == <<found, interfaces, num_interfaces, moved>>
vars == <<netdev, plugs, pc, count, ready, calls, result, info, open, cb_lock,
          live, handle, found, interfaces, num_interfaces, moved, joined>>

\* The position after each stage of wifi_initialize; "poll": in
\* wifi_wait_for_driver_ready; "overrun": behind the end of the table.
Pc == {"idle", "poll", "pair", "cmd", "event", "resolve", "count", "fill",
       "join", "overrun"}
Sockets == {"cmd", "event"}
Groups == <<"scan", "mlme", "regulatory", "vendor">>
Group == {Groups[i] : i \in DOMAIN Groups}
Result == {"none", "SUCCESS", "UNKNOWN", "NOT_AVAILABLE"}

TypeOK ==
    /\ netdev \subseteq Netdev
    /\ plugs \in 0..MaxPlugs
    /\ pc \in Pc
    /\ count \in 0..MaxPolls
    /\ ready \in BOOLEAN
    /\ calls \in 0..MaxCalls
    /\ result \in Result
    /\ info \in {"none", "alloc", "freed"}
    /\ open \subseteq Sockets
    /\ cb_lock \in {"none", "init", "destroyed"}
    /\ live \in BOOLEAN
    /\ handle \in {"NULL", "info"}
    /\ found \in Result
    /\ interfaces \subseteq WifiDev
    /\ num_interfaces \in Nat
    /\ moved \subseteq {"come", "gone"}
    /\ joined \subseteq Group

Init ==
    /\ netdev \in SUBSET Netdev
    /\ plugs = 0
    /\ pc = "idle"
    /\ count = 0
    /\ ready = FALSE
    /\ calls = 0
    /\ result = "none"
    /\ info = "none"
    /\ open = {}
    /\ cb_lock = "none"
    /\ live = FALSE
    /\ handle = "NULL"
    /\ found = "none"
    /\ interfaces = {}
    /\ num_interfaces = 0
    /\ moved = {}
    /\ joined = {}

-----------------------------------------------------------------------------
(* The kernel: netdevs come and go at any time.                            *)

Plug(n) ==
    /\ plugs < MaxPlugs
    /\ n \notin netdev
    /\ plugs' = plugs + 1
    /\ netdev' = netdev \cup {n}
    /\ moved' = moved \cup {"come"}
    /\ UNCHANGED <<pc, waitVars, calls, result, info, open, cb_lock, live,
                   handle, found, interfaces, num_interfaces, joined>>

Unplug(n) ==
    /\ plugs < MaxPlugs
    /\ n \in netdev
    /\ plugs' = plugs + 1
    /\ netdev' = netdev \ {n}
    /\ moved' = moved \cup {"gone"}
    /\ ready' = FALSE
    /\ UNCHANGED <<pc, count, calls, result, info, open, cb_lock, live,
                   handle, found, interfaces, num_interfaces, joined>>

-----------------------------------------------------------------------------
(* wifi_wait_for_driver_ready, which the framework calls first              *)

WaitBegin ==
    /\ pc = "idle"
    /\ ~live
    /\ ~ready
    /\ pc' = "poll"
    /\ count' = MaxPolls
    /\ UNCHANGED <<envVars, ready, calls, result, info, open, cb_lock, live,
                   handle, tableVars, joined>>

\* Mutant of PollDriver: without --count.
PollDriverForever ==
    /\ pc = "poll"
    /\ IF wlan0 \in netdev THEN pc' = "idle" /\ ready' = TRUE
                           ELSE UNCHANGED <<pc, ready>>
    /\ UNCHANGED <<envVars, count, calls, result, info, open, cb_lock, live,
                   handle, tableVars, joined>>

\* Mutant of PollDriver: while (--count >= 0).
PollDriverOneMore ==
    /\ pc = "poll"
    /\ IF wlan0 \in netdev
       THEN pc' = "idle" /\ ready' = TRUE /\ UNCHANGED count
       ELSE /\ count' = count - 1
            /\ pc' = IF count' >= 0 THEN "poll" ELSE "idle"
            /\ UNCHANGED ready
    /\ UNCHANGED <<envVars, calls, result, info, open, cb_lock, live, handle,
                   tableVars, joined>>

\* One turn of the loop: look, else sleep and count down.  What appears during
\* the last sleep is not looked for any more.
PollDriver ==
    /\ pc = "poll"
    /\ IF wlan0 \in netdev
       THEN pc' = "idle" /\ ready' = TRUE /\ UNCHANGED count
       ELSE /\ count' = count - 1
            /\ pc' = IF count' > 0 THEN "poll" ELSE "idle"
            /\ UNCHANGED ready
    /\ UNCHANGED <<envVars, calls, result, info, open, cb_lock, live, handle,
                   tableVars, joined>>

-----------------------------------------------------------------------------
(* wifi_initialize                                                         *)

\* An error path: it returns err, frees the sockets in freed, if destroy the
\* mutex, and the hal_info.  The socket pair and the tables stay allocated.
Fails(err, freed, destroy) ==
    /\ pc' = "idle"
    /\ result' = err
    /\ open' = open \ freed
    /\ info' = "freed"
    /\ cb_lock' = IF destroy THEN "destroyed" ELSE cb_lock

\* A stage succeeds and the next is at p.
GoesOn(p) ==
    /\ pc' = p
    /\ UNCHANGED <<result, open, info, cb_lock>>

Initialize ==
    /\ pc = "idle"
    /\ calls < MaxCalls
    /\ calls' = calls + 1
    /\ handle' = "NULL"
    /\ cb_lock' = IF live THEN cb_lock ELSE "none"
    /\ \/ pc' = "pair" /\ info' = "alloc" /\ result' = "none"
       \/ "malloc" \in Faults /\ pc' = "idle" /\ info' = "none" /\ result' = "UNKNOWN"
    /\ UNCHANGED <<envVars, waitVars, open, live, tableVars, joined>>

CreatePair ==
    /\ pc = "pair"
    /\ \/ GoesOn("cmd")
       \/ "socketpair" \in Faults /\ Fails("UNKNOWN", {}, FALSE)
    /\ UNCHANGED <<envVars, waitVars, calls, live, handle, tableVars, joined>>

\* wifi_create_nl_socket binds a fixed port, which a socket of the process that
\* is still open keeps taken.
Created(s, next) ==
    /\ s \notin open
    /\ open' = open \cup {s}
    /\ pc' = next
    /\ UNCHANGED <<result, info, cb_lock>>

NotCreated(s) == s \in open \/ s \in Faults

CreateCmdSock ==
    /\ pc = "cmd"
    /\ \/ Created("cmd", "event")
       \/ NotCreated("cmd") /\ Fails("UNKNOWN", {}, FALSE)
    /\ UNCHANGED <<envVars, waitVars, calls, live, handle, tableVars, joined>>

\* With the callback of the event socket, which belongs to it.
CreateEventSock ==
    /\ pc = "event"
    /\ \/ Created("event", "resolve")
       \/ NotCreated("event") /\ Fails("UNKNOWN", {"cmd"}, FALSE)
       \/ "get_cb" \in Faults /\ Fails("UNKNOWN", Sockets, FALSE)
    /\ joined' = {}
    /\ UNCHANGED <<envVars, waitVars, calls, live, handle, tableVars>>

\* Mutant of ResolveFamily: the handle is handed out before the family is
\* resolved.
ResolveFamilyHandsOut ==
    /\ pc = "resolve"
    /\ handle' = "info"
    /\ \/ pc' = "count" /\ cb_lock' = "init" /\ UNCHANGED <<result, info, open>>
       \/ "resolve" \in Faults /\ Fails("UNKNOWN", Sockets, FALSE)
    /\ UNCHANGED <<envVars, waitVars, calls, live, tableVars, joined>>

\* The tables, the family id, the mutex; the handle is handed out here.
ResolveFamily ==
    /\ pc = "resolve"
    /\ \/ /\ pc' = "count"
          /\ cb_lock' = "init"
          /\ handle' = "info"
          /\ UNCHANGED <<result, info, open>>
       \/ /\ "resolve" \in Faults
          /\ Fails("UNKNOWN", Sockets, FALSE)
          /\ UNCHANGED handle
    /\ UNCHANGED <<envVars, waitVars, calls, live, tableVars, joined>>

\* wifi_init_interfaces returns err.
NoInterfaces(err) ==
    /\ found' = err
    /\ Fails("NOT_AVAILABLE", Sockets, TRUE)
    /\ UNCHANGED num_interfaces

\* Mutants of CountInterfaces: every netdev is counted; one is too few.
CountAllInterfaces ==
    /\ pc = "count"
    /\ \/ /\ netdev # {}
          /\ num_interfaces' = Cardinality(netdev)
          /\ GoesOn("fill")
          /\ UNCHANGED found
       \/ netdev = {} /\ NoInterfaces("NOT_AVAILABLE")
    /\ moved' = {}
    /\ interfaces' = {}
    /\ UNCHANGED <<envVars, waitVars, calls, live, handle, joined>>

CountMoreThanOne ==
    /\ pc = "count"
    /\ LET n == Cardinality(netdev \cap WifiDev) IN
       \/ /\ n > 1
          /\ num_interfaces' = n
          /\ GoesOn("fill")
          /\ UNCHANGED found
       \/ n <= 1 /\ NoInterfaces("NOT_AVAILABLE")
    /\ moved' = {}
    /\ interfaces' = {}
    /\ UNCHANGED <<envVars, waitVars, calls, live, handle, joined>>

\* wifi_init_interfaces, first pass over /sys/class/net: the size of the table.
CountInterfaces ==
    /\ pc = "count"
    /\ LET n == Cardinality(netdev \cap WifiDev) IN
       \/ /\ n > 0
          /\ num_interfaces' = n
          /\ GoesOn("fill")
          /\ UNCHANGED found
       \/ n = 0 /\ NoInterfaces("NOT_AVAILABLE")
       \/ "opendir" \in Faults /\ NoInterfaces("UNKNOWN")
    /\ moved' = {}
    /\ interfaces' = {}
    /\ UNCHANGED <<envVars, waitVars, calls, live, handle, joined>>

\* Second pass: the entries.  With more netdevs than were counted it writes
\* behind the table, and nothing is said of what follows.
FillInterfaces ==
    /\ pc = "fill"
    /\ \/ /\ interfaces' = netdev \cap WifiDev
          /\ GoesOn(IF Cardinality(interfaces') > num_interfaces
                    THEN "overrun" ELSE "join")
          /\ found' = "SUCCESS"
          /\ UNCHANGED num_interfaces
       \/ "opendir" \in Faults /\ NoInterfaces("UNKNOWN") /\ UNCHANGED interfaces
    /\ UNCHANGED <<envVars, waitVars, calls, live, handle, moved, joined>>

\* GetMulticastIdCommand: the id of a group, or a negative number when the
\* request fails or the driver's list has no group of that name (mId = -1).
MulticastId == IF "group" \in Faults THEN {-1, 1} ELSE {1}

NextGroup == Groups[Cardinality(joined) + 1]

\* The group is joined; after the last one wifi_initialize returns.
Joins(g) ==
    /\ joined' = joined \cup {g}
    /\ IF joined' = Group
       THEN pc' = "idle" /\ result' = "SUCCESS" /\ live' = TRUE
       ELSE UNCHANGED <<pc, result, live>>
    /\ UNCHANGED <<open, info, cb_lock>>

\* Mutant of AddMembership: only the membership is looked at, not the id.
AddMembershipAnyId ==
    /\ pc = "join"
    /\ \E id \in MulticastId :
          IF id < 0 /\ NextGroup = "vendor"
          THEN /\ pc' = "idle" /\ result' = "SUCCESS" /\ live' = TRUE
               /\ UNCHANGED <<joined, open, info, cb_lock>>
          ELSE Joins(NextGroup)
    /\ UNCHANGED <<envVars, waitVars, calls, handle, tableVars>>

\* wifi_add_membership for one group after the other; the first whose id is not
\* found, or that cannot be joined, ends it.
AddMembership ==
    /\ pc = "join"
    /\ \/ \E id \in MulticastId : id >= 0 /\ Joins(NextGroup)
       \/ /\ (\E id \in MulticastId : id < 0) \/ "membership" \in Faults
          /\ Fails("NOT_AVAILABLE", Sockets, TRUE)
          /\ UNCHANGED <<joined, live>>
    /\ UNCHANGED <<envVars, waitVars, calls, handle, tableVars>>

\* wifi_cleanup of a live handle, as its last step leaves it (EventLoop has
\* the steps before).  The client drops the handle.
Cleanup ==
    /\ pc = "idle"
    /\ live
    /\ live' = FALSE
    /\ open' = open \ Sockets
    /\ cb_lock' = "destroyed"
    /\ info' = "freed"
    /\ handle' = "NULL"
    /\ UNCHANGED <<envVars, pc, waitVars, calls, result, tableVars, joined>>

CallStep == PollDriver \/ CreatePair \/ CreateCmdSock \/ CreateEventSock
            \/ ResolveFamily \/ CountInterfaces \/ FillInterfaces \/ AddMembership

Next ==
    \/ \E n \in Netdev : Plug(n) \/ Unplug(n)
    \/ WaitBegin \/ Initialize \/ Cleanup
    \/ CallStep

Spec == Init /\ [][Next]_vars
\* A thread inside a call is scheduled; no call has to be made.
FairSpec == Spec /\ WF_vars(CallStep)

-----------------------------------------------------------------------------
(* Properties                                                              *)

\* Between calls, without a live handle, no netlink socket is left open and no
\* mutex initialised, whatever stage of wifi_initialize failed: the ports are
\* fixed, and a socket left over would make every later call fail.  *handle is
\* left pointing to a freed hal_info only by calls that returned
\* WIFI_ERROR_NOT_AVAILABLE; with WIFI_ERROR_UNKNOWN it is untouched.
FailureReleases ==
    pc = "idle" /\ ~live =>
        /\ open = {} /\ cb_lock # "init" /\ info # "alloc"
        /\ handle = "info" => result = "NOT_AVAILABLE"

\* A handle that was returned with success has both sockets and the four groups
\* joined, also while another wifi_initialize fails on the ports it holds.
LiveIsReady == live => open = Sockets /\ joined = Group /\ cb_lock = "init"

\* The interface table is filled to its size and not beyond, unless a netdev
\* came or went between the pass that counts and the pass that enters.
TableWhole ==
    /\ pc = "overrun" => "come" \in moved
    /\ pc = "join" /\ Cardinality(interfaces) < num_interfaces => "gone" \in moved

\* After wifi_wait_for_driver_ready has succeeded, and as long as no netdev
\* goes, wifi_initialize does not fail for want of an interface.
ReadyMeansFound ==
    [][pc = "count" /\ ready /\ pc' = "idle" => found' = "UNKNOWN"]_vars

\* wifi_wait_for_driver_ready and wifi_initialize return.
CallsReturn == pc \notin {"idle", "overrun"} ~> pc \in {"idle", "overrun"}
=============================================================================
