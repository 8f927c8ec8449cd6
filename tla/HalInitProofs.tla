---------------------------- MODULE HalInitProofs ---------------------------
(***************************************************************************)
(* What wifi_initialize holds and releases, for any netdevs, any bounds    *)
(* and any set of calls that may fail.                                     *)
(***************************************************************************)
EXTENDS HalInit, FiniteSetTheorems, TLAPS

Before == {"idle", "poll", "pair", "cmd"}
Table == {"count", "fill", "join", "overrun"}

\* What a call without a live handle holds at each of its stages.
Holding ==
    ~live => /\ pc \in Before => open = {}
             /\ pc = "event" => open = {"cmd"}
             /\ pc \in Table \cup {"resolve"} => open = Sockets
             /\ cb_lock = "init" <=> pc \in Table

\* The hal_info and the caller's handle.
Handed ==
    /\ ~live /\ pc \in {"idle", "poll"} =>
          /\ info # "alloc"
          /\ handle = "info" => result = "NOT_AVAILABLE"
    /\ pc \in {"pair", "cmd", "event", "resolve"} => handle = "NULL"

\* A call that gets past its first socket is the only one: the fixed ports keep
\* every other out while a handle is live.
Alone == live => pc \in Before \ {"poll"}

Stages == pc \in Pc /\ Holding /\ Handed /\ Alone /\ LiveIsReady

\* Nothing is held before the first call.
LEMMA Initially == Init => Stages
  BY DEF Init, Stages, Holding, Handed, Alone, LiveIsReady, Before, Table, Pc

\* No stage, no error path, no cleanup and no netdev breaks it.
LEMMA Inductive == Stages /\ [Next]_vars => Stages'
<1> SUFFICES ASSUME Stages, [Next]_vars PROVE Stages'
  OBVIOUS
<1> USE DEF Stages, Holding, Handed, Alone, LiveIsReady, Before, Table, Pc,
            Sockets
<1>1. ASSUME NEW n \in Netdev, Plug(n) PROVE Stages'
  BY <1>1 DEF Plug
<1>2. ASSUME NEW n \in Netdev, Unplug(n) PROVE Stages'
  BY <1>2 DEF Unplug
<1>3. CASE WaitBegin
  BY <1>3 DEF WaitBegin
<1>4. CASE Initialize
  BY <1>4 DEF Initialize
<1>5. CASE Cleanup
  BY <1>5 DEF Cleanup
<1>6. CASE PollDriver
  BY <1>6 DEF PollDriver
<1>7. CASE CreatePair
  BY <1>7 DEF CreatePair, GoesOn, Fails
<1>8. CASE CreateCmdSock
  BY <1>8 DEF CreateCmdSock, Created, Fails
<1>9. CASE CreateEventSock
  BY <1>9 DEF CreateEventSock, Created, Fails
<1>10. CASE ResolveFamily
  BY <1>10 DEF ResolveFamily, Fails
<1>11. CASE CountInterfaces
  BY <1>11 DEF CountInterfaces, NoInterfaces, GoesOn, Fails
<1>12. CASE FillInterfaces
  BY <1>12 DEF FillInterfaces, NoInterfaces, GoesOn, Fails
<1>13. CASE AddMembership
  BY <1>13 DEF AddMembership, Joins, Fails
<1>14. CASE UNCHANGED vars
  BY <1>14 DEF vars
<1>15. QED
  BY <1>1, <1>2, <1>3, <1>4, <1>5, <1>6, <1>7, <1>8, <1>9, <1>10, <1>11,
     <1>12, <1>13, <1>14 DEF Next, CallStep

\* The stages of wifi_initialize hold what they should at every step.
LEMMA StagesHold == Spec => []Stages
  BY Initially, Inductive, PTL DEF Spec

\* Whatever stage of wifi_initialize fails, no socket, mutex or hal_info is left
\* behind, and *handle dangles only after WIFI_ERROR_NOT_AVAILABLE.
THEOREM NothingHeldAfterFailure == Spec => []FailureReleases
<1>1. Stages => FailureReleases
  BY DEF Stages, Holding, Handed, FailureReleases, Before, Table
<1>2. QED
  BY <1>1, StagesHold, PTL

\* A live handle keeps its sockets, groups and mutex, also while another call
\* of wifi_initialize fails.
THEOREM LiveHandleIsReady == Spec => []LiveIsReady
<1>1. Stages => LiveIsReady
  BY DEF Stages
<1>2. QED
  BY <1>1, StagesHold, PTL

-----------------------------------------------------------------------------
(* The interface table                                                     *)

Wifi == netdev \cap WifiDev

\* Between the two passes over /sys/class/net the number of wifi netdevs stays
\* on one side of the number that was counted as long as they only come, or
\* only go; and wlan0 is there once wifi_wait_for_driver_ready has seen it.
Counted ==
    /\ netdev \subseteq Netdev
    /\ num_interfaces \in Nat
    /\ ready => wlan0 \in netdev
    /\ pc = "fill" =>
          /\ "come" \notin moved => Cardinality(Wifi) <= num_interfaces
          /\ "gone" \notin moved => Cardinality(Wifi) >= num_interfaces

TableInv == Counted /\ TableWhole

\* The wifi netdevs are finitely many, and fewer netdevs are no more of them.
LEMMA FewerWifi ==
    ASSUME NEW S \in SUBSET Netdev, NEW T \in SUBSET Netdev, S \subseteq T
    PROVE  /\ Cardinality(S \cap WifiDev) \in Nat
           /\ Cardinality(T \cap WifiDev) \in Nat
           /\ Cardinality(S \cap WifiDev) <= Cardinality(T \cap WifiDev)
<1>1. IsFiniteSet(T \cap WifiDev)
  <2>1. T \cap WifiDev \in SUBSET Netdev /\ IsFiniteSet(Netdev)
    BY HalInitAssumption DEF HalInitAssumption
  <2>2. QED
    BY <2>1, FS_Subset
<1>2. S \cap WifiDev \in SUBSET (T \cap WifiDev)
  OBVIOUS
<1>3. QED
  BY <1>1, <1>2, FS_Subset, FS_CardinalityType

\* No table has been made.
LEMMA TableInitially == Init => TableInv
  BY DEF Init, TableInv, Counted, TableWhole

\* A netdev that comes or goes is recorded, and only the two passes change the
\* table.
LEMMA TableInductive == TableInv /\ [Next]_vars => TableInv'
<1> SUFFICES ASSUME TableInv, [Next]_vars PROVE TableInv'
  OBVIOUS
<1> USE DEF TableInv, Counted, TableWhole, Wifi
<1>1. ASSUME NEW n \in Netdev, Plug(n) PROVE TableInv'
  <2>1. Cardinality(Wifi) \in Nat /\ Cardinality(Wifi') \in Nat
        /\ Cardinality(Wifi) <= Cardinality(Wifi')
    BY <1>1, FewerWifi DEF Plug
  <2>2. QED
    BY <1>1, <2>1 DEF Plug, waitVars
<1>2. ASSUME NEW n \in Netdev, Unplug(n) PROVE TableInv'
  <2>1. Cardinality(Wifi) \in Nat /\ Cardinality(Wifi') \in Nat
        /\ Cardinality(Wifi') <= Cardinality(Wifi)
    BY <1>2, FewerWifi DEF Unplug
  <2>2. QED
    BY <1>2, <2>1 DEF Unplug
<1>3. CASE WaitBegin \/ Initialize \/ Cleanup
  BY <1>3 DEF WaitBegin, Initialize, Cleanup, envVars, waitVars, tableVars
<1>4. CASE PollDriver
  BY <1>4 DEF PollDriver, envVars, tableVars
<1>5. CASE CreatePair \/ CreateCmdSock \/ CreateEventSock \/ ResolveFamily
  BY <1>5 DEF CreatePair, CreateCmdSock, CreateEventSock, ResolveFamily,
              GoesOn, Created, Fails, envVars, waitVars, tableVars
<1>6. CASE CountInterfaces
  <2>1. Cardinality(Wifi) \in Nat
    BY FewerWifi
  <2>2. QED
    BY <1>6, <2>1 DEF CountInterfaces, NoInterfaces, GoesOn, Fails, envVars,
                      waitVars
<1>7. CASE FillInterfaces
  <2>1. Cardinality(Wifi) \in Nat
    BY FewerWifi
  <2>2. QED
    BY <1>7, <2>1 DEF FillInterfaces, NoInterfaces, GoesOn, Fails, envVars,
                      waitVars
<1>8. CASE AddMembership
  BY <1>8 DEF AddMembership, Joins, Fails, envVars, waitVars, tableVars
<1>9. CASE UNCHANGED vars
  BY <1>9 DEF vars
<1>10. QED
  BY <1>1, <1>2, <1>3, <1>4, <1>5, <1>6, <1>7, <1>8, <1>9 DEF Next, CallStep

\* Netdevs that appear between the two passes are the only way to write behind
\* the interface table, and netdevs that vanish the only way to leave it short.
THEOREM TableIsWhole == Spec => []TableWhole
<1>1. TableInv => TableWhole
  BY DEF TableInv
<1>2. QED
  BY <1>1, TableInitially, TableInductive, PTL DEF Spec

\* With wlan0 seen and not gone, the first pass finds an interface.
THEOREM ReadyFinds == Spec => ReadyMeansFound
<1>1. TableInv /\ [Next]_vars =>
          [pc = "count" /\ ready /\ pc' = "idle" => found' = "UNKNOWN"]_vars
  <2> SUFFICES ASSUME TableInv, Next, pc = "count", ready, pc' = "idle"
               PROVE  found' = "UNKNOWN"
    OBVIOUS
  <2>1. CountInterfaces
    BY DEF Next, CallStep, Plug, Unplug, WaitBegin, Initialize, Cleanup,
           PollDriver, CreatePair, CreateCmdSock, CreateEventSock,
           ResolveFamily, FillInterfaces, AddMembership
  <2>2. Cardinality(netdev \cap WifiDev) # 0
    <3>1. wlan0 \in netdev \cap WifiDev
      BY HalInitAssumption DEF HalInitAssumption, TableInv, Counted
    <3>2. IsFiniteSet(netdev \cap WifiDev)
      <4>1. netdev \cap WifiDev \in SUBSET Netdev /\ IsFiniteSet(Netdev)
        BY HalInitAssumption DEF HalInitAssumption, TableInv, Counted
      <4>2. QED
        BY <4>1, FS_Subset
    <3>3. QED
      BY <3>1, <3>2, FS_EmptySet
  <2>3. QED
    BY <2>1, <2>2 DEF CountInterfaces, NoInterfaces, GoesOn
<1>2. QED
  BY <1>1, TableInitially, TableInductive, PTL DEF Spec, ReadyMeansFound
-----------------------------------------------------------------------------
(* The ranges, and the groups of wifi_add_membership                       *)

\* The groups are joined in the order of wifi_initialize, so the joined ones
\* are the first k, and the last one has not been joined while it waits.
FirstGroups(k) == {Groups[i] : i \in 1..k}
InGroupOrder ==
    /\ \E k \in 0..4 : joined = FirstGroups(k)
    /\ pc \in {"resolve"} \cup Table => joined # FirstGroups(4)

Ranges ==
    /\ TypeOK /\ InGroupOrder
    /\ pc = "poll" => count > 0

\* The five sets of groups wifi_initialize can have joined, written out.
LEMMA GroupSets ==
    /\ FirstGroups(0) = {}
    /\ FirstGroups(1) = {"scan"}
    /\ FirstGroups(2) = {"scan", "mlme"}
    /\ FirstGroups(3) = {"scan", "mlme", "regulatory"}
    /\ FirstGroups(4) = {"scan", "mlme", "regulatory", "vendor"}
    /\ Group = FirstGroups(4)
<1>1. /\ Groups[1] = "scan" /\ Groups[2] = "mlme"
      /\ Groups[3] = "regulatory" /\ Groups[4] = "vendor"
      /\ DOMAIN Groups = 1..4
  BY DEF Groups
<1>2. /\ 1..0 = {} /\ 1..1 = {1} /\ 1..2 = {1, 2} /\ 1..3 = {1, 2, 3}
      /\ 1..4 = {1, 2, 3, 4}
  OBVIOUS
<1>3. QED
  BY <1>1, <1>2 DEF FirstGroups, Group

\* Joining the next group of wifi_initialize keeps to their order, and the
\* group is one of the four.
LEMMA JoinsInOrder ==
    ASSUME InGroupOrder, pc \in Table
    PROVE  \E k \in 0..3 : /\ joined = FirstGroups(k)
                           /\ joined \cup {NextGroup} = FirstGroups(k + 1)
<1>1. PICK k \in 0..3 : joined = FirstGroups(k)
  BY DEF InGroupOrder
<1>2. Cardinality(joined) = k
  <2>1. CASE k = 0
    BY <1>1, <2>1, GroupSets, FS_EmptySet
  <2>2. CASE k = 1
    BY <1>1, <2>2, GroupSets, FS_Singleton
  <2>3. CASE k = 2
    <3>1. {"scan"} \cup {"mlme"} = {"scan", "mlme"} /\ "mlme" \notin {"scan"}
      OBVIOUS
    <3>2. IsFiniteSet({"scan"}) /\ Cardinality({"scan"}) = 1
      BY FS_Singleton
    <3>3. Cardinality({"scan", "mlme"}) = 2
      BY <3>1, <3>2, FS_AddElement
    <3>4. QED
      BY <1>1, <2>3, <3>3, GroupSets
  <2>4. CASE k = 3
    <3>1. /\ {"scan"} \cup {"mlme"} = {"scan", "mlme"}
          /\ "mlme" \notin {"scan"}
          /\ {"scan", "mlme"} \cup {"regulatory"}
                = {"scan", "mlme", "regulatory"}
          /\ "regulatory" \notin {"scan", "mlme"}
      OBVIOUS
    <3>2. IsFiniteSet({"scan"}) /\ Cardinality({"scan"}) = 1
      BY FS_Singleton
    <3>3. IsFiniteSet({"scan", "mlme"}) /\ Cardinality({"scan", "mlme"}) = 2
      BY <3>1, <3>2, FS_AddElement
    <3>4. Cardinality({"scan", "mlme", "regulatory"}) = 3
      BY <3>1, <3>3, FS_AddElement
    <3>5. QED
      BY <1>1, <2>4, <3>4, GroupSets
  <2>5. QED
    BY <2>1, <2>2, <2>3, <2>4
<1>3. joined \cup {Groups[k + 1]} = FirstGroups(k + 1)
  <2>1. 1..(k + 1) = (1..k) \cup {k + 1}
    OBVIOUS
  <2>2. QED
    BY <1>1, <2>1 DEF FirstGroups
<1>4. QED
  BY <1>1, <1>2, <1>3 DEF NextGroup

\* Before the first call everything is in its range.
LEMMA RangesInitially == Init => Ranges
<1> SUFFICES ASSUME Init PROVE Ranges
  OBVIOUS
<1>1. ready \in BOOLEAN /\ live \in BOOLEAN
  BY Zenon DEF Init
<1>2. TypeOK
  BY <1>1, HalInitAssumption
     DEF Init, TypeOK, Pc, Result, HalInitAssumption
<1>3. InGroupOrder
  BY GroupSets DEF Init, InGroupOrder, Table
<1>4. QED
  BY <1>2, <1>3 DEF Ranges, Init

\* The netdevs, the wait for the driver and the stages of wifi_initialize keep
\* every variable in its range.
LEMMA RangesInductive == Ranges /\ [Next]_vars => Ranges'
<1> SUFFICES ASSUME Ranges, [Next]_vars PROVE Ranges'
  OBVIOUS
<1> USE HalInitAssumption DEF Ranges, TypeOK, InGroupOrder, Pc, Result, Table,
        envVars, waitVars, tableVars
<1>1. ASSUME NEW n \in Netdev, Plug(n) PROVE Ranges'
  BY <1>1 DEF Plug, HalInitAssumption
<1>2. ASSUME NEW n \in Netdev, Unplug(n) PROVE Ranges'
  <2>1. ready' \in BOOLEAN
    BY <1>2, Zenon DEF Unplug
  <2>2. QED
    BY <1>2, <2>1 DEF Unplug, HalInitAssumption
<1>3. CASE WaitBegin
  BY <1>3 DEF WaitBegin, HalInitAssumption
<1>4. CASE Initialize
  BY <1>4 DEF Initialize, HalInitAssumption
<1>5. CASE Cleanup
  BY <1>5 DEF Cleanup
<1>6. CASE PollDriver
  <2>1. ready \in BOOLEAN
    OBVIOUS
  <2>2. ready' \in BOOLEAN
    BY <1>6, <2>1, Zenon DEF PollDriver
  <2>3. QED
    BY <1>6, <2>2 DEF PollDriver, HalInitAssumption
<1>7. CASE CreatePair
  BY <1>7 DEF CreatePair, GoesOn, Fails
<1>8. CASE CreateCmdSock
  BY <1>8, ZenonT(40) DEF CreateCmdSock, Created, Fails, Sockets
<1>9. CASE CreateEventSock
  <2>1. joined' = FirstGroups(0) /\ joined' # FirstGroups(4)
        /\ joined' \subseteq Group
    BY <1>9, GroupSets DEF CreateEventSock
  <2>2. \E k \in 0..4 : joined' = FirstGroups(k)
    BY <2>1
  <2>3. QED
    BY <1>9, <2>1, <2>2, ZenonT(40)
       DEF CreateEventSock, Created, Fails, Sockets
<1>10. CASE ResolveFamily
  BY <1>10 DEF ResolveFamily, Fails
<1>11. CASE CountInterfaces
  <2>1. Cardinality(netdev \cap WifiDev) \in Nat
    BY FewerWifi
  <2>2. QED
    BY <1>11, <2>1 DEF CountInterfaces, NoInterfaces, GoesOn, Fails
<1>12. CASE FillInterfaces
  BY <1>12 DEF FillInterfaces, NoInterfaces, GoesOn, Fails
<1>13. CASE AddMembership
  <2>1. PICK k \in 0..3 : /\ joined = FirstGroups(k)
                          /\ joined \cup {NextGroup} = FirstGroups(k + 1)
    BY <1>13, JoinsInOrder DEF AddMembership
  <2>2. joined' \in {joined, joined \cup {NextGroup}}
    BY <1>13 DEF AddMembership, Joins
  <2>3. \E j \in 0..4 : joined' = FirstGroups(j)
    BY <2>1, <2>2
  <2>4. joined' \subseteq Group
    <3>1. PICK j \in 0..4 : joined' = FirstGroups(j)
      BY <2>3
    <3>2. 1..j \subseteq DOMAIN Groups
      BY DEF Groups
    <3>3. QED
      BY <3>1, <3>2 DEF FirstGroups, Group
  <2>5. pc' \in {"idle", "join"} /\ (pc' = "join" => joined' # Group)
    BY <1>13 DEF AddMembership, Joins, Fails
  <2>6. live' \in BOOLEAN
    <3>1. live \in BOOLEAN
      OBVIOUS
    <3>2. QED
      BY <1>13, <3>1, Zenon DEF AddMembership, Joins
  <2>7. InGroupOrder'
    <3>1. pc' = "join" => joined' # FirstGroups(4)
      BY <2>5, GroupSets
    <3>2. QED
      BY <2>3, <2>5, <3>1
  <2>8. TypeOK'
    <3>1. /\ result' \in Result /\ info' \in {"none", "alloc", "freed"}
          /\ open' \subseteq Sockets
          /\ cb_lock' \in {"none", "init", "destroyed"}
      BY <1>13 DEF AddMembership, Joins, Fails
    <3>2. UNCHANGED <<netdev, plugs, count, ready, calls, handle, found,
                      interfaces, num_interfaces, moved>>
      BY <1>13 DEF AddMembership
    <3>3. QED
      BY <2>4, <2>5, <2>6, <3>1, <3>2
  <2>9. QED
    BY <2>5, <2>7, <2>8
<1>14. CASE UNCHANGED vars
  BY <1>14 DEF vars
<1>15. QED
  BY <1>1, <1>2, <1>3, <1>4, <1>5, <1>6, <1>7, <1>8, <1>9, <1>10, <1>11,
     <1>12, <1>13, <1>14 DEF Next, CallStep

\* Every variable of wifi_initialize stays in its range, so wifi_add_membership
\* is never called for a fifth group and the polls do not go below zero.
THEOREM TypeCorrect == Spec => []TypeOK
<1>1. Ranges => TypeOK
  BY DEF Ranges
<1>2. QED
  BY <1>1, RangesInitially, RangesInductive, PTL DEF Spec
=============================================================================
