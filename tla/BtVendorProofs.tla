--------------------------- MODULE BtVendorProofs ---------------------------
(***************************************************************************)
(* Proofs about the Bluetooth vendor library, for every set of firmware    *)
(* scripts, every number of sessions and every mixture of faults.          *)
(***************************************************************************)
EXTENDS BtVendor, WellFoundedInduction, TLAPS

-----------------------------------------------------------------------------
(* The walk of hw_download_firmware over a script                          *)

\* Where the walk stops: behind the script, at a command to be sent, or at one
\* that is left out and cannot be skipped.
StopsAt(s, p) ==
    \/ p = Len(s) + 1
    \/ s[p] = "send"
    \/ s[p] \in {"baud", "sleep"} /\ ~SkipHciCommand(s, p)
Stops(s, p) == {i \in p..(Len(s) + 1) : StopsAt(s, i)}
FirstStop(s, p) ==
    CHOOSE i \in Stops(s, p) : \A j \in Stops(s, p) : i <= j

\* What the walk from p finds, without recursion.
Found(s) ==
    [p \in 1..(Len(s) + 1) |->
        LET i == FirstStop(s, p)
        IN  IF i = Len(s) + 1 \/ s[i] = "send" THEN i ELSE 0]

\* One step of the walk.
WalkStep(f, s) ==
    [p \in 1..(Len(s) + 1) |->
        IF p = Len(s) + 1 THEN p
        ELSE CASE s[p] = "send" -> p
               [] s[p] \in {"wait", "remarks"} -> f[p + 1]
               [] OTHER -> IF SkipHciCommand(s, p) THEN f[p + 1] ELSE 0]

\* A set of naturals that is not empty has a least element.
LEMMA LeastExists ==
    ASSUME NEW S \in SUBSET Nat, S # {}
    PROVE  \E x \in S : \A y \in S : x <= y
<1> DEFINE R == {ss \in Nat \X Nat : ss[1] < ss[2]}
<1>1. IsWellFoundedOn(R, Nat)
  BY NatLessThanWellFounded, Zenon DEF OpToRel
<1>2. PICK x \in S : \A y \in S : <<y, x>> \notin R
  <2> HIDE DEF R
  <2> QED
    BY <1>1, WFMin
<1>3. ASSUME NEW y \in S PROVE x <= y
  <2>1. x \in Nat /\ y \in Nat /\ <<y, x>> \in Nat \X Nat
    OBVIOUS
  <2>2. <<y, x>>[1] = y /\ <<y, x>>[2] = x
    OBVIOUS
  <2>3. ~(y < x)
    BY <1>2, <2>1, <2>2
  <2>4. QED
    BY <2>1, <2>3
<1>4. QED
  BY <1>3

\* The walk from a place in the script stops somewhere.
LEMMA FirstStopIs ==
    ASSUME NEW s \in Seq(ActionType), NEW p \in 1..(Len(s) + 1)
    PROVE  /\ FirstStop(s, p) \in p..(Len(s) + 1)
           /\ StopsAt(s, FirstStop(s, p))
           /\ \A j \in p..(Len(s) + 1) : StopsAt(s, j) => FirstStop(s, p) <= j
<1>1. Len(s) \in Nat
  OBVIOUS
<1>2. Stops(s, p) \in SUBSET Nat /\ Len(s) + 1 \in Stops(s, p)
  BY <1>1 DEF Stops, StopsAt
<1>3. \E i \in Stops(s, p) : \A j \in Stops(s, p) : i <= j
  BY <1>2, LeastExists
<1>4. /\ FirstStop(s, p) \in Stops(s, p)
      /\ \A j \in Stops(s, p) : FirstStop(s, p) <= j
  BY <1>3 DEF FirstStop
<1>5. QED
  BY <1>4 DEF Stops

\* Found goes through the script like the code does.
LEMMA FoundWalks ==
    ASSUME NEW s \in Seq(ActionType)
    PROVE  Found(s) = WalkStep(Found(s), s)
<1>1. Len(s) \in Nat /\ \A p \in 1..Len(s) : s[p] \in ActionType
  OBVIOUS
<1>2. ASSUME NEW p \in 1..(Len(s) + 1), StopsAt(s, p)
      PROVE  FirstStop(s, p) = p
  <2>1. p \in p..(Len(s) + 1)
    BY <1>1
  <2>2. QED
    BY <1>1, <1>2, <2>1, FirstStopIs
<1>3. ASSUME NEW p \in 1..Len(s), ~StopsAt(s, p)
      PROVE  FirstStop(s, p) = FirstStop(s, p + 1)
  <2>1. p + 1 \in 1..(Len(s) + 1) /\ p \in 1..(Len(s) + 1)
    BY <1>1
  <2> DEFINE i == FirstStop(s, p)
             k == FirstStop(s, p + 1)
  <2>2. /\ i \in p..(Len(s) + 1) /\ StopsAt(s, i)
        /\ \A j \in p..(Len(s) + 1) : StopsAt(s, j) => i <= j
    BY <2>1, FirstStopIs
  <2>3. /\ k \in (p + 1)..(Len(s) + 1) /\ StopsAt(s, k)
        /\ \A j \in (p + 1)..(Len(s) + 1) : StopsAt(s, j) => k <= j
    BY <2>1, FirstStopIs
  <2> HIDE DEF i, k
  <2>4. i # p
    BY <1>3, <2>2
  <2>5. i \in (p + 1)..(Len(s) + 1) /\ k \in p..(Len(s) + 1)
    BY <1>1, <2>2, <2>3, <2>4
  <2>6. i <= k /\ k <= i
    BY <2>2, <2>3, <2>5
  <2>7. i = k
    BY <1>1, <2>2, <2>3, <2>6
  <2>8. QED
    BY <2>7 DEF i, k
<1>4. ASSUME NEW p \in 1..(Len(s) + 1)
      PROVE  Found(s)[p] = WalkStep(Found(s), s)[p]
  <2> DEFINE F == Found(s)
  <2>1. F[p] = IF FirstStop(s, p) = Len(s) + 1 \/ s[FirstStop(s, p)] = "send"
               THEN FirstStop(s, p) ELSE 0
    BY DEF Found
  <2>2. CASE p = Len(s) + 1
    <3>1. F[p] = p
      BY <1>2, <2>1, <2>2 DEF StopsAt
    <3>2. QED
      BY <2>2, <3>1 DEF WalkStep
  <2>3. CASE p # Len(s) + 1 /\ s[p] = "send"
    <3>1. F[p] = p
      BY <1>2, <2>1, <2>3 DEF StopsAt
    <3>2. QED
      BY <2>3, <3>1 DEF WalkStep
  <2>4. CASE p # Len(s) + 1 /\ ~StopsAt(s, p)
    <3>1. p \in 1..Len(s) /\ p + 1 \in 1..(Len(s) + 1)
      BY <1>1, <2>4
    <3>2. F[p] = F[p + 1]
      BY <1>3, <2>4, <3>1 DEF Found
    <3>3. /\ s[p] \in ActionType /\ s[p] # "send"
          /\ s[p] \in {"baud", "sleep"} => SkipHciCommand(s, p)
      BY <1>1, <2>4, <3>1 DEF StopsAt
    <3> HIDE DEF F
    <3>4. WalkStep(F, s)[p] = F[p + 1]
      BY <2>4, <3>3 DEF WalkStep, ActionType
    <3>5. QED
      BY <3>2, <3>4 DEF F
  <2>5. CASE /\ p # Len(s) + 1
             /\ s[p] \in {"baud", "sleep"}
             /\ ~SkipHciCommand(s, p)
    <3>1. FirstStop(s, p) = p
      BY <1>2, <2>5 DEF StopsAt
    <3>2. F[p] = 0
      BY <2>1, <2>5, <3>1
    <3> HIDE DEF F
    <3>3. WalkStep(F, s)[p] = 0
      BY <2>5 DEF WalkStep
    <3>4. QED
      BY <3>2, <3>3 DEF F
  <2>6. QED
    BY <2>2, <2>3, <2>4, <2>5 DEF StopsAt
<1>5. QED
  BY <1>4 DEF Found, WalkStep

\* So the recursive definition has a meaning, and it is the walk.
LEMMA NextCommandWalks ==
    ASSUME NEW s \in Seq(ActionType)
    PROVE  NextCommand(s) = WalkStep(NextCommand(s), s)
<1>1. Found(s) = WalkStep(Found(s), s)
  BY FoundWalks
<1> DEFINE w == Found(s)
<1>2. w = WalkStep(w, s)
  BY <1>1
<1> HIDE DEF w
<1>3. QED
  BY <1>2 DEF NextCommand, WalkStep

\* hw_download_firmware finds what Found says, from every place in the script.
LEMMA NextCommandIs ==
    ASSUME NEW s \in Seq(ActionType), NEW p \in 1..(Len(s) + 1)
    PROVE  NextCommand(s)[p] = Found(s)[p]
<1> DEFINE f == NextCommand(s)
           g == Found(s)
           n == Len(s) + 1
<1>1. n \in Nat /\ Len(s) \in Nat
  OBVIOUS
<1>2. f = WalkStep(f, s) /\ g = WalkStep(g, s)
  BY FoundWalks, NextCommandWalks
<1> HIDE DEF f, g
<1>3. f[n] = g[n]
  BY <1>1, <1>2 DEF WalkStep
<1>4. ASSUME NEW q \in 1..Len(s), f[q + 1] = g[q + 1] PROVE f[q] = g[q]
  <2>1. q \in 1..n /\ q # n
    BY <1>1
  <2>2. f[q] = WalkStep(f, s)[q] /\ g[q] = WalkStep(g, s)[q]
    BY <1>2
  <2>3. WalkStep(f, s)[q] = WalkStep(g, s)[q]
    BY <1>4, <2>1 DEF WalkStep
  <2>4. QED
    BY <2>2, <2>3
<1> DEFINE Bad == {d \in Nat : d < n /\ f[n - d] # g[n - d]}
<1>5. Bad = {}
  <2>1. SUFFICES ASSUME Bad # {} PROVE FALSE
    OBVIOUS
  <2>2. PICK d \in Bad : \A e \in Bad : d <= e
    <3>1. Bad \in SUBSET Nat
      OBVIOUS
    <3> HIDE DEF Bad
    <3>2. QED
      BY <2>1, <3>1, LeastExists
  <2>3. d \in Nat /\ d < n /\ f[n - d] # g[n - d]
    OBVIOUS
  <2>4. d # 0
    BY <1>1, <1>3, <2>3
  <2>5. d - 1 \notin Bad /\ d - 1 \in Nat /\ d - 1 < n
    <3>1. d - 1 \in Nat /\ d - 1 < n /\ ~(d <= d - 1)
      BY <1>1, <2>3, <2>4
    <3> HIDE DEF Bad
    <3>2. QED
      BY <2>2, <3>1
  <2>6. f[n - (d - 1)] = g[n - (d - 1)]
    BY <2>5
  <2>7. n - d \in 1..Len(s) /\ (n - d) + 1 = n - (d - 1)
    BY <1>1, <2>3, <2>4
  <2>8. QED
    BY <1>4, <2>3, <2>6, <2>7
<1>6. n - p \in Nat /\ n - p < n /\ n - (n - p) = p
  BY <1>1
<1>7. n - p \notin Bad
  BY <1>5
<1>8. f[p] = g[p]
  BY <1>6, <1>7
<1>9. QED
  BY <1>8 DEF f, g

\* What hw_download_firmware finds: the next command to be sent, with none
\* passed over, or the end of the script, or nothing at all (0), and that only
\* in scripts that leave out a command without a wait behind it.
LEMMA NextCommandFinds ==
    ASSUME NEW s \in Seq(ActionType), NEW p \in 1..(Len(s) + 1)
    PROVE  LET q == NextCommand(s)[p] IN
           \/ q = 0 /\ ~WaitsFollow(s)
           \/ /\ q \in p..(Len(s) + 1)
              /\ q # Len(s) + 1 => s[q] = "send"
              /\ \A j \in p..(q - 1) : j \in 1..Len(s) /\ s[j] # "send"
<1> DEFINE i == FirstStop(s, p)
<1>1. Len(s) \in Nat /\ DOMAIN s = 1..Len(s)
  OBVIOUS
<1>2. /\ i \in p..(Len(s) + 1) /\ StopsAt(s, i)
      /\ \A j \in p..(Len(s) + 1) : StopsAt(s, j) => i <= j
  BY FirstStopIs
<1>3. NextCommand(s)[p] = IF i = Len(s) + 1 \/ s[i] = "send" THEN i ELSE 0
  BY NextCommandIs DEF Found
<1> HIDE DEF i
<1>4. CASE i = Len(s) + 1 \/ s[i] = "send"
  <2>1. NextCommand(s)[p] = i
    BY <1>3, <1>4
  <2>2. \A j \in p..(i - 1) :
           j \in 1..Len(s) /\ j \in p..(Len(s) + 1) /\ ~(i <= j)
    BY <1>1, <1>2
  <2>3. \A j \in p..(i - 1) : j \in 1..Len(s) /\ s[j] # "send"
    BY <1>2, <2>2 DEF StopsAt
  <2>4. QED
    BY <1>2, <1>4, <2>1, <2>3
<1>5. CASE ~(i = Len(s) + 1 \/ s[i] = "send")
  <2>1. NextCommand(s)[p] = 0
    BY <1>3, <1>5
  <2>2. s[i] \in {"baud", "sleep"} /\ ~SkipHciCommand(s, i) /\ i \in DOMAIN s
    BY <1>1, <1>2, <1>5 DEF StopsAt
  <2>3. ~WaitsFollow(s)
    BY <2>2 DEF WaitsFollow, SkipHciCommand
  <2>4. QED
    BY <2>1, <2>3
<1>6. QED
  BY <1>4, <1>5

-----------------------------------------------------------------------------
(* The inductive invariant                                                 *)

\* The positions in x are those of the commands of s before p, in order.
SentBefore(x, s, p) ==
    /\ x \in Seq(Nat)
    /\ {x[i] : i \in DOMAIN x} = {i \in Commands(s) : i < p}
    /\ \A i, j \in DOMAIN x : i < j => x[i] < x[j]

\* A command is on its way only in an open session without a report; it is one
\* of the download only with a script loaded.
OnTheWay ==
    /\ waiting => session = "open" /\ results = <<>>
    /\ state = "DOWNLOAD" /\ waiting => fw = "allocated"
    /\ state = "hung" => ~waiting
    /\ Len(results) <= 1
    /\ session = "powered" => results = <<>>

\* The controller has power and the host's speed as long as a configuration may
\* begin or go on; power-up takes the controller back to the default.  All of
\* it unless a change of speed or of power was missed.
Speeds ==
    /\ session = "powered" => (power /\ ctrlBaud = "default") \/ missed
    /\ (session = "open" /\ results = <<>> /\ (cbacks \/ waiting)) =>
          Reachable \/ missed

\* In the first session there is no buffer before the download.
Buffer ==
    /\ sessions = 0 => session = "down" /\ fw = "null"
    /\ sessions <= 1 =>
          /\ fw # "freedTwice"
          /\ session = "powered" => fw = "null"
          /\ (session = "open" /\ cbacks /\ results = <<>>) =>
                fw = "null" \/ (state = "DOWNLOAD" /\ waiting) \/ state = "hung"

\* The download sends the commands of the script in order, with none left out.
InOrder ==
    /\ state = "DOWNLOAD" /\ waiting => SentBefore(xmitted, script, pos)
    /\ (results = <<"SUCCESS">> /\ ~cut) =>
          SentBefore(xmitted, script, Len(script) + 1)

IInv ==
    /\ TypeOK /\ OnTheWay /\ Speeds /\ Buffer /\ InOrder
    /\ HangsOnlyUnwaited /\ FwBalanced

\* The reports of hw_config_cback: the first one of a session.
LEMMA FirstReport ==
    ASSUME results = <<>>, NEW r \in {"SUCCESS", "FAIL"}
    PROVE  /\ Append(results, r) \in Seq({"SUCCESS", "FAIL"})
           /\ Len(Append(results, r)) = 1
           /\ Append(results, r) # <<>>
           /\ Append(results, r) = <<"SUCCESS">> <=> r = "SUCCESS"
<1>1. Append(results, r) = <<r>>
  OBVIOUS
<1>2. Len(<<r>>) = 1 /\ <<r>>[1] = r /\ <<"SUCCESS">>[1] = "SUCCESS"
  OBVIOUS
<1>3. <<r>> \in Seq({"SUCCESS", "FAIL"}) /\ <<r>> # <<>>
  BY <1>2
<1>4. QED
  BY <1>1, <1>2, <1>3

\* Aborting a configuration keeps the invariant, whatever fw_data points at.
LEMMA AbortStep ==
    ASSUME IInv, waiting, cbacks,
           NEW b \in {fw, "null", "allocated"}, Abort(b),
           UNCHANGED stackVars,
           hostBaud' \in {"default", "target"},
           ctrlBaud' \in {"default", "target"},
           power' \in BOOLEAN, missed' \in BOOLEAN
    PROVE  IInv'
<1>1. /\ results = <<>> /\ session = "open"
      /\ fw' = Freed(b) /\ results' = Append(results, "FAIL")
      /\ state' = Idle /\ waiting' = FALSE
      /\ UNCHANGED <<script, pos, xmitted, cut, sco, cbacks, session,
                     sessions>>
  BY DEF IInv, OnTheWay, Abort, stackVars
<1>2. /\ results' \in Seq({"SUCCESS", "FAIL"}) /\ Len(results') = 1
      /\ results' # <<>> /\ results' # <<"SUCCESS">>
  BY <1>1, FirstReport
<1>3. fw' \in {"null", "freed", "freedTwice"}
  BY <1>1 DEF Freed
<1>4. sessions <= 1 => fw' # "freedTwice"
  <2>1. sessions <= 1 => fw \in {"null", "allocated"}
    BY <1>1 DEF IInv, Buffer, OnTheWay
  <2>2. QED
    BY <1>1, <2>1 DEF Freed
<1>5. TypeOK'
  BY <1>1, <1>2, <1>3 DEF IInv, TypeOK, State, Idle
<1>6. OnTheWay'
  BY <1>1, <1>2 DEF OnTheWay, Idle
<1>7. Speeds'
  BY <1>1, <1>2 DEF Speeds
<1>8. Buffer'
  BY <1>1, <1>2, <1>4 DEF IInv, Buffer
<1>9. InOrder' /\ HangsOnlyUnwaited'
  BY <1>1, <1>2 DEF InOrder, HangsOnlyUnwaited, Idle
<1>10. FwBalanced'
  <2>1. sessions \in Nat
    BY DEF IInv, TypeOK
  <2>2. sessions' = sessions
    BY <1>1
  <2>3. fw' = "freedTwice" => sessions > 1
    BY <1>4, <2>1
  <2>4. QED
    BY <1>2, <1>3, <2>2, <2>3 DEF FwBalanced
<1>11. QED
  BY <1>5, <1>6, <1>7, <1>8, <1>9, <1>10 DEF IInv

\* Sending the next command before the download keeps the invariant, if the
\* speeds agree.
LEMMA SentStep ==
    ASSUME IInv, waiting, cbacks, state \notin {"DOWNLOAD", "hung"},
           NEW st \in State \ {"DOWNLOAD", "hung"}, Sent(st),
           UNCHANGED stackVars, Reachable' \/ missed',
           hostBaud' \in {"default", "target"},
           ctrlBaud' \in {"default", "target"},
           power' \in BOOLEAN, missed' \in BOOLEAN
    PROVE  IInv'
<1>1. /\ results = <<>> /\ session = "open"
      /\ state' = st /\ waiting' = TRUE
      /\ UNCHANGED <<fw, script, pos, xmitted, cut, results, sco, cbacks,
                     session, sessions>>
  BY DEF IInv, OnTheWay, Sent, stackVars, fwVars
<1>2. TypeOK'
  BY <1>1 DEF IInv, TypeOK
<1>3. OnTheWay' /\ Speeds'
  BY <1>1 DEF IInv, OnTheWay, Speeds
<1>4. Buffer'
  BY <1>1 DEF IInv, Buffer
<1>5. InOrder' /\ HangsOnlyUnwaited'
  <2>1. results' # <<"SUCCESS">>
    BY <1>1
  <2>2. QED
    BY <1>1, <2>1 DEF InOrder, HangsOnlyUnwaited
<1>6. FwBalanced'
  BY <1>1 DEF IInv, FwBalanced
<1>7. QED
  BY <1>2, <1>3, <1>4, <1>5, <1>6 DEF IInv
\* The failures reported while the codec commands are sent.
LEMMA ScoTyping ==
    ASSUME NEW n \in Nat, NEW f \in ScoFailures(n)
    PROVE  f \in Seq({"SUCCESS", "FAIL"})
<1>1. PICK k \in IF Fault("alloc") THEN 0..n ELSE {0} :
         f = [i \in 1..k |-> "FAIL"]
  BY DEF ScoFailures
<1>2. k \in Nat
  BY <1>1
<1>3. QED
  BY <1>1, <1>2

\* One more command sent.
LEMMA SendsNext ==
    ASSUME NEW s \in Seq(ActionType), NEW p \in 1..(Len(s) + 1), NEW x,
           SentBefore(x, s, p), NEW q \in p..Len(s), s[q] = "send",
           \A j \in p..(q - 1) : s[j] # "send"
    PROVE  SentBefore(Append(x, q), s, q + 1)
<1>1. Len(s) \in Nat /\ DOMAIN s = 1..Len(s) /\ q \in Nat /\ q \in Commands(s)
  BY DEF Commands
<1>2. x \in Seq(Nat) /\ Len(x) \in Nat /\ DOMAIN x = 1..Len(x)
  BY DEF SentBefore
<1> DEFINE y == Append(x, q)
<1>3. /\ y \in Seq(Nat) /\ DOMAIN y = 1..(Len(x) + 1)
      /\ \A i \in 1..Len(x) : y[i] = x[i]
      /\ y[Len(x) + 1] = q
  BY <1>1, <1>2
<1> HIDE DEF y
<1>4. \A i \in 1..Len(x) : x[i] \in Commands(s) /\ x[i] < p /\ x[i] \in Nat
  <2>1. \A i \in DOMAIN x : x[i] \in {c \in Commands(s) : c < p}
    <3>1. {x[i] : i \in DOMAIN x} = {c \in Commands(s) : c < p}
      BY DEF SentBefore
    <3>2. \A i \in DOMAIN x : x[i] \in {x[j] : j \in DOMAIN x}
      OBVIOUS
    <3>3. QED
      BY <3>1, <3>2
  <2>2. QED
    BY <1>2, <2>1, SMTT(40)
<1>5. {y[i] : i \in DOMAIN y} = {i \in Commands(s) : i < q + 1}
  <2>1. ASSUME NEW i \in DOMAIN y PROVE y[i] \in Commands(s) /\ y[i] < q + 1
    <3>1. CASE i \in 1..Len(x)
      BY <1>1, <1>3, <1>4, <3>1, SMTT(40)
    <3>2. CASE i = Len(x) + 1
      BY <1>1, <1>3, <3>2
    <3>3. QED
      BY <1>2, <1>3, <3>1, <3>2
  <2>2. ASSUME NEW c \in Commands(s), c < q + 1
        PROVE  \E i \in DOMAIN y : y[i] = c
    <3>1. c \in 1..Len(s) /\ s[c] = "send"
      BY <1>1 DEF Commands
    <3>2. c < p \/ c = q \/ c \in p..(q - 1)
      BY <1>1, <2>2, <3>1
    <3>3. c < p \/ c = q
      BY <3>1, <3>2
    <3>4. CASE c < p
      <4>1. c \in {x[i] : i \in DOMAIN x}
        BY <3>4 DEF SentBefore
      <4>2. PICK i \in 1..Len(x) : x[i] = c
        BY <1>2, <4>1
      <4>3. i \in DOMAIN y /\ y[i] = c
        BY <1>2, <1>3, <4>2
      <4>4. QED
        BY <4>3
    <3>5. CASE c = q
      BY <1>2, <1>3, <3>5, SMTT(40)
    <3>6. QED
      BY <3>3, <3>4, <3>5
  <2>3. QED
    BY <2>1, <2>2
<1>6. ASSUME NEW i \in DOMAIN y, NEW j \in DOMAIN y, i < j PROVE y[i] < y[j]
  <2>1. i \in 1..Len(x)
    BY <1>2, <1>3, <1>6
  <2>2. CASE j \in 1..Len(x)
    BY <1>2, <1>3, <1>6, <2>1, <2>2 DEF SentBefore
  <2>3. CASE j = Len(x) + 1
    <3>1. x[i] < p /\ x[i] \in Nat /\ p <= q
      BY <1>1, <1>4, <2>1
    <3>2. y[i] = x[i] /\ y[j] = q
      BY <1>3, <2>1, <2>3
    <3>3. QED
      BY <1>1, <3>1, <3>2
  <2>4. QED
    BY <1>2, <1>3, <2>2, <2>3
<1>7. QED
  BY <1>3, <1>5, <1>6 DEF SentBefore, y

\* No command is left when the walk reaches the end.
LEMMA SentAll ==
    ASSUME NEW s \in Seq(ActionType), NEW p \in 1..(Len(s) + 1), NEW x,
           SentBefore(x, s, p), \A j \in p..Len(s) : s[j] # "send"
    PROVE  SentBefore(x, s, Len(s) + 1)
<1>1. Len(s) \in Nat /\ DOMAIN s = 1..Len(s)
  OBVIOUS
<1>2. \A c \in Commands(s) : c < p <=> c < Len(s) + 1
  BY <1>1 DEF Commands
<1>3. QED
  BY <1>2 DEF SentBefore

\* The download, from its first command to its end, keeps the invariant.
LEMMA DownloadStep ==
    ASSUME IInv, waiting, cbacks, NEW s \in Seq(ActionType),
           NEW p \in 1..(Len(s) + 1), NEW x, SentBefore(x, s, p),
           Download(s, p, x), UNCHANGED stackVars, UNCHANGED uartVars
    PROVE  IInv'
<1> DEFINE q == NextCommand(s)[p]
           n == Len(s) + 1
<1>1. /\ results = <<>> /\ session = "open" /\ n \in Nat /\ Len(s) \in Nat
      /\ 0 \notin 1..Len(s) /\ n \notin 1..Len(s) /\ n # 0
      /\ script' = s /\ pos' = IF q \in 1..Len(s) THEN q + 1 ELSE p
      /\ UNCHANGED <<cbacks, session, sessions, hostBaud, ctrlBaud, power,
                     missed>>
  BY DEF IInv, OnTheWay, Download, stackVars, uartVars
<1>2. \/ q = 0 /\ ~WaitsFollow(s)
      \/ /\ q \in p..n
         /\ q # n => s[q] = "send"
         /\ \A j \in p..(q - 1) : j \in 1..Len(s) /\ s[j] # "send"
  BY NextCommandFinds
<1>3. \/ /\ q = 0 /\ state' = "hung" /\ waiting' = FALSE /\ fw' = "allocated"
         /\ xmitted' = x /\ cut' = FALSE /\ UNCHANGED <<results, sco>>
      \/ /\ q \in 1..Len(s) /\ state' = "DOWNLOAD" /\ waiting' = TRUE
         /\ fw' = "allocated" /\ xmitted' = Append(x, q) /\ cut' = FALSE
         /\ UNCHANGED <<results, sco>>
      \/ /\ q = n \/ (q # 0 /\ Fault("xmit"))
         /\ xmitted' = x /\ cut' = (q # n) /\ DownloadEnd
  BY DEF Download
<1>4. pos' \in 1..(Len(script') + 1)
  BY <1>1
<1>5. Reachable' \/ missed'
  BY <1>1 DEF IInv, Speeds, Reachable
<1> HIDE DEF q
<1>6. CASE /\ q = 0 /\ state' = "hung" /\ waiting' = FALSE /\ fw' = "allocated"
           /\ xmitted' = x /\ cut' = FALSE /\ UNCHANGED <<results, sco>>
  <2>1. ~WaitsFollow(s)
    BY <1>1, <1>2, <1>6
  <2>2. TypeOK'
    BY <1>1, <1>4, <1>6 DEF IInv, TypeOK, State
  <2>3. OnTheWay' /\ Speeds'
    BY <1>1, <1>5, <1>6 DEF IInv, OnTheWay, Speeds
  <2>4. Buffer'
    BY <1>1, <1>6 DEF IInv, Buffer
  <2>5. InOrder'
    BY <1>1, <1>6 DEF InOrder
  <2>6. HangsOnlyUnwaited' /\ FwBalanced'
    BY <1>1, <1>6, <2>1 DEF HangsOnlyUnwaited, FwBalanced
  <2>7. QED
    BY <2>2, <2>3, <2>4, <2>5, <2>6 DEF IInv
<1>7. CASE /\ q \in 1..Len(s) /\ state' = "DOWNLOAD" /\ waiting' = TRUE
           /\ fw' = "allocated" /\ xmitted' = Append(x, q) /\ cut' = FALSE
           /\ UNCHANGED <<results, sco>>
  <2>1. /\ q \in p..Len(s) /\ s[q] = "send"
        /\ \A j \in p..(q - 1) : s[j] # "send"
    BY <1>1, <1>2, <1>7
  <2>2. SentBefore(xmitted', script', pos')
    <3>1. SentBefore(Append(x, q), s, q + 1)
      BY <2>1, SendsNext
    <3>2. pos' = q + 1
      BY <1>1, <1>7
    <3>3. QED
      BY <1>1, <1>7, <3>1, <3>2
  <2>3. TypeOK'
    BY <1>1, <1>4, <1>7 DEF IInv, TypeOK, State
  <2>4. OnTheWay' /\ Speeds'
    BY <1>1, <1>5, <1>7 DEF IInv, OnTheWay, Speeds
  <2>5. Buffer'
    BY <1>1, <1>7 DEF IInv, Buffer
  <2>6. InOrder'
    BY <1>1, <1>7, <2>2 DEF InOrder
  <2>7. HangsOnlyUnwaited' /\ FwBalanced'
    BY <1>1, <1>7 DEF HangsOnlyUnwaited, FwBalanced
  <2>8. QED
    BY <2>3, <2>4, <2>5, <2>6, <2>7 DEF IInv
<1>8. CASE /\ q = n \/ (q # 0 /\ Fault("xmit"))
           /\ xmitted' = x /\ cut' = (q # n) /\ DownloadEnd
  <2>1. /\ fw' = "freed" /\ results' = Append(results, "SUCCESS")
        /\ state' = Idle /\ waiting' = FALSE
    BY <1>8 DEF DownloadEnd, Freed
  <2>2. PICK f \in ScoFailures(2) : sco' = sco \o f
    BY <1>8 DEF DownloadEnd
  <2>3. sco' \in Seq({"SUCCESS", "FAIL"})
    <3>1. f \in Seq({"SUCCESS", "FAIL"}) /\ sco \in Seq({"SUCCESS", "FAIL"})
      BY ScoTyping DEF IInv, TypeOK
    <3>2. QED
      BY <2>2, <3>1
  <2>4. /\ results' \in Seq({"SUCCESS", "FAIL"}) /\ Len(results') = 1
        /\ results' # <<>>
    BY <1>1, <2>1, FirstReport
  <2>5. ~cut' => SentBefore(xmitted', script', Len(script') + 1)
    <3>1. ASSUME q = n PROVE SentBefore(x, s, n)
      <4>1. \A j \in p..Len(s) : s[j] # "send"
        BY <1>1, <1>2, <3>1
      <4>2. QED
        BY <4>1, SentAll
    <3>2. QED
      BY <1>1, <1>8, <3>1
  <2>6. cut' \in BOOLEAN
    BY <1>8
  <2>7. TypeOK'
    BY <1>1, <1>4, <2>1, <2>3, <2>4, <2>6 DEF IInv, TypeOK, State, Idle
  <2>8. OnTheWay' /\ Speeds'
    BY <1>1, <2>1, <2>4 DEF OnTheWay, Speeds, Idle
  <2>9. Buffer'
    BY <1>1, <2>1, <2>4 DEF IInv, Buffer
  <2>10. InOrder'
    BY <2>1, <2>5 DEF InOrder, Idle
  <2>11. HangsOnlyUnwaited' /\ FwBalanced'
    BY <2>1 DEF HangsOnlyUnwaited, FwBalanced, Idle
  <2>12. QED
    BY <2>7, <2>8, <2>9, <2>10, <2>11 DEF IInv
<1>9. QED
  BY <1>3, <1>6, <1>7, <1>8
\* A completion with status 0 keeps the invariant.
LEMMA CommandDoneStep ==
    ASSUME IInv, CommandDone
    PROVE  IInv'
<1>1. /\ waiting /\ cbacks /\ Reachable /\ UNCHANGED stackVars
      /\ ctrlBaud' = IF state = "SET_UART_BAUD" THEN "target" ELSE ctrlBaud
      /\ \/ Proceed /\ SetHostBaud
         \/ Abort(fw) /\ hostBaud' = hostBaud /\ missed' = missed
      /\ power' = power
  BY DEF CommandDone, SpeedAsked
<1>2. /\ hostBaud = ctrlBaud /\ power /\ state # "hung"
      /\ hostBaud \in {"default", "target"}
      /\ ctrlBaud \in {"default", "target"}
      /\ missed \in BOOLEAN
  BY <1>1 DEF IInv, OnTheWay, TypeOK, Reachable
<1>3. /\ hostBaud' \in {"default", "target"}
      /\ ctrlBaud' \in {"default", "target"}
      /\ power' \in BOOLEAN
      /\ missed' \in BOOLEAN
      /\ SetHostBaud => Reachable' \/ missed'
  <2>1. ASSUME SetHostBaud
        PROVE  /\ hostBaud' \in {"default", "target"}
               /\ missed' = TRUE \/ (missed' = missed /\ hostBaud' = ctrlBaud')
    BY <1>1, <1>2, <2>1 DEF SetHostBaud
  <2>2. /\ hostBaud' \in {"default", "target"}
        /\ ctrlBaud' \in {"default", "target"}
    BY <1>1, <1>2, <2>1
  <2>3. power' \in BOOLEAN /\ power'
    <3>1. power = TRUE
      BY <1>2, Zenon DEF IInv, TypeOK
    <3>2. QED
      BY <1>1, <3>1, Zenon
  <2>4. missed' \in BOOLEAN
    BY <1>1, <1>2, <2>1, Zenon
  <2>5. SetHostBaud => Reachable' \/ missed'
    <3>1. ASSUME SetHostBaud, hostBaud' = ctrlBaud' PROVE Reachable'
      BY <2>3, <3>1, Zenon DEF Reachable
    <3>2. QED
      BY <2>1, <3>1, Zenon
  <2>6. QED
    BY <2>2, <2>3, <2>4, <2>5
<1>4. ASSUME NEW b \in {fw, "null", "allocated"}, Abort(b) PROVE IInv'
  BY <1>1, <1>3, <1>4, AbortStep
<1>5. ASSUME state # "DOWNLOAD", SetHostBaud,
             NEW st \in State \ {"DOWNLOAD", "hung"}, Sent(st)
      PROVE  IInv'
  BY <1>1, <1>2, <1>3, <1>5, SentStep
<1>6. /\ "SET_UART_BAUD" \in State \ {"DOWNLOAD", "hung"}
      /\ "READ_BD_ADDR" \in State \ {"DOWNLOAD", "hung"}
      /\ "SET_BD_ADDR" \in State \ {"DOWNLOAD", "hung"}
      /\ "READ_LOCAL_VER" \in State \ {"DOWNLOAD", "hung"}
  BY DEF State
<1>7. ASSUME state # "DOWNLOAD", SetHostBaud, ReadLocalVersion PROVE IInv'
  BY <1>4, <1>5, <1>6, <1>7 DEF ReadLocalVersion
<1>8. ASSUME state # "DOWNLOAD", SetHostBaud, ReadBdAddrDone PROVE IInv'
  BY <1>5, <1>6, <1>7, <1>8 DEF ReadBdAddrDone, SetBdAddr
<1>9. ASSUME state # "DOWNLOAD", SetHostBaud, UartBaudDone PROVE IInv'
  BY <1>5, <1>6, <1>8, <1>9 DEF UartBaudDone, ReadBdAddr
<1>10. ASSUME state \in {"READ_LOCAL_VER", "DOWNLOAD"}, SetHostBaud
       PROVE  UNCHANGED uartVars
  BY <1>1, <1>10, Zenon DEF SetHostBaud, uartVars
<1>11. ASSUME state = "READ_LOCAL_VER", SetHostBaud, ReadLocalVerDone
       PROVE IInv'
  <2>1. ASSUME NEW s \in Scripts, Download(s, 1, <<>>) PROVE IInv'
    <3>1. s \in Seq(ActionType) /\ 1 \in 1..(Len(s) + 1)
      BY BtVendorAssumption DEF BtVendorAssumption
    <3>2. SentBefore(<<>>, s, 1)
      <4>1. DOMAIN s = 1..Len(s)
        BY <3>1
      <4>2. \A c \in Commands(s) : ~(c < 1)
        BY <3>1, <4>1 DEF Commands
      <4>3. QED
        BY <4>2 DEF SentBefore
    <3>3. QED
      BY <1>1, <1>10, <1>11, <2>1, <3>1, <3>2, DownloadStep
  <2>2. QED
    BY <1>4, <1>11, <2>1 DEF ReadLocalVerDone
<1>12. ASSUME state = "DOWNLOAD", SetHostBaud, Download(script, pos, xmitted)
       PROVE  IInv'
  <2>1. /\ script \in Seq(ActionType) /\ pos \in 1..(Len(script) + 1)
        /\ SentBefore(xmitted, script, pos)
    BY <1>1, <1>12 DEF IInv, TypeOK, InOrder
  <2>2. QED
    BY <1>1, <1>10, <1>12, <2>1, DownloadStep
<1>13. QED
  BY <1>1, <1>4, <1>5, <1>6, <1>7, <1>8, <1>9, <1>11, <1>12 DEF Proceed

\* A refused command, and a completion that arrives after ti_cleanup.
LEMMA OtherAnswers ==
    ASSUME IInv, CommandFailed \/ CommandOrphaned
    PROVE  IInv'
<1>1. CASE CommandFailed
  <2>1. /\ waiting /\ cbacks /\ Abort(fw)
        /\ UNCHANGED stackVars /\ UNCHANGED uartVars
    BY <1>1 DEF CommandFailed
  <2>2. /\ hostBaud' \in {"default", "target"}
        /\ ctrlBaud' \in {"default", "target"}
        /\ power' \in BOOLEAN /\ missed' \in BOOLEAN
    BY <2>1 DEF IInv, TypeOK, uartVars
  <2>3. QED
    BY <2>1, <2>2, AbortStep
<1>2. CASE CommandOrphaned
  <2>1. /\ waiting /\ ~cbacks /\ state' = Idle /\ waiting' = FALSE
        /\ ctrlBaud' \in {ctrlBaud, "target"}
        /\ UNCHANGED <<cbacks, session, sessions, hostBaud, power, missed, fw,
                       script, pos, xmitted, cut, results, sco>>
    BY <1>2 DEF CommandOrphaned, SpeedAsked, stackVars, fwVars
  <2>2. session = "open" /\ results = <<>> /\ results # <<"SUCCESS">>
    BY <2>1 DEF IInv, OnTheWay
  <2>3. TypeOK'
    BY <2>1 DEF IInv, TypeOK, State, Idle
  <2>4. OnTheWay' /\ Speeds'
    BY <2>1, <2>2 DEF IInv, OnTheWay, Speeds, Idle
  <2>5. Buffer'
    BY <2>1, <2>2 DEF IInv, Buffer
  <2>6. InOrder' /\ HangsOnlyUnwaited' /\ FwBalanced'
    BY <2>1, <2>2 DEF IInv, InOrder, HangsOnlyUnwaited, FwBalanced, Idle
  <2>7. QED
    BY <2>3, <2>4, <2>5, <2>6 DEF IInv
<1>3. QED
  BY <1>1, <1>2

\* The operations of ti_op up to the configuration keep the invariant.
LEMMA StackSteps ==
    ASSUME IInv, TiInit \/ TiCleanup \/ PowerOn \/ UserialOpen \/ UserialClose
                 \/ PowerOff \/ UNCHANGED vars
    PROVE  IInv'
<1> USE DEF uartVars, stackVars, fwVars, cfgVars
<1>1. CASE TiInit
  <2>1. /\ session = "down" /\ cbacks' = TRUE
        /\ UNCHANGED <<session, sessions, hostBaud, ctrlBaud, power, missed, fw,
                       script, pos, xmitted, cut, state, waiting, results,
                       sco>>
    BY <1>1 DEF TiInit
  <2>2. TypeOK' /\ OnTheWay'
    BY <2>1 DEF IInv, TypeOK, OnTheWay
  <2>3. Speeds' /\ Buffer'
    BY <2>1 DEF IInv, Speeds, Reachable, Buffer
  <2>4. InOrder' /\ HangsOnlyUnwaited' /\ FwBalanced'
    BY <2>1 DEF IInv, InOrder, HangsOnlyUnwaited, FwBalanced
  <2>5. QED
    BY <2>2, <2>3, <2>4 DEF IInv
<1>2. CASE TiCleanup
  <2>1. /\ cbacks /\ cbacks' = FALSE
        /\ UNCHANGED <<session, sessions, hostBaud, ctrlBaud, power, missed, fw,
                       script, pos, xmitted, cut, state, waiting, results,
                       sco>>
    BY <1>2 DEF TiCleanup
  <2>2. TypeOK' /\ OnTheWay'
    BY <2>1 DEF IInv, TypeOK, OnTheWay
  <2>3. Speeds' /\ Buffer'
    BY <2>1 DEF IInv, Speeds, Reachable, Buffer
  <2>4. InOrder' /\ HangsOnlyUnwaited' /\ FwBalanced'
    BY <2>1 DEF IInv, InOrder, HangsOnlyUnwaited, FwBalanced
  <2>5. QED
    BY <2>2, <2>3, <2>4 DEF IInv
<1>3. CASE PowerOn
  <2>1. /\ session = "down" /\ sessions < MaxSessions
        /\ sessions' = sessions + 1
        /\ session' = "powered" /\ results' = <<>>
        /\ UNCHANGED <<cbacks, hostBaud, fw, script, pos, xmitted, cut, state,
                       waiting, sco>>
    BY <1>3 DEF PowerOn
  <2>10. /\ power' \in BOOLEAN /\ missed' \in BOOLEAN
         /\ ctrlBaud' \in {"default", ctrlBaud}
         /\ (power' /\ ctrlBaud' = "default") \/ missed'
    <3>1. PICK off \in Switched, on \in Switched :
             /\ power' = (on \/ (power /\ ~off))
             /\ ctrlBaud' = IF power /\ ~off THEN ctrlBaud ELSE "default"
             /\ missed' = (~on \/ (power /\ ~off))
      BY <1>3 DEF PowerOn
    <3>2. CASE power /\ ~off
      BY <3>1, <3>2, Zenon
    <3>3. CASE ~(power /\ ~off) /\ on
      BY <3>1, <3>3, Zenon
    <3>4. CASE ~(power /\ ~off) /\ ~on
      BY <3>1, <3>4, Zenon
    <3>5. QED
      BY <3>2, <3>3, <3>4, Zenon
  <2>2. /\ sessions \in Nat /\ ~waiting /\ sessions' \in 0..MaxSessions
        /\ sessions' # 0 /\ (sessions' <= 1 => sessions = 0)
        /\ sessions' > 1 <=> sessions # 0
    BY <2>1, BtVendorAssumption DEF IInv, TypeOK, OnTheWay, BtVendorAssumption
  <2>3. results' \in Seq({"SUCCESS", "FAIL"}) /\ Len(results') = 0
        /\ results' # <<"SUCCESS">>
    BY <2>1
  <2>4. TypeOK'
    BY <2>1, <2>2, <2>3, <2>10 DEF IInv, TypeOK
  <2>5. OnTheWay' /\ Speeds'
    BY <2>1, <2>2, <2>3, <2>10 DEF IInv, OnTheWay, Speeds
  <2>6. Buffer'
    BY <2>1, <2>2 DEF IInv, Buffer
  <2>7. InOrder' /\ HangsOnlyUnwaited'
    BY <2>1, <2>3 DEF IInv, InOrder, HangsOnlyUnwaited
  <2>8. FwBalanced'
    BY <2>1, <2>2, <2>3 DEF IInv, FwBalanced, Buffer
  <2>9. QED
    BY <2>4, <2>5, <2>6, <2>7, <2>8 DEF IInv
<1>4. CASE UserialOpen
  <2>1. /\ session = "powered"
        /\ UNCHANGED <<cbacks, sessions, ctrlBaud, power, fw, script, pos,
                       xmitted, cut, state, waiting, results, sco>>
        /\ \/ session' = "open" /\ hostBaud' = "default" /\ missed' = missed
           \/ session' = "open" /\ hostBaud' = hostBaud /\ missed' = TRUE
           \/ session' = "closed" /\ hostBaud' = hostBaud /\ missed' = missed
    BY <1>4 DEF UserialOpen
  <2>2. ~waiting /\ results = <<>> /\ ((power /\ ctrlBaud = "default") \/ missed)
    BY <2>1 DEF IInv, OnTheWay, Speeds
  <2>3. TypeOK'
    <3>1. hostBaud' \in {"default", "target"} /\ session' \in {"open", "closed"}
      BY <2>1 DEF IInv, TypeOK
    <3>2. missed' \in BOOLEAN
      BY <2>1, Zenon DEF IInv, TypeOK
    <3>3. QED
      BY <2>1, <3>1, <3>2 DEF IInv, TypeOK
  <2>4. OnTheWay'
    BY <2>1, <2>2 DEF IInv, OnTheWay
  <2>5. Speeds'
    <3>1. session' # "powered"
      BY <2>1
    <3>2. ASSUME session' = "open" PROVE Reachable' \/ missed'
      BY <2>1, <2>2, <3>2 DEF Reachable
    <3>3. QED
      BY <3>1, <3>2 DEF Speeds
  <2>6. Buffer'
    BY <2>1 DEF IInv, Buffer
  <2>7. InOrder' /\ HangsOnlyUnwaited' /\ FwBalanced'
    BY <2>1 DEF IInv, InOrder, HangsOnlyUnwaited, FwBalanced
  <2>8. QED
    BY <2>3, <2>4, <2>5, <2>6, <2>7 DEF IInv
<1>5. CASE UserialClose \/ PowerOff
  <2>1. /\ session \in {"open", "closed"} /\ session' \in {"closed", "down"}
        /\ session = "open" => session' = "closed" /\ waiting' = FALSE
        /\ session = "closed" => waiting' = waiting
        /\ sco' \in {sco, <<>>}
        /\ ctrlBaud' \in {ctrlBaud, "default", "target"}
        /\ UNCHANGED <<cbacks, sessions, hostBaud, missed, fw, script, pos,
                       xmitted, cut, state, results>>
    BY <1>5 DEF UserialClose, PowerOff, SpeedAsked
  <2>2. power' \in BOOLEAN
    <3>1. CASE UserialClose
      BY <3>1, Zenon DEF UserialClose, IInv, TypeOK
    <3>2. CASE PowerOff
      <4>1. PICK off \in Switched : power' = (power /\ ~off)
        BY <3>2 DEF PowerOff
      <4>2. QED
        BY <4>1, Zenon
    <3>3. QED
      BY <1>5, <3>1, <3>2
  <2>3. waiting' = FALSE
    BY <2>1 DEF IInv, OnTheWay, TypeOK
  <2>4. sco' \in Seq({"SUCCESS", "FAIL"})
    <3>1. sco \in Seq({"SUCCESS", "FAIL"})
      BY DEF IInv, TypeOK
    <3>2. <<>> \in Seq({"SUCCESS", "FAIL"})
      OBVIOUS
    <3>3. QED
      BY <2>1, <3>1, <3>2, Zenon
  <2>5. TypeOK'
    BY <2>1, <2>2, <2>3, <2>4 DEF IInv, TypeOK
  <2>6. OnTheWay'
    BY <2>1, <2>3 DEF IInv, OnTheWay
  <2>7. Speeds' /\ Buffer'
    BY <2>1, <2>3 DEF IInv, Speeds, Buffer
  <2>8. InOrder' /\ HangsOnlyUnwaited' /\ FwBalanced'
    BY <2>1, <2>3 DEF IInv, InOrder, HangsOnlyUnwaited, FwBalanced
  <2>9. QED
    BY <2>5, <2>6, <2>7, <2>8 DEF IInv
<1>6. CASE UNCHANGED vars
  BY <1>6 DEF vars, IInv, TypeOK, OnTheWay, Speeds, Reachable, Buffer, InOrder,
              HangsOnlyUnwaited, FwBalanced
<1>7. QED
  BY <1>1, <1>2, <1>3, <1>4, <1>5, <1>6
\* hw_config_start and hw_configure_sco keep the invariant.
LEMMA ConfigSteps ==
    ASSUME IInv, HwConfigStart \/ HwConfigureSco
    PROVE  IInv'
<1> USE DEF uartVars, stackVars, fwVars, cfgVars
<1>1. CASE HwConfigStart
  <2>1. /\ session = "open" /\ cbacks /\ ~waiting /\ results = <<>>
        /\ state # "hung"
        /\ \/ /\ state' = "START" /\ waiting' \in BOOLEAN /\ results' = results
           \/ /\ state' = Idle /\ results' = Append(results, "FAIL")
              /\ waiting' = waiting
        /\ UNCHANGED <<cbacks, session, sessions, hostBaud, ctrlBaud, power,
                       missed, fw, script, pos, xmitted, cut, sco>>
    BY <1>1 DEF HwConfigStart
  <2>2. /\ Reachable' \/ missed'
        /\ sessions <= 1 => fw = "null"
    BY <2>1 DEF IInv, Speeds, Reachable, Buffer
  <2>3. /\ results' \in Seq({"SUCCESS", "FAIL"}) /\ Len(results') <= 1
        /\ results' # <<"SUCCESS">>
        /\ results' # <<>> => ~waiting'
    <3>1. CASE results' = results
      <4>1. results' = <<>> /\ results' \in Seq({"SUCCESS", "FAIL"})
        BY <2>1, <3>1 DEF IInv, TypeOK
      <4>2. QED
        BY <4>1
    <3>2. CASE results' = Append(results, "FAIL") /\ waiting' = waiting
      BY <2>1, <3>2, FirstReport
    <3>3. QED
      BY <2>1, <3>1, <3>2
  <2>4. waiting' \in BOOLEAN /\ state' \in {"START", Idle}
    <3>1. waiting \in BOOLEAN
      BY DEF IInv, TypeOK
    <3>2. CASE state' = "START" /\ waiting' \in BOOLEAN
      BY <3>2, Zenon
    <3>3. CASE state' = Idle /\ waiting' = waiting
      BY <3>1, <3>3, Zenon
    <3>4. QED
      BY <2>1, <3>2, <3>3, Zenon
  <2>5. TypeOK'
    BY <2>1, <2>3, <2>4 DEF IInv, TypeOK, State, Idle
  <2>6. OnTheWay' /\ Speeds'
    BY <2>1, <2>2, <2>3, <2>4 DEF IInv, OnTheWay, Speeds, Idle
  <2>7. Buffer'
    BY <2>1, <2>2 DEF IInv, Buffer
  <2>8. InOrder' /\ HangsOnlyUnwaited'
    BY <2>1, <2>3, <2>4 DEF InOrder, HangsOnlyUnwaited, Idle
  <2>9. FwBalanced'
    BY <2>1, <2>2, <2>3 DEF IInv, FwBalanced
  <2>10. QED
    BY <2>5, <2>6, <2>7, <2>8, <2>9 DEF IInv
<1>2. CASE HwConfigureSco
  <2>1. PICK f \in ScoFailures(3) : sco' = f \o <<"SUCCESS">>
    BY <1>2 DEF HwConfigureSco
  <2>2. sco' \in Seq({"SUCCESS", "FAIL"})
    <3>1. f \in Seq({"SUCCESS", "FAIL"})
      BY ScoTyping
    <3>2. <<"SUCCESS">> \in Seq({"SUCCESS", "FAIL"})
      OBVIOUS
    <3>3. QED
      BY <2>1, <3>1, <3>2
  <2>3. UNCHANGED <<cbacks, session, sessions, hostBaud, ctrlBaud, power,
                    missed, fw, script, pos, xmitted, cut, state, waiting,
                    results>>
    BY <1>2 DEF HwConfigureSco
  <2>4. TypeOK'
    BY <2>2, <2>3 DEF IInv, TypeOK
  <2>5. OnTheWay' /\ Speeds' /\ Buffer'
    BY <2>3 DEF IInv, OnTheWay, Speeds, Reachable, Buffer
  <2>6. InOrder' /\ HangsOnlyUnwaited' /\ FwBalanced'
    BY <2>3 DEF IInv, InOrder, HangsOnlyUnwaited, FwBalanced
  <2>7. QED
    BY <2>4, <2>5, <2>6 DEF IInv
<1>3. QED
  BY <1>1, <1>2

\* The state before the first ti_op satisfies the invariant.
LEMMA Initially ==
    ASSUME Init
    PROVE  IInv
<1>1. TypeOK
  <2>1. /\ cbacks \in BOOLEAN /\ waiting \in BOOLEAN /\ cut \in BOOLEAN
        /\ power \in BOOLEAN /\ missed \in BOOLEAN
    BY Zenon DEF Init
  <2>2. sessions \in 0..MaxSessions
    BY BtVendorAssumption DEF Init, BtVendorAssumption
  <2>3. QED
    BY <2>1, <2>2 DEF Init, TypeOK, State, Idle
<1>2. OnTheWay /\ Speeds /\ Buffer
  BY DEF Init, OnTheWay, Speeds, Buffer, Idle
<1>3. InOrder /\ HangsOnlyUnwaited /\ FwBalanced
  BY DEF Init, InOrder, HangsOnlyUnwaited, FwBalanced, Idle
<1>4. QED
  BY <1>1, <1>2, <1>3 DEF IInv

-----------------------------------------------------------------------------
(* The theorems                                                            *)

\* The invariant of the vendor library, under every fault.
THEOREM Invariant == Spec => []IInv
<1>1. Init => IInv
  BY Initially
<1>2. IInv /\ [Next]_vars => IInv'
  BY CommandDoneStep, OtherAnswers, StackSteps, ConfigSteps
     DEF Next, Controller
<1>3. QED
  BY <1>1, <1>2, PTL DEF Spec

\* The variables keep their types.
THEOREM TypeCorrect == Spec => []TypeOK
<1>1. IInv => TypeOK
  BY DEF IInv
<1>2. QED
  BY <1>1, Invariant, PTL

\* Whenever an answer is awaited it can arrive: the controller has power and
\* both ends of the UART run at the same speed.  This holds in every session,
\* however the ones before it ended, unless a change of speed or of power has
\* failed since the controller's last reset.
THEOREM SpeedsAgree == Spec => []BaudAgree
<1>1. IInv => BaudAgree
  BY DEF IInv, OnTheWay, Speeds, BaudAgree
<1>2. QED
  BY <1>1, Invariant, PTL

\* hw_config_cback reports a configuration at most once, and not before the
\* last answer.
THEOREM ReportsOnce == Spec => []OneResult
<1>1. IInv => OneResult
  BY DEF IInv, OnTheWay, OneResult
<1>2. QED
  BY <1>1, Invariant, PTL

\* Success is reported only when the whole script has been sent in order, for
\* every script, unless a failed transmission cut the download short.
THEOREM SuccessIsDownloaded == Spec => []SuccessMeansDownloaded
<1>1. IInv => SuccessMeansDownloaded
  <2> SUFFICES ASSUME IInv, results = <<"SUCCESS">>, ~cut
               PROVE  /\ {xmitted[i] : i \in DOMAIN xmitted} = Commands(script)
                      /\ \A i, j \in DOMAIN xmitted :
                            i < j => xmitted[i] < xmitted[j]
    BY DEF SuccessMeansDownloaded
  <2>1. SentBefore(xmitted, script, Len(script) + 1)
    BY DEF IInv, InOrder
  <2>2. script \in Seq(ActionType) /\ DOMAIN script = 1..Len(script)
    BY DEF IInv, TypeOK
  <2>3. \A c \in Commands(script) : c < Len(script) + 1
    BY <2>2 DEF Commands
  <2>4. QED
    BY <2>1, <2>3 DEF SentBefore
<1>2. QED
  BY <1>1, Invariant, PTL

\* The download loop hangs only on a script that leaves out a command without
\* a wait behind it.
THEOREM HangsOnlyThere == Spec => []HangsOnlyUnwaited
<1>1. IInv => HangsOnlyUnwaited
  BY DEF IInv
<1>2. QED
  BY <1>1, Invariant, PTL

\* The first configuration has freed its buffer when it reports; a buffer is
\* freed twice only by a later configuration that does not succeed.
THEOREM BufferIsBalanced == Spec => []FwBalanced
<1>1. IInv => FwBalanced
  BY DEF IInv
<1>2. QED
  BY <1>1, Invariant, PTL
=============================================================================
