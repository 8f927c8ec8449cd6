---------------------------- MODULE WifiHalProofs ---------------------------
(***************************************************************************)
(* Proofs about the handler and command tables, for every set of command   *)
(* objects, request ids and client calls, every table size and queue, with *)
(* hang-ups and a lost "Done".  The client is a careful one (Misuse = {}): *)
(* the observations of the README say what a careless one meets.           *)
(*                                                                         *)
(* The argument: the programs of every class fit (a start() undoes what it *)
(* registered, a cancel() unregisters what start() registers); TInv, the   *)
(* inductive invariant, ties what is left of the client's call (todo) to   *)
(* the two tables; each action keeps it.  What TInv needs of the loop comes*)
(* from the proof of EventLoop through the refinement.  SInv, on top of it,*)
(* follows a command's handlers from its start() to its cancel().          *)
(***************************************************************************)
EXTENDS WifiHal, FiniteSetTheorems, WellFoundedInduction, TLAPS
-----------------------------------------------------------------------------
(* The programs of the command classes                                     *)

Op == {"try", "ask", "register", "unregister", "unregisterCmd", "release",
       "cleanupRelease"}
KeyName == {"", "FULL_SCAN", "SCAN_AVAILABLE", "SCAN_COMPLETE",
            "HOTLIST_FOUND", "HOTLIST_LOST", "EPNO", "SIG_CHANGE", "ANQPO",
            "RSSI", "RTT", "RING", "MEM_DUMP"}
UndoProgram ==
    {<<>>, Unregister(<<"FULL_SCAN">>), Unregister(ScanKeys),
     Unregister(HotlistKeys), Unregister(<<"EPNO">>),
     Unregister(<<"SIG_CHANGE">>), Unregister(<<"ANQPO">>)}
Instruction == [op : Op, key : KeyName, undo : UndoProgram]

\* Program p unregisters the handler of key k.
Undoes(p, k) ==
    \E j \in 1..Len(p) : p[j].op = "unregister" /\ p[j].key = k

\* ... and does nothing but unregister.
OnlyUndoes(p) == \A j \in 1..Len(p) : p[j].op = "unregister"

\* Program p unregisters handlers of keys in K alone.
Within(p, K) ==
    \A j \in 1..Len(p) : p[j].op = "unregister" => p[j].key \in K

\* Program p registers a handler for every key of K.
Registers(p, K) ==
    \A k \in K : \E i \in 1..Len(p) : p[i].op = "register" /\ p[i].key = k

\* A list of keys has all of K.
Covers(keys, K) == \A k \in K : \E i \in 1..Len(keys) : keys[i] = k

\* A start() that may be refused at any of its requests: it registers the keys
\* of K once each, and a refused request takes back all that was registered
\* and nothing of anyone else.
StartOK(p, K) ==
    /\ p \in Seq(Instruction)
    /\ Len(p) > 0
    /\ \A i \in 1..Len(p) : p[i].op = "register" => p[i].key \in K
    /\ Registers(p, K)
    /\ \A i \in 1..Len(p) : p[i].op \in {"try", "register"}
    /\ \A i \in 1..Len(p) : p[i].op = "try" =>
          /\ OnlyUndoes(p[i].undo) /\ Within(p[i].undo, K)
          /\ \A j \in 1..(i - 1) :
                p[j].op = "register" => Undoes(p[i].undo, p[j].key)
    /\ \A i, j \in 1..Len(p) :
          /\ p[i].op = "register"
          /\ p[j].op = "register"
          /\ p[i].key = p[j].key
          => i = j

\* A cancel() that unregisters the keys of K, every one and no other.
CancelOK(q, K) ==
    /\ q \in Seq(Instruction)
    /\ \A i \in 1..Len(q) : q[i].op \in {"ask", "unregister", "unregisterCmd"}
    /\ \A k \in K : Undoes(q, k)
    /\ Within(q, K)

\* The parts of an instruction of start() or cancel().
LEMMA InstrFields ==
    ASSUME NEW o, NEW k, NEW u
    PROVE  /\ Instr(o, k, u).op = o
           /\ Instr(o, k, u).key = k
           /\ Instr(o, k, u).undo = u
  BY DEF Instr

\* An instruction has the type of its parts.
LEMMA InstrTyping ==
    ASSUME NEW o \in Op, NEW k \in KeyName, NEW u \in UndoProgram
    PROVE  Instr(o, k, u) \in Instruction
  BY DEF Instruction, Instr

\* The instructions that the programs are made of are known ones.
LEMMA OpTyping ==
    /\ "try" \in Op /\ "ask" \in Op /\ "register" \in Op /\ "unregister" \in Op
    /\ "unregisterCmd" \in Op /\ "release" \in Op /\ "cleanupRelease" \in Op
    /\ "" \in KeyName /\ <<>> \in UndoProgram
  BY Zenon DEF Op, KeyName, UndoProgram

\* The instructions without a handler are instructions.
LEMMA SingleTyping ==
    /\ Ask \in Instruction /\ UnregisterCmd \in Instruction
    /\ Release \in Instruction /\ CleanupRelease \in Instruction
    /\ \A u \in UndoProgram : Try(u) \in Instruction
  BY InstrTyping, OpTyping DEF Ask, UnregisterCmd, Release, CleanupRelease, Try

\* What the instructions without a handler do.
LEMMA SingleFields ==
    /\ Ask.op = "ask" /\ UnregisterCmd.op = "unregisterCmd"
    /\ Release.op = "release" /\ CleanupRelease.op = "cleanupRelease"
    /\ \A u \in UndoProgram : Try(u).op = "try" /\ Try(u).undo = u
  BY DEF Instr, Ask, UnregisterCmd, Release, CleanupRelease, Try

\* A program of one instruction.
LEMMA Single ==
    ASSUME NEW S, NEW x \in S
    PROVE  <<x>> \in Seq(S) /\ Len(<<x>>) = 1 /\ <<x>>[1] = x
  OBVIOUS

\* One program after another.
LEMMA Concat ==
    ASSUME NEW S, NEW s \in Seq(S), NEW t \in Seq(S)
    PROVE  /\ s \o t \in Seq(S)
           /\ Len(s \o t) = Len(s) + Len(t)
           /\ \A i \in 1..Len(s) : (s \o t)[i] = s[i]
           /\ \A i \in 1..Len(t) : (s \o t)[Len(s) + i] = t[i]
           /\ \A i \in 1..Len(s \o t) :
                 (s \o t)[i] = IF i <= Len(s) THEN s[i] ELSE t[i - Len(s)]
  OBVIOUS

\* Register(keys), the calls of registerVendorHandler, one per key.
LEMMA RegisterIs ==
    ASSUME NEW keys \in Seq(KeyName)
    PROVE  /\ Register(keys) \in Seq(Instruction)
           /\ Len(Register(keys)) = Len(keys)
           /\ \A i \in 1..Len(keys) :
                 /\ Register(keys)[i].op = "register"
                 /\ Register(keys)[i].key = keys[i]
<1>1. \A i \in 1..Len(keys) : Instr("register", keys[i], <<>>) \in Instruction
  <2>1. \A i \in 1..Len(keys) : keys[i] \in KeyName
    OBVIOUS
  <2>2. QED
    BY <2>1, OpTyping, InstrTyping, Zenon
<1>2. DOMAIN keys = 1..Len(keys) /\ Len(keys) \in Nat
  OBVIOUS
<1>3. QED
  BY <1>1, <1>2, InstrFields DEF Register

\* Unregister(keys), the calls of unregisterVendorHandler, one per key.
LEMMA UnregisterIs ==
    ASSUME NEW keys \in Seq(KeyName)
    PROVE  /\ Unregister(keys) \in Seq(Instruction)
           /\ Len(Unregister(keys)) = Len(keys)
           /\ \A i \in 1..Len(keys) :
                 /\ Unregister(keys)[i].op = "unregister"
                 /\ Unregister(keys)[i].key = keys[i]
<1>1. \A i \in 1..Len(keys) : Instr("unregister", keys[i],
        <<>>) \in Instruction
  <2>1. \A i \in 1..Len(keys) : keys[i] \in KeyName
    OBVIOUS
  <2>2. QED
    BY <2>1, OpTyping, InstrTyping, Zenon
<1>2. DOMAIN keys = 1..Len(keys) /\ Len(keys) \in Nat
  OBVIOUS
<1>3. QED
  BY <1>1, <1>2, InstrFields DEF Unregister

\* A start() that registers its handlers after its requests undoes enough.
LEMMA StartRegisters ==
    ASSUME NEW K,
           NEW a \in Seq(Instruction), NEW r \in Seq(Instruction), Len(r) > 0,
           \A i \in 1..Len(a) : /\ a[i].op = "try" /\ OnlyUndoes(a[i].undo)
                                /\ Within(a[i].undo, K),
           \A i \in 1..Len(r) : r[i].op = "register" /\ r[i].key \in K,
           Registers(r, K),
           \A i, j \in 1..Len(r) : r[i].key = r[j].key => i = j
    PROVE  StartOK(a \o r, K)
<1> DEFINE p == a \o r
<1>1. Len(a) \in Nat /\ Len(r) \in Nat
  OBVIOUS
<1>2. /\ p \in Seq(Instruction)
      /\ Len(p) = Len(a) + Len(r)
      /\ \A i \in 1..Len(p) :
           p[i] = IF i <= Len(a) THEN a[i] ELSE r[i - Len(a)]
  BY Concat
<1> HIDE DEF p
<1>3. \A i \in 1..Len(p) :
          i <= Len(a) => /\ p[i].op = "try" /\ OnlyUndoes(p[i].undo)
                         /\ Within(p[i].undo, K)
  BY <1>1, <1>2
<1>4. ASSUME NEW i \in 1..Len(p), ~(i <= Len(a))
      PROVE  /\ i - Len(a) \in 1..Len(r)
             /\ p[i] = r[i - Len(a)]
             /\ p[i].op = "register" /\ p[i].key \in K
  <2>1. i - Len(a) \in 1..Len(r)
    BY <1>1, <1>2, <1>4
  <2>2. p[i] = r[i - Len(a)]
    BY <1>2, <1>4
  <2>3. QED
    BY <2>1, <2>2
<1>5. \A i, j \in 1..Len(p) :
          p[i].op = "register" /\ p[j].op = "register" /\ p[i].key = p[j].key
          => i = j
  <2> SUFFICES ASSUME NEW i \in 1..Len(p), NEW j \in 1..Len(p),
                      p[i].op = "register", p[j].op = "register",
                      p[i].key = p[j].key
               PROVE  i = j
    OBVIOUS
  <2>1. ~(i <= Len(a)) /\ ~(j <= Len(a))
    BY <1>3
  <2>2. /\ i - Len(a) \in 1..Len(r) /\ p[i] = r[i - Len(a)]
        /\ j - Len(a) \in 1..Len(r) /\ p[j] = r[j - Len(a)]
    BY <1>4, <2>1, Zenon
  <2>3. \A m, n \in 1..Len(r) : r[m].key = r[n].key => m = n
    OBVIOUS
  <2>4. r[i - Len(a)].key = r[j - Len(a)].key
    BY <2>2
  <2>5. i - Len(a) = j - Len(a)
    BY <2>2, <2>3, <2>4, Zenon
  <2>6. QED
    BY <1>1, <1>2, <2>5
<1>6. ASSUME NEW i \in 1..Len(p), p[i].op = "try"
      PROVE  \A j \in 1..(i - 1) : p[j].op # "register"
  <2>1. i <= Len(a)
    BY <1>4, <1>6
  <2>2. QED
    BY <1>1, <1>2, <1>3, <2>1
<1>7. /\ Len(p) > 0
      /\ \A i \in 1..Len(p) : p[i].op = "register" => p[i].key \in K
      /\ \A i \in 1..Len(p) : p[i].op \in {"try", "register"}
  BY <1>1, <1>2, <1>3, <1>4
<1>8. \A i \in 1..Len(p) : p[i].op = "try" =>
          /\ OnlyUndoes(p[i].undo) /\ Within(p[i].undo, K)
          /\ \A j \in 1..(i - 1) :
                p[j].op = "register" => Undoes(p[i].undo, p[j].key)
  BY <1>3, <1>4, <1>6
<1>9. Registers(p, K)
  <2> SUFFICES ASSUME NEW k \in K
               PROVE  \E i \in 1..Len(p) : p[i].op = "register" /\ p[i].key = k
    BY DEF Registers
  <2>1. PICK i \in 1..Len(r) : r[i].key = k
    BY DEF Registers
  <2>2. /\ Len(a) + i \in 1..Len(p) /\ ~(Len(a) + i <= Len(a))
        /\ (Len(a) + i) - Len(a) = i
    BY <1>1, <1>2
  <2>3. p[Len(a) + i].op = "register" /\ p[Len(a) + i].key = k
    BY <1>4, <2>1, <2>2
  <2>4. QED
    BY <2>2, <2>3
<1>10. StartOK(p, K)
  BY <1>2, <1>5, <1>7, <1>8, <1>9 DEF StartOK
<1>11. QED
  BY <1>10 DEF p

\* A last request whose failure takes every handler back keeps that so.
LEMMA StartThenTry ==
    ASSUME NEW K, NEW p, StartOK(p, K),
           NEW u \in UndoProgram, OnlyUndoes(u), Within(u, K),
           \A k \in K : Undoes(u, k)
    PROVE  StartOK(p \o <<Try(u)>>, K)
<1> DEFINE t == Try(u)
           q == p \o <<t>>
<1>1. t \in Instruction /\ t.op = "try" /\ t.undo = u
  BY SingleTyping, SingleFields
<1> HIDE DEF t
<1>2. p \in Seq(Instruction)
  BY DEF StartOK
<1>3. /\ q \in Seq(Instruction) /\ Len(q) = Len(p) + 1
      /\ \A i \in 1..Len(p) : q[i] = p[i]
      /\ q[Len(p) + 1] = t
  BY <1>1, <1>2
<1> HIDE DEF q
<1>4. Len(p) \in Nat
  BY <1>2
<1>5. \A i \in 1..Len(q) : i \in 1..Len(p) \/ (i = Len(p) + 1 /\ q[i] = t)
  BY <1>3, <1>4
<1>6. /\ \A i \in 1..Len(q) : q[i].op \in {"try", "register"}
      /\ \A i \in 1..Len(q) : q[i].op = "register" => q[i].key \in K
  BY <1>1, <1>3, <1>5 DEF StartOK
<1>7. ASSUME NEW i \in 1..Len(q), q[i].op = "try"
      PROVE  /\ OnlyUndoes(q[i].undo) /\ Within(q[i].undo, K)
             /\ \A j \in 1..(i - 1) :
                   q[j].op = "register" => Undoes(q[i].undo, q[j].key)
  <2>1. CASE i \in 1..Len(p)
    <3>1. \A j \in 1..(i - 1) : j \in 1..Len(p)
      BY <2>1, <1>4
    <3>2. p[i] = q[i] /\ \A j \in 1..(i - 1) : p[j] = q[j]
      BY <2>1, <3>1, <1>3
    <3>3. /\ OnlyUndoes(p[i].undo) /\ Within(p[i].undo, K)
          /\ \A j \in 1..(i - 1) :
                p[j].op = "register" => Undoes(p[i].undo, p[j].key)
      BY <2>1, <3>2, <1>7 DEF StartOK
    <3>4. QED
      BY <3>2, <3>3, Zenon
  <2>2. CASE i = Len(p) + 1
    <3>1. \A j \in 1..(i - 1) : j \in 1..Len(p)
      BY <2>2, <1>4
    <3>2. QED
      BY <2>2, <3>1, <1>1, <1>3 DEF StartOK
  <2>3. QED
    BY <2>1, <2>2, <1>5
<1>8. \A i, j \in 1..Len(q) :
          q[i].op = "register" /\ q[j].op = "register" /\ q[i].key = q[j].key
          => i = j
  BY <1>1, <1>3, <1>5 DEF StartOK
<1>9. Registers(q, K)
  <2>1. \A i \in 1..Len(p) : i \in 1..Len(q) /\ q[i] = p[i]
    BY <1>3, <1>4
  <2>2. QED
    BY <2>1 DEF StartOK, Registers
<1>10. QED
  BY <1>3, <1>4, <1>6, <1>7, <1>8, <1>9 DEF StartOK, q, t

\* Requests before the first handler is registered.
TriesOnly(a, K) ==
    /\ a \in Seq(Instruction)
    /\ \A i \in 1..Len(a) : /\ a[i].op = "try" /\ OnlyUndoes(a[i].undo)
                            /\ Within(a[i].undo, K)

\* A start() that fails before it registered anything has nothing to undo.
LEMMA NothingToUndo == OnlyUndoes(<<>>) /\ \A K : Within(<<>>, K)
  BY DEF OnlyUndoes, Within

\* One to three requests at the beginning of a start().
LEMMA TryPrograms ==
    ASSUME NEW u \in UndoProgram, NEW K, OnlyUndoes(u), Within(u, K)
    PROVE  /\ TriesOnly(<<Try(u)>>, K)
           /\ TriesOnly(<<Try(<<>>), Try(u)>>, K)
           /\ TriesOnly(<<Try(<<>>), Try(u), Try(<<>>)>>, K)
<1>1. /\ Try(u) \in Instruction /\ Try(u).op = "try" /\ Try(u).undo = u
      /\ Try(<<>>) \in Instruction /\ Try(<<>>).op = "try" /\
           Try(<<>>).undo = <<>>
  BY SingleTyping, SingleFields, OpTyping, Zenon
<1>2. QED
  BY <1>1, NothingToUndo DEF TriesOnly

\* Unregistering a list of keys undoes the registration of each.
LEMMA UnregisterUndoes ==
    ASSUME NEW keys \in Seq(KeyName), NEW K,
           Covers(keys, K), \A i \in 1..Len(keys) : keys[i] \in K
    PROVE  /\ OnlyUndoes(Unregister(keys))
           /\ Within(Unregister(keys), K)
           /\ \A k \in K : Undoes(Unregister(keys), k)
           /\ CancelOK(Unregister(keys), K)
  BY UnregisterIs DEF OnlyUndoes, Within, Undoes,
       CancelOK, Covers

\* A request before or after the unregistering does not change what cancel()
\* undoes, and neither does wifi_unregister_cmd.
LEMMA CancelWith ==
    ASSUME NEW x \in Instruction, x.op \in {"ask", "unregisterCmd"},
           NEW q, NEW K, CancelOK(q, K)
    PROVE  CancelOK(<<x>> \o q, K) /\ CancelOK(q \o <<x>>, K)
<1>1. q \in Seq(Instruction) /\ <<x>> \in Seq(Instruction) /\ Len(<<x>>) = 1
      /\ <<x>>[1] = x /\ Len(q) \in Nat
  BY DEF CancelOK
<1>2. CancelOK(<<x>> \o q, K)
  <2> DEFINE r == <<x>> \o q
  <2>1. /\ r \in Seq(Instruction) /\ Len(r) = Len(q) + 1
        /\ \A i \in 1..Len(q) : r[i + 1] = q[i]
        /\ \A i \in 1..Len(r) : r[i] = IF i = 1 THEN x ELSE q[i - 1]
    BY <1>1
  <2> HIDE DEF r
  <2>2. \A i \in 1..Len(r) : i = 1 \/ i - 1 \in 1..Len(q)
    BY <1>1, <2>1
  <2>3. \A i \in 1..Len(r) : r[i].op \in {"ask", "unregister", "unregisterCmd"}
    BY <2>1, <2>2 DEF CancelOK
  <2>4. ASSUME NEW k \in K PROVE Undoes(r, k)
    <3>1. PICK i \in 1..Len(q) : q[i].op = "unregister" /\ q[i].key = k
      BY DEF CancelOK, Undoes
    <3>2. i + 1 \in 1..Len(r) /\ r[i + 1] = q[i]
      BY <1>1, <2>1
    <3>3. QED
      BY <3>1, <3>2 DEF Undoes
  <2>5. CancelOK(r, K)
    <3>1. Within(r, K)
      BY <2>1, <2>2 DEF CancelOK, Within
    <3>2. QED
      BY <2>1, <2>3, <2>4, <3>1 DEF CancelOK
  <2>6. QED
    BY <2>5 DEF r
<1>3. CancelOK(q \o <<x>>, K)
  <2> DEFINE r == q \o <<x>>
  <2>1. /\ r \in Seq(Instruction) /\ Len(r) = Len(q) + 1
        /\ \A i \in 1..Len(q) : r[i] = q[i]
        /\ r[Len(q) + 1] = x
    BY <1>1
  <2> HIDE DEF r
  <2>2. \A i \in 1..Len(r) : i \in 1..Len(q) \/ i = Len(q) + 1
    BY <1>1, <2>1
  <2>3. \A i \in 1..Len(r) : r[i].op \in {"ask", "unregister", "unregisterCmd"}
    BY <2>1, <2>2 DEF CancelOK
  <2>4. ASSUME NEW k \in K PROVE Undoes(r, k)
    <3>1. PICK i \in 1..Len(q) : q[i].op = "unregister" /\ q[i].key = k
      BY DEF CancelOK, Undoes
    <3>2. i \in 1..Len(r) /\ r[i] = q[i]
      BY <1>1, <2>1
    <3>3. QED
      BY <3>1, <3>2 DEF Undoes
  <2>5. CancelOK(r, K)
    <3>1. Within(r, K)
      BY <2>1, <2>2 DEF CancelOK, Within
    <3>2. QED
      BY <2>1, <2>3, <2>4, <3>1 DEF CancelOK
  <2>6. QED
    BY <2>5 DEF r
<1>4. QED
  BY <1>2, <1>3

\* A start() of requests, handlers and a last request that undoes them.
LEMMA HandlerPrograms ==
    ASSUME NEW K, NEW a, TriesOnly(a, K),
           NEW keys \in Seq(KeyName), Len(keys) > 0,
           \A i \in 1..Len(keys) : keys[i] \in K,
           Covers(keys, K),
           \A i, j \in 1..Len(keys) : keys[i] = keys[j] => i = j,
           NEW undo \in Seq(KeyName),
           \A i \in 1..Len(undo) : undo[i] \in K,
           Covers(undo, K)
    PROVE  /\ StartOK(Register(keys), K)
           /\ StartOK(a \o Register(keys), K)
           /\ Unregister(undo) \in UndoProgram =>
                 StartOK(a \o Register(keys) \o <<Try(Unregister(undo))>>, K)
           /\ CancelOK(<<Ask>> \o Unregister(undo), K)
           /\ CancelOK(Unregister(undo) \o <<Ask>>, K)
           /\ CancelOK(Unregister(undo) \o <<UnregisterCmd>>, K)
           /\ OnlyUndoes(Unregister(undo)) /\ Within(Unregister(undo), K)
<1> DEFINE u == Unregister(undo)
           r == Register(keys)
<1>1. /\ OnlyUndoes(u) /\ Within(u, K) /\ CancelOK(u, K)
      /\ \A k \in K : Undoes(u, k)
  BY UnregisterUndoes
<1>2. /\ r \in Seq(Instruction) /\ Len(r) = Len(keys)
      /\ \A i \in 1..Len(keys) : r[i].op = "register" /\ r[i].key = keys[i]
  BY RegisterIs
<1> HIDE DEF u, r
<1>3. /\ Len(r) > 0
      /\ \A i \in 1..Len(r) : r[i].op = "register" /\ r[i].key \in K
      /\ \A i, j \in 1..Len(r) : r[i].key = r[j].key => i = j
  BY <1>2
<1>0. Registers(r, K)
  <2> SUFFICES ASSUME NEW k \in K
               PROVE  \E i \in 1..Len(r) : r[i].op = "register" /\ r[i].key = k
    BY DEF Registers
  <2>1. PICK i \in 1..Len(keys) : keys[i] = k
    BY DEF Covers
  <2>2. i \in 1..Len(r) /\ r[i].op = "register" /\ r[i].key = k
    BY <1>2, <2>1
  <2>3. QED
    BY <2>2
<1>4. StartOK(r, K)
  BY <1>0, <1>2, <1>3 DEF StartOK
<1>5. StartOK(a \o r, K)
  <2>1. /\ a \in Seq(Instruction)
        /\ \A i \in 1..Len(a) : /\ a[i].op = "try" /\ OnlyUndoes(a[i].undo)
                                /\ Within(a[i].undo, K)
    BY DEF TriesOnly
  <2>2. QED
    BY <1>0, <1>2, <1>3, <2>1, StartRegisters, Zenon
<1>6. ASSUME u \in UndoProgram
      PROVE  StartOK((a \o r) \o <<Try(u)>>, K)
  BY <1>1, <1>5, <1>6, StartThenTry
<1>7. /\ CancelOK(<<Ask>> \o u, K)
      /\ CancelOK(u \o <<Ask>>, K)
      /\ CancelOK(u \o <<UnregisterCmd>>, K)
  BY <1>1, CancelWith, SingleTyping, SingleFields
<1>8. QED
  BY <1>1, <1>4, <1>5, <1>6, <1>7 DEF u, r

\* The same for the classes with one handler.
LEMMA OneHandler ==
    ASSUME NEW k \in KeyName, NEW a, TriesOnly(a, {k})
    PROVE  /\ StartOK(Register(<<k>>), {k})
           /\ StartOK(a \o Register(<<k>>), {k})
           /\ Unregister(<<k>>) \in UndoProgram =>
                 StartOK(a \o Register(<<k>>) \o <<Try(Unregister(<<k>>))>>,
                   {k})
           /\ CancelOK(<<Ask>> \o Unregister(<<k>>), {k})
           /\ CancelOK(Unregister(<<k>>) \o <<Ask>>, {k})
           /\ CancelOK(Unregister(<<k>>) \o <<UnregisterCmd>>, {k})
           /\ OnlyUndoes(Unregister(<<k>>)) /\ Within(Unregister(<<k>>), {k})
<1> DEFINE keys == <<k>>
           K == {k}
<1>1. keys \in Seq(KeyName) /\ Len(keys) > 0
  OBVIOUS
<1>2. /\ \A i \in 1..Len(keys) : keys[i] \in K
      /\ \A i, j \in 1..Len(keys) : keys[i] = keys[j] => i = j
      /\ Covers(keys, K) /\ TriesOnly(a, K)
  BY DEF Covers
<1> HIDE DEF keys, K
<1>3. /\ StartOK(Register(keys), K)
      /\ StartOK(a \o Register(keys), K)
      /\ Unregister(keys) \in UndoProgram =>
            StartOK(a \o Register(keys) \o <<Try(Unregister(keys))>>, K)
      /\ CancelOK(<<Ask>> \o Unregister(keys), K)
      /\ CancelOK(Unregister(keys) \o <<Ask>>, K)
      /\ CancelOK(Unregister(keys) \o <<UnregisterCmd>>, K)
      /\ OnlyUndoes(Unregister(keys)) /\ Within(Unregister(keys), K)
  BY <1>1, <1>2, HandlerPrograms
<1>4. QED
  BY <1>3 DEF keys, K

\* What the failure paths of the start() functions run.
LEMMA UndoTyping ==
    /\ Unregister(<<"FULL_SCAN">>) \in UndoProgram
    /\ Unregister(ScanKeys) \in UndoProgram
    /\ Unregister(HotlistKeys) \in UndoProgram
    /\ Unregister(<<"EPNO">>) \in UndoProgram
    /\ Unregister(<<"SIG_CHANGE">>) \in UndoProgram
    /\ Unregister(<<"ANQPO">>) \in UndoProgram
  BY Zenon DEF UndoProgram

\* The vendor events of the classes with one handler.
LEMMA KeyTyping ==
    /\ "FULL_SCAN" \in KeyName /\ "EPNO" \in KeyName
    /\ "SIG_CHANGE" \in KeyName /\ "ANQPO" \in KeyName
    /\ "RSSI" \in KeyName /\ "RTT" \in KeyName
    /\ "RING" \in KeyName /\ "MEM_DUMP" \in KeyName
  BY Zenon DEF KeyName

\* ScanCommand undoes the three handlers it registers.
LEMMA ScanPrograms ==
    LET K == {"SCAN_AVAILABLE", "SCAN_COMPLETE", "FULL_SCAN"}
    IN  StartOK(ScanStart, K) /\ CancelOK(ScanCancel, K)
<1> DEFINE K == {"SCAN_AVAILABLE", "SCAN_COMPLETE", "FULL_SCAN"}
           keys == <<"SCAN_AVAILABLE", "SCAN_COMPLETE", "FULL_SCAN">>
           a == <<Try(<<>>), Try(<<>>), Try(<<>>)>>
<1>1. /\ keys \in Seq(KeyName) /\ Len(keys) > 0
      /\ \A i \in 1..Len(keys) : keys[i] \in K
      /\ \A i, j \in 1..Len(keys) : keys[i] = keys[j] => i = j
      /\ Covers(keys, K)
  <2>1. /\ Len(keys) = 3 /\ keys[1] = "SCAN_AVAILABLE"
        /\ keys[2] = "SCAN_COMPLETE" /\ keys[3] = "FULL_SCAN"
    OBVIOUS
  <2>2. QED
    BY <2>1 DEF KeyName, Covers
<1>2. /\ ScanKeys \in Seq(KeyName)
      /\ \A i \in 1..Len(ScanKeys) : ScanKeys[i] \in K
      /\ Covers(ScanKeys, K)
  <2>1. /\ Len(ScanKeys) = 3 /\ ScanKeys[1] = "SCAN_COMPLETE"
        /\ ScanKeys[2] = "SCAN_AVAILABLE" /\ ScanKeys[3] = "FULL_SCAN"
    BY DEF ScanKeys
  <2>2. QED
    BY <2>1 DEF KeyName, ScanKeys, Covers
<1>3. TriesOnly(a, K)
  BY TryPrograms, NothingToUndo, OpTyping, Zenon
<1> HIDE DEF K, keys, a
<1>4. /\ StartOK(a \o Register(keys) \o <<Try(Unregister(ScanKeys))>>, K)
      /\ CancelOK(<<Ask>> \o Unregister(ScanKeys), K)
  BY <1>1, <1>2, <1>3, HandlerPrograms, UndoTyping
<1>5. QED
  BY <1>4 DEF ScanStart, ScanCancel, K, keys, a

\* BssidHotlistCommand undoes the two handlers it registers.
LEMMA HotlistPrograms ==
    LET K == {"HOTLIST_FOUND", "HOTLIST_LOST"}
    IN  StartOK(HotlistStart, K) /\ CancelOK(HotlistCancel, K)
<1> DEFINE K == {"HOTLIST_FOUND", "HOTLIST_LOST"}
           a == <<Try(<<>>), Try(Unregister(HotlistKeys)), Try(<<>>)>>
<1>1. /\ HotlistKeys \in Seq(KeyName) /\ Len(HotlistKeys) > 0
      /\ \A i \in 1..Len(HotlistKeys) : HotlistKeys[i] \in K
      /\ \A i, j \in 1..Len(HotlistKeys) :
             HotlistKeys[i] = HotlistKeys[j] => i = j
      /\ Covers(HotlistKeys, K)
  <2>1. /\ Len(HotlistKeys) = 2 /\ HotlistKeys[1] = "HOTLIST_FOUND"
        /\ HotlistKeys[2] = "HOTLIST_LOST"
    BY DEF HotlistKeys
  <2>2. QED
    BY <2>1 DEF KeyName, HotlistKeys, Covers
<1> HIDE DEF K
<1>2. OnlyUndoes(Unregister(HotlistKeys)) /\ Within(Unregister(HotlistKeys), K)
  BY <1>1, UnregisterUndoes
<1>3. TriesOnly(a, K)
  BY <1>2, TryPrograms, UndoTyping, Zenon
<1> HIDE DEF a
<1>4. /\ StartOK(a \o Register(HotlistKeys)
                   \o <<Try(Unregister(HotlistKeys))>>, K)
      /\ CancelOK(Unregister(HotlistKeys) \o <<Ask>>, K)
  BY <1>1, <1>3, HandlerPrograms, UndoTyping
<1>5. QED
  BY <1>4 DEF HotlistStart, HotlistCancel, K, a

\* start() and cancel() of class c fit one another.
Fits(c) == \E K : StartOK(StartProgram[c], K) /\ CancelOK(CancelProgram[c], K)

\* Every class: a refused start() takes back its handlers, and cancel()
\* unregisters all that start() registers.
LEMMA ProgramsFit == \A c \in DOMAIN StartProgram : Fits(c)
<1>1. \A K : /\ TriesOnly(<<Try(<<>>)>>, K)
             /\ TriesOnly(<<Try(<<>>), Try(<<>>)>>, K)
  BY TryPrograms, NothingToUndo, OpTyping, Zenon
<1>2. Fits("FullScan")
  <2>1. StartOK(FullScanStart, {"FULL_SCAN"}) /\ CancelOK(FullScanCancel,
          {"FULL_SCAN"})
    BY <1>1, OneHandler, KeyTyping, UndoTyping DEF FullScanStart,
       FullScanCancel
  <2>2. QED
    BY <2>1 DEF Fits, StartProgram, CancelProgram
<1>3. Fits("Anqpo")
  <2>1. StartOK(AnqpoStart, {"ANQPO"}) /\ CancelOK(AnqpoCancel, {"ANQPO"})
    BY <1>1, OneHandler, KeyTyping, UndoTyping DEF AnqpoStart, AnqpoCancel
  <2>2. QED
    BY <2>1 DEF Fits, StartProgram, CancelProgram
<1>4. Fits("RSSI")
  <2>1. StartOK(RSSIStart, {"RSSI"}) /\ CancelOK(RSSICancel, {"RSSI"})
    BY <1>1, OneHandler, KeyTyping, UndoTyping DEF RSSIStart, RSSICancel
  <2>2. QED
    BY <2>1 DEF Fits, StartProgram, CancelProgram
<1>5. Fits("Rtt")
  <2>1. StartOK(RttStart, {"RTT"}) /\ CancelOK(RttCancel, {"RTT"})
    BY <1>1, OneHandler, KeyTyping, UndoTyping DEF RttStart, RttCancel
  <2>2. QED
    BY <2>1 DEF Fits, StartProgram, CancelProgram
<1>6. Fits("Log")
  <2>1. StartOK(LogStart, {"RING"}) /\ CancelOK(LogCancel, {"RING"})
    BY <1>1, OneHandler, KeyTyping, UndoTyping DEF LogStart, LogCancel
  <2>2. QED
    BY <2>1 DEF Fits, StartProgram, CancelProgram
<1>7. Fits("Alert")
  <2>1. StartOK(AlertStart, {"MEM_DUMP"}) /\ CancelOK(AlertCancel,
          {"MEM_DUMP"})
    BY <1>1, OneHandler, KeyTyping, UndoTyping DEF AlertStart, AlertCancel
  <2>2. QED
    BY <2>1 DEF Fits, StartProgram, CancelProgram
<1>8. Fits("SigChange")
  <2>1. StartOK(SigChangeStart, {"SIG_CHANGE"}) /\ CancelOK(SigChangeCancel,
          {"SIG_CHANGE"})
    BY <1>1, OneHandler, KeyTyping, UndoTyping DEF SigChangeStart,
       SigChangeCancel
  <2>2. QED
    BY <2>1 DEF Fits, StartProgram, CancelProgram
<1>9. Fits("EPNO")
  <2>1. TriesOnly(<<Try(<<>>), Try(Unregister(<<"EPNO">>))>>, {"EPNO"})
    BY <1>1, OneHandler, KeyTyping, TryPrograms, UndoTyping
  <2>2. StartOK(EPNOStart, {"EPNO"}) /\ CancelOK(EPNOCancel, {"EPNO"})
    BY <2>1, OneHandler, KeyTyping DEF EPNOStart, EPNOCancel
  <2>3. QED
    BY <2>2 DEF Fits, StartProgram, CancelProgram
<1>10. Fits("Scan")
  BY ScanPrograms DEF Fits, StartProgram, CancelProgram
<1>11. Fits("Hotlist")
  BY HotlistPrograms DEF Fits, StartProgram, CancelProgram
<1>12. QED
  BY <1>2, <1>3, <1>4, <1>5, <1>6, <1>7, <1>8, <1>9, <1>10, <1>11
     DEF StartProgram

\* A failure path is itself a program.
LEMMA UndoIsProgram ==
    \A u \in UndoProgram : u \in Seq(Instruction) /\ OnlyUndoes(u)
<1>1. <<>> \in Seq(Instruction)
  OBVIOUS
<1>2. ASSUME NEW k \in KeyName
      PROVE  Unregister(<<k>>) \in Seq(Instruction) /\
               OnlyUndoes(Unregister(<<k>>))
  <2>1. <<k>> \in Seq(KeyName)
    OBVIOUS
  <2>2. QED
    BY <2>1, UnregisterIs DEF OnlyUndoes
<1>3. Unregister(ScanKeys) \in Seq(Instruction) /\
        OnlyUndoes(Unregister(ScanKeys))
  <2>1. ScanKeys \in Seq(KeyName)
    BY DEF ScanKeys, KeyName
  <2>2. QED
    BY <2>1, UnregisterIs DEF OnlyUndoes
<1>4. /\ Unregister(HotlistKeys) \in Seq(Instruction)
      /\ OnlyUndoes(Unregister(HotlistKeys))
  <2>1. HotlistKeys \in Seq(KeyName)
    BY DEF HotlistKeys, KeyName
  <2>2. QED
    BY <2>1, UnregisterIs DEF OnlyUndoes
<1>5. QED
  BY <1>1, <1>2, <1>3, <1>4, NothingToUndo, KeyTyping, Zenon DEF UndoProgram

\* RttCommand registers its handler last, and its cancel() leaves the command
\* table alone.
LEMMA RttPrograms ==
    /\ \E i \in 1..Len(StartProgram["Rtt"]) :
          /\ StartProgram["Rtt"][i].op = "register"
          /\ StartProgram["Rtt"][i].key = "RTT"
    /\ \A i \in 1..Len(StartProgram["Rtt"]) :
          StartProgram["Rtt"][i].op = "register" =>
              i = Len(StartProgram["Rtt"]) /\
                StartProgram["Rtt"][i].key = "RTT"
    /\ \A i \in 1..Len(CancelProgram["Rtt"]) :
          CancelProgram["Rtt"][i].op # "unregisterCmd"
    /\ CancelProgram["Rtt"] = RttCancel
<1> DEFINE keys == <<"RTT">>
           r == Register(keys)
           u == Unregister(keys)
<1>1. keys \in Seq(KeyName) /\ Len(keys) = 1 /\ keys[1] = "RTT"
  BY KeyTyping
<1> HIDE DEF keys
<1>2. /\ r \in Seq(Instruction) /\ Len(r) = 1
      /\ r[1].op = "register" /\ r[1].key = "RTT"
      /\ u \in Seq(Instruction) /\ Len(u) = 1 /\ u[1].op = "unregister"
  BY <1>1, RegisterIs, UnregisterIs
<1> HIDE DEF r, u
<1>3. Try(<<>>) \in Instruction /\ Try(<<>>).op = "try" /\ Ask \in Instruction
      /\ Ask.op = "ask"
  BY SingleTyping, SingleFields, OpTyping, Zenon
<1>4. ASSUME NEW x \in Instruction, NEW q \in Seq(Instruction), Len(q) = 1
      PROVE  /\ Len(<<x>> \o q) = 2
             /\ (<<x>> \o q)[1] = x /\ (<<x>> \o q)[2] = q[1]
  BY <1>4
<1>5. /\ Len(<<Try(<<>>)>> \o r) = 2
      /\ (<<Try(<<>>)>> \o r)[1] = Try(<<>>) /\ (<<Try(<<>>)>> \o r)[2] = r[1]
      /\ Len(<<Ask>> \o u) = 2
      /\ (<<Ask>> \o u)[1] = Ask /\ (<<Ask>> \o u)[2] = u[1]
  BY <1>2, <1>3, <1>4, Zenon
<1>6. StartProgram["Rtt"] = <<Try(<<>>)>> \o r /\
        CancelProgram["Rtt"] = <<Ask>> \o u
  BY DEF StartProgram, CancelProgram, RttStart, RttCancel, r, u, keys
<1>7. 2 \in 1..2 /\ \A i \in 1..2 : i = 1 \/ i = 2
  OBVIOUS
<1>8. CancelProgram["Rtt"] = RttCancel
  BY DEF CancelProgram
<1>9. QED
  BY <1>2, <1>3, <1>5, <1>6, <1>7, <1>8

\* The events of a class are those its start() registers for.
LEMMA KeysAreRegistered ==
    ASSUME NEW c \in DOMAIN StartProgram, NEW k
    PROVE  k \in Keys(c) <=> \E j \in 1..Len(StartProgram[c]) :
               StartProgram[c][j].op = "register" /\ StartProgram[c][j].key = k
<1>1. StartProgram[c] \in Seq(Instruction)
  BY ProgramsFit DEF Fits, StartOK
<1>2. DOMAIN StartProgram[c] = 1..Len(StartProgram[c])
  BY <1>1
<1>3. QED
  BY <1>2 DEF Keys

\* A set of naturals that is not empty has a least element.
LEMMA Least ==
    ASSUME NEW S \in SUBSET Nat, S # {}
    PROVE  Min(S) \in S
<1> DEFINE R == {ss \in Nat \X Nat : ss[1] < ss[2]}
<1>1. IsWellFoundedOn(R, Nat)
  BY NatLessThanWellFounded, Zenon DEF OpToRel
<1>2. PICK x \in S : \A y \in S : <<y, x>> \notin R
  <2> HIDE DEF R
  <2> QED
    BY <1>1, WFMin
<1>3. ASSUME NEW y \in S PROVE x <= y
  <2>1. x \in Nat /\ y \in Nat /\ <<y, x>> \in Nat \X Nat
    OBVIOUS
  <2>2. <<y, x>>[1] = y /\ <<y, x>>[2] = x
    OBVIOUS
  <2>3. ~(y < x)
    BY <1>2, <2>1, <2>2
  <2>4. QED
    BY <2>1, <2>3
<1>4. QED
  BY <1>3 DEF Min

\* Closing the gap in a table, as the memmove-like loops of common.cpp do.
LEMMA RemoveAtIs ==
    ASSUME NEW S, NEW s \in Seq(S), NEW i \in 1..Len(s)
    PROVE  /\ RemoveAt(s, i) \in Seq(S)
           /\ Len(RemoveAt(s, i)) = Len(s) - 1
           /\ \A j \in 1..(Len(s) - 1) :
                 RemoveAt(s, i)[j] = IF j < i THEN s[j] ELSE s[j + 1]
<1> DEFINE a == SubSeq(s, 1, i - 1)
           b == SubSeq(s, i + 1, Len(s))
<1>1. Len(s) \in Nat
  OBVIOUS
<1>2. /\ a \in Seq(S) /\ Len(a) = i - 1
      /\ \A j \in 1..(i - 1) : a[j] = s[j]
  BY <1>1
<1>3. /\ b \in Seq(S) /\ Len(b) = Len(s) - i
      /\ \A j \in 1..(Len(s) - i) : b[j] = s[i + j]
  BY <1>1
<1> HIDE DEF a, b
<1>4. /\ a \o b \in Seq(S) /\ Len(a \o b) = Len(s) - 1
      /\ \A j \in 1..(Len(s) - 1) :
            (a \o b)[j] = IF j < i THEN a[j] ELSE b[j - (i - 1)]
  <2>1. /\ a \o b \in Seq(S) /\ Len(a \o b) = Len(a) + Len(b)
        /\ \A j \in 1..Len(a \o b) :
              (a \o b)[j] = IF j <= Len(a) THEN a[j] ELSE b[j - Len(a)]
    <3>1. a \in Seq(S) /\ b \in Seq(S)
      BY <1>2, <1>3
    <3>2. QED
      BY <3>1, Concat
  <2>2. QED
    BY <1>1, <1>2, <1>3, <2>1
<1>5. \A j \in 1..(Len(s) - 1) : ~(j < i) => b[j - (i - 1)] = s[j + 1]
  <2> SUFFICES ASSUME NEW j \in 1..(Len(s) - 1), ~(j < i)
               PROVE  b[j - (i - 1)] = s[j + 1]
    OBVIOUS
  <2>1. j - (i - 1) \in 1..(Len(s) - i) /\ i + (j - (i - 1)) = j + 1
    BY <1>1
  <2>2. QED
    BY <1>3, <2>1
<1>6. RemoveAt(s, i) = a \o b
  BY DEF RemoveAt, a, b
<1>7. QED
  BY <1>1, <1>2, <1>4, <1>5, <1>6

-----------------------------------------------------------------------------
(* The inductive invariant                                                 *)
Handler == [key : Event, cmd : Command]
Entry == [id : RequestId, cmd : Command]
Step == {"none", "handler", "rttUnregister", "rttFinish", "release", "return"}

\* The types, with what TypeOK says of the loop left to EventLoop's proof.
Types ==
    /\ event_cb \in Seq(Handler)
    /\ cmd \in Seq(Entry)
    /\ refs \in [Command -> Nat]
    /\ class \in [Command -> DOMAIN StartProgram \cup {"none"}]
    /\ id \in [Command -> RequestId \cup {AnyId}]
    /\ todo \in Seq(Instruction)
    /\ this \in Command \cup {NoCommand}
    /\ bad \in Nat /\ num \in Nat
    /\ held \in Command \cup {NoCommand}
    /\ step \in Step

\* Where the two threads can be.
Threads ==
    /\ (todo = <<>>) <=> (this = NoCommand)
    /\ (step = "none") <=> (loop # "handle")
    /\ (held = NoCommand) <=> (step \in {"none", "return"})
    /\ cleaner \notin {"idle", "cancel"} => todo = <<>>
    /\ cleaner \in {"idle", "read", "flag"} => bad = 0
    /\ cleaner \in {"close", "free", "done"} => Len(cmd) <= bad

\* No command and no id is twice in cmd, and an entry that wifi_cleanup is not
\* done with has the id its object has.
CmdTable ==
    /\ \A i, j \in 1..Len(cmd) :
          cmd[i].id = cmd[j].id \/ cmd[i].cmd = cmd[j].cmd => i = j
    /\ \A j \in 1..Len(cmd) : j > bad =>
          /\ id[cmd[j].cmd] = cmd[j].id
          /\ class[cmd[j].cmd] \in DOMAIN StartProgram

\* No event has two handlers, and a handler's command asked for its event.
HandlerTable ==
    /\ \A i, j \in 1..Len(event_cb) : event_cb[i].key = event_cb[j].key =>
         i = j
    /\ \A i \in 1..Len(event_cb) :
          /\ class[event_cb[i].cmd] \in DOMAIN StartProgram
          /\ event_cb[i].key \in Keys(class[event_cb[i].cmd])

InTable(o) == \E j \in 1..Len(cmd) : cmd[j].cmd = o

\* The start() the client's thread is in, and how much of it is done.
Program == StartProgram[class[this]]
Passed == Len(Program) - Len(todo)

\* The client is in a start(): the handlers of the command are those
\* registered so far, and nobody has the ones that are left.
Starting ==
    /\ cleaner = "idle"
    /\ InTable(this)
    /\ class[this] \in ClassName
    /\ Passed \in 0..(Len(Program) - 1)
    /\ \A i \in 1..Len(todo) : todo[i] = Program[Passed + i]
    /\ \A i \in 1..Len(event_cb) : event_cb[i].cmd = this =>
          \E j \in 1..Passed :
              Program[j].op = "register" /\ Program[j].key = event_cb[i].key
    /\ \A i \in 1..Len(event_cb) : \A j \in (Passed + 1)..Len(Program) :
          Program[j].op = "register" => Program[j].key # event_cb[i].key

\* The client is taking a command down: every handler of it will still be
\* unregistered.
Ending(last) ==
    /\ todo # <<>>
    /\ todo[Len(todo)].op = last
    /\ \A i \in 1..(Len(todo) - 1) :
          todo[i].op \in {"ask", "unregister", "unregisterCmd"}
    /\ \A i \in 1..Len(event_cb) :
          event_cb[i].cmd = this => Undoes(todo, event_cb[i].key)

\* A stop call or a refused start(): the command is in cmd only if the call
\* will still take it out.
Stopping ==
    /\ cleaner = "idle"
    /\ Ending("release")
    /\ (\E i \in 1..Len(todo) : todo[i].op = "unregisterCmd") =>
          \A j \in 1..Len(cmd) : cmd[j].id = id[this] => cmd[j].cmd = this
    /\ (\A i \in 1..Len(todo) : todo[i].op # "unregisterCmd") => ~InTable(this)

\* wifi_cleanup cancels the command after the bad ones, unless that has already
\* taken it out of the table.
Cleaning ==
    /\ cleaner = "cancel"
    /\ Ending("cleanupRelease")
    /\ \/ Len(cmd) = num /\ bad < num /\ cmd[bad + 1].cmd = this
       \/ /\ Len(cmd) = num - 1
          /\ \A j \in 1..Len(cmd) : cmd[j].cmd # this /\ cmd[j].id # id[this]

Modes == this # NoCommand =>
    /\ class[this] \in DOMAIN StartProgram
    /\ Starting \/ Stopping \/ Cleaning

\* The completion of an RTT command in the loop thread and the client's calls
\* do not meet: the client never works on the RTT command that completes.
RttApart ==
    /\ step \in {"rttUnregister", "rttFinish"} => class[held] = "Rtt"
    /\ (step \in {"handler", "rttUnregister", "rttFinish"} /\
         class[held] = "Rtt")
          => this # held /\ InTable(held)
    /\ step = "rttFinish" =>
          \A i \in 1..Len(event_cb) : event_cb[i].cmd # held
    /\ (cleaner = "idle" /\ this # NoCommand /\ class[this] = "Rtt") =>
          \A i \in 1..Len(event_cb) : event_cb[i].cmd # this

\* The inductive invariant.
TInv == /\ Types /\ Threads /\ CmdTable /\ HandlerTable /\ Modes /\ RttApart
        /\ RefsExact /\ HandlersOwned

\* What the tables need of the event loop: it is left before the cancelling.
LoopFacts ==
    /\ loop \in {"out", "poll", "handle", "check"}
    /\ cleaner \in {"idle", "read", "flag", "cancel", "close", "free", "done"}
    /\ loop # "out" => cleaner \in {"idle", "read"}

-----------------------------------------------------------------------------
(* The tables                                                              *)
\* internal_valid_message_handler finds an event's handler if it has one.
LEMMA FirstKeyIs ==
    ASSUME event_cb \in Seq(Handler), NEW k
    PROVE  \/ /\ FirstKey(k) = 0
              /\ \A i \in 1..Len(event_cb) : event_cb[i].key # k
           \/ FirstKey(k) \in 1..Len(event_cb) /\ event_cb[FirstKey(k)].key = k
<1> DEFINE I == {i \in 1..Len(event_cb) : event_cb[i].key = k}
<1>1. FirstKey(k) = IF I # {} THEN Min(I) ELSE 0
  BY DEF FirstKey, SelectInSeq
<1>2. I \in SUBSET Nat
  OBVIOUS
<1>3. I # {} => Min(I) \in I
  <2> HIDE DEF I
  <2> QED
    BY <1>2, Least
<1>4. QED
  BY <1>1, <1>3

\* wifi_get_cmd finds the command of an id if there is one.
LEMMA FirstIdIs ==
    ASSUME cmd \in Seq(Entry), NEW k
    PROVE  \/ /\ FirstId(k) = 0
              /\ \A i \in 1..Len(cmd) : cmd[i].id # k
           \/ FirstId(k) \in 1..Len(cmd) /\ cmd[FirstId(k)].id = k
<1> DEFINE I == {i \in 1..Len(cmd) : cmd[i].id = k}
<1>1. FirstId(k) = IF I # {} THEN Min(I) ELSE 0
  BY DEF FirstId, SelectInSeq
<1>2. I \in SUBSET Nat
  OBVIOUS
<1>3. I # {} => Min(I) \in I
  <2> HIDE DEF I
  <2> QED
    BY <1>2, Least
<1>4. QED
  BY <1>1, <1>3

\* With one handler per event wifi_unregister_vendor_handler takes out all the
\* handlers of an event, and nothing else.
LEMMA UnregisterIsPrecise ==
    ASSUME event_cb \in Seq(Handler), NEW k, UnregisterVendorHandler(k),
           \A i, j \in 1..Len(event_cb) :
               event_cb[i].key = event_cb[j].key => i = j
    PROVE  /\ event_cb' \in Seq(Handler)
           /\ \A i \in 1..Len(event_cb') :
                 /\ event_cb'[i].key # k
                 /\ \E j \in 1..Len(event_cb) : event_cb'[i] = event_cb[j]
           /\ \A i, j \in 1..Len(event_cb') :
                 event_cb'[i].key = event_cb'[j].key => i = j
<1> DEFINE f == FirstKey(k)
<1>0. Len(event_cb) \in Nat
  OBVIOUS
<1>1. CASE f = 0
  BY <1>1, FirstKeyIs DEF UnregisterVendorHandler
<1>2. CASE f \in 1..Len(event_cb) /\ event_cb[f].key = k
  <2> HIDE DEF f
  <2>1. event_cb' = RemoveAt(event_cb, f)
    BY <1>2, <1>0 DEF UnregisterVendorHandler, f
  <2>2. /\ event_cb' \in Seq(Handler)
        /\ Len(event_cb') = Len(event_cb) - 1
        /\ \A j \in 1..(Len(event_cb) - 1) :
              event_cb'[j] = IF j < f THEN event_cb[j] ELSE event_cb[j + 1]
    BY <1>2, <2>1, RemoveAtIs
  <2> DEFINE g(j) == IF j < f THEN j ELSE j + 1
  <2>3. ASSUME NEW j \in 1..Len(event_cb')
        PROVE  g(j) \in 1..Len(event_cb) /\ g(j) # f /\
                 event_cb'[j] = event_cb[g(j)]
    BY <1>0, <1>2, <2>2
  <2>4. \A i, j \in 1..Len(event_cb') : g(i) = g(j) => i = j
    BY <1>0, <1>2, <2>2
  <2> HIDE DEF g
  <2>5. QED
    BY <1>2, <2>2, <2>3, <2>4, SMTT(40)
<1>3. QED
  BY <1>1, <1>2, FirstKeyIs

\* With one entry per id wifi_unregister_cmd takes out the command of an id,
\* and nothing else.
LEMMA WithoutFirstIs ==
    ASSUME cmd \in Seq(Entry), NEW k,
           \A i, j \in 1..Len(cmd) :
               cmd[i].id = cmd[j].id \/ cmd[i].cmd = cmd[j].cmd => i = j
    PROVE  LET t == WithoutFirst(k) IN
           /\ t \in Seq(Entry)
           /\ Len(t) <= Len(cmd)
           /\ \A i \in 1..Len(t) :
                 t[i].id # k /\ \E j \in 1..Len(cmd) : t[i] = cmd[j]
           /\ \A j \in 1..Len(cmd) : cmd[j].id # k =>
                 \E i \in 1..Len(t) : t[i] = cmd[j]
           /\ \A i, j \in 1..Len(t) :
                 t[i].id = t[j].id \/ t[i].cmd = t[j].cmd => i = j
           /\ \A f \in 1..Len(cmd) : cmd[f].id = k =>
                 /\ Len(t) = Len(cmd) - 1
                 /\ \A i \in 1..Len(t) :
                      t[i] = IF i < f THEN cmd[i] ELSE cmd[i + 1]
           /\ (\A j \in 1..Len(cmd) : cmd[j].id # k) => t = cmd
<1> DEFINE f == FirstId(k)
           t == WithoutFirst(k)
<1>0. Len(cmd) \in Nat
  OBVIOUS
<1>1. CASE f = 0 /\ \A j \in 1..Len(cmd) : cmd[j].id # k
  <2>1. t = cmd
    BY <1>1 DEF WithoutFirst
  <2> HIDE DEF t, f
  <2>2. QED
    BY <1>0, <1>1, <2>1 DEF t
<1>2. CASE f \in 1..Len(cmd) /\ cmd[f].id = k
  <2> HIDE DEF f
  <2>1. t = RemoveAt(cmd, f)
    BY <1>2, <1>0 DEF WithoutFirst, f
  <2> HIDE DEF t
  <2>2. /\ t \in Seq(Entry)
        /\ Len(t) = Len(cmd) - 1
        /\ \A j \in 1..(Len(cmd) - 1) :
              t[j] = IF j < f THEN cmd[j] ELSE cmd[j + 1]
    BY <1>2, <2>1, RemoveAtIs
  <2> DEFINE g(j) == IF j < f THEN j ELSE j + 1
             h(j) == IF j < f THEN j ELSE j - 1
  <2>3. ASSUME NEW j \in 1..Len(t)
        PROVE  g(j) \in 1..Len(cmd) /\ g(j) # f /\ t[j] = cmd[g(j)]
    BY <1>0, <1>2, <2>2
  <2>4. \A i, j \in 1..Len(t) : g(i) = g(j) => i = j
    BY <1>0, <1>2, <2>2
  <2>5. ASSUME NEW j \in 1..Len(cmd), j # f
        PROVE  h(j) \in 1..Len(t) /\ g(h(j)) = j
    BY <1>0, <1>2, <2>2, <2>5
  <2> HIDE DEF g, h
  <2>6. \A i \in 1..Len(t) : t[i].id # k /\ \E j \in 1..Len(cmd) :
          t[i] = cmd[j]
    BY <1>2, <2>3
  <2>7. ASSUME NEW j \in 1..Len(cmd), cmd[j].id # k
        PROVE  \E i \in 1..Len(t) : t[i] = cmd[j]
    BY <1>2, <2>3, <2>5, <2>7
  <2>8. \A i, j \in 1..Len(t) :
            t[i].id = t[j].id \/ t[i].cmd = t[j].cmd => i = j
    BY <2>3, <2>4
  <2>9. \A e \in 1..Len(cmd) : cmd[e].id = k => e = f
    BY <1>2
  <2>10. \A e \in 1..Len(cmd) : cmd[e].id = k =>
            /\ Len(t) = Len(cmd) - 1
            /\ \A i \in 1..Len(t) : t[i] = IF i < e THEN cmd[i] ELSE cmd[i + 1]
    BY <2>2, <2>9
  <2>11. Len(t) <= Len(cmd)
    BY <1>0, <2>2
  <2>12. ~ \A j \in 1..Len(cmd) : cmd[j].id # k
    BY <1>2
  <2>13. QED
    BY <2>2, <2>6, <2>7, <2>8, <2>10, <2>11, <2>12 DEF t
<1>3. QED
  BY <1>1, <1>2, FirstIdIs

\* Every command the client starts is of a known class.
LEMMA ClassesKnown == ClassName \subseteq DOMAIN StartProgram
  BY WifiHalAssumption DEF WifiHalAssumption, StartProgram

\* Who owns a command, by positions in cmd.
LEMMA OwnedIs ==
    ASSUME cmd \in Seq(Entry), NEW o
    PROVE  Owned(o) <=> \/ \E j \in 1..Len(cmd) : j > bad /\ cmd[j].cmd = o
                        \/ this = o
<1>1. DOMAIN cmd = 1..Len(cmd)
  OBVIOUS
<1>2. QED
  BY <1>1 DEF Owned

\* HandlersOwned by positions in event_cb.
LEMMA HandlersOwnedIs ==
    ASSUME event_cb \in Seq(Handler)
    PROVE  HandlersOwned <=> \A i \in 1..Len(event_cb) : Owned(event_cb[i].cmd)
<1>1. DOMAIN event_cb = 1..Len(event_cb)
  OBVIOUS
<1>2. QED
  BY <1>1 DEF HandlersOwned

\* The command pointers in the tables are commands.
LEMMA InTypes ==
    ASSUME Types
    PROVE  /\ \A j \in 1..Len(cmd) : cmd[j].cmd \in Command /\
                cmd[j].id \in RequestId
           /\ \A j \in 1..Len(event_cb) : event_cb[j].cmd \in Command
<1>1. \A j \in 1..Len(cmd) : cmd[j] \in Entry
  BY DEF Types
<1>2. \A j \in 1..Len(event_cb) : event_cb[j] \in Handler
  BY DEF Types
<1>3. QED
  BY <1>1, <1>2 DEF Entry, Handler

\* A step that leaves tables, objects and the client's call alone keeps the
\* invariant: the steps of the loop and of wifi_cleanup outside the tables.
LEMMA TablesUntouched ==
    ASSUME TInv, LoopFacts, LoopFacts',
           UNCHANGED <<event_cb, cmd, objVars, apiVars, cleanupVars, held>>,
           Threads', 
           step' \in Step,
           todo = <<>> \/ cleaner' = cleaner,
           step' \in {"none", "release", "return"}
           \/ (step' = "rttUnregister" /\ step = "handler" /\
                class[held] = "Rtt")
           \/ step' = step
    PROVE  TInv'
<1> USE DEF objVars, apiVars, cleanupVars, TInv
<1>1. Types'
  BY DEF Types
<1>2. CmdTable' /\ HandlerTable'
  BY DEF CmdTable, HandlerTable
<1>3. Modes'
  <2>1. CASE todo = <<>>
    BY <2>1 DEF Modes, Threads
  <2>2. CASE cleaner' = cleaner
    BY <2>2 DEF Modes, Starting, Stopping, Cleaning, Ending, Program, Passed,
       InTable
  <2>3. QED
    BY <2>1, <2>2
<1>4. RttApart'
  BY DEF RttApart, InTable, Threads
<1>5. RefsExact' /\ HandlersOwned'
  BY DEF RefsExact, HandlersOwned, Owned
<1>6. QED
  BY <1>1, <1>2, <1>3, <1>4, <1>5

\* An object that `new' returns is nowhere in the tables.
LEMMA FreshObject ==
    ASSUME TInv, cleaner = "idle", NEW o \in Command, refs[o] = 0
    PROVE  /\ ~Owned(o) /\ held # o /\ ~InTable(o) /\ this # o
           /\ \A i \in 1..Len(event_cb) : event_cb[i].cmd # o
<1>1. ~Owned(o) /\ held # o
  BY DEF TInv, RefsExact
<1>2. bad = 0 /\ cmd \in Seq(Entry) /\ event_cb \in Seq(Handler)
  BY DEF TInv, Threads, Types
<1>3. ~InTable(o) /\ this # o
  BY <1>1, <1>2, OwnedIs DEF InTable
<1>4. \A i \in 1..Len(event_cb) : event_cb[i].cmd # o
  BY <1>1, <1>2, HandlersOwnedIs DEF TInv
<1>5. QED
  BY <1>1, <1>3, <1>4

\* The program of a start with the cmd table full: releaseRef alone.
LEMMA ReleaseOnly ==
    /\ <<Release>> \in Seq(Instruction) /\ Len(<<Release>>) = 1
    /\ <<Release>>[1].op = "release"
  BY SingleTyping, SingleFields

\* A program that takes a command down, closed by its last instruction.
LEMMA EndingPrograms ==
    ASSUME NEW q \in Seq(Instruction), NEW x \in Instruction,
           \A i \in 1..Len(q) : q[i].op \in {"ask", "unregister",
             "unregisterCmd"}
    PROVE  LET p == q \o <<x>> IN
           /\ p \in Seq(Instruction)
           /\ p # <<>>
           /\ Len(p) = Len(q) + 1
           /\ p[Len(p)] = x
           /\ \A i \in 1..(Len(p) - 1) : p[i] = q[i]
           /\ \A i \in 1..(Len(p) - 1) :
                 p[i].op \in {"ask", "unregister", "unregisterCmd"}
           /\ \A k : Undoes(q, k) => Undoes(p, k)
<1> DEFINE p == q \o <<x>>
<1>1. /\ p \in Seq(Instruction) /\ Len(p) = Len(q) + 1 /\ Len(q) \in Nat
      /\ p[Len(q) + 1] = x /\ \A i \in 1..Len(q) : p[i] = q[i]
  OBVIOUS
<1> HIDE DEF p
<1>2. p # <<>>
  BY <1>1
<1>3. ASSUME NEW k, Undoes(q, k) PROVE Undoes(p, k)
  <2>1. PICK j \in 1..Len(q) : q[j].op = "unregister" /\ q[j].key = k
    BY <1>3 DEF Undoes
  <2>2. j \in 1..Len(p) /\ p[j] = q[j]
    BY <1>1
  <2>3. QED
    BY <2>1, <2>2 DEF Undoes
<1>4. Len(p) - 1 = Len(q)
  BY <1>1
<1>5. QED
  BY <1>1, <1>2, <1>3, <1>4 DEF p

\* A stop call releases the command last.
LEMMA ReleaseLast ==
    ASSUME NEW q \in Seq(Instruction),
           \A i \in 1..Len(q) : q[i].op \in {"ask", "unregister",
             "unregisterCmd"},
           NEW p, p = q \o <<Release>>
    PROVE  /\ p \in Seq(Instruction) /\ p # <<>>
           /\ p[Len(p)].op = "release"
           /\ \A j \in 1..(Len(p) - 1) :
                 p[j].op \in {"ask", "unregister", "unregisterCmd"}
           /\ \A j \in 1..(Len(p) - 1) : p[j] = q[j]
           /\ Len(p) = Len(q) + 1 /\ Len(q) \in Nat
           /\ \A k : Undoes(q, k) => Undoes(p, k)
<1>1. Release \in Instruction /\ Release.op = "release"
  BY SingleTyping, SingleFields
<1>2. Len(q) \in Nat
  OBVIOUS
<1>3. QED
  BY <1>1, <1>2, EndingPrograms

\* cancel() unregisters every event of its class.
LEMMA CancelFacts ==
    ASSUME NEW c \in DOMAIN StartProgram
    PROVE  /\ CancelProgram[c] \in Seq(Instruction)
           /\ \A i \in 1..Len(CancelProgram[c]) :
                 CancelProgram[c][i].op \in {"ask", "unregister",
                   "unregisterCmd"}
           /\ \A k \in Keys(c) : Undoes(CancelProgram[c], k)
<1>1. PICK K : StartOK(StartProgram[c], K) /\ CancelOK(CancelProgram[c], K)
  BY ProgramsFit DEF Fits
<1>2. \A k \in Keys(c) : k \in K
  BY <1>1, KeysAreRegistered DEF StartOK
<1>3. QED
  BY <1>1, <1>2 DEF CancelOK

\* A stop call of class c: cancel() and then the release.
StopCall(c) == CancelProgram[c] \o <<Release>>

\* What such a call does.
LEMMA StopCallFacts ==
    ASSUME NEW c \in DOMAIN StartProgram
    PROVE  /\ StopCall(c) \in Seq(Instruction) /\ StopCall(c) # <<>>
           /\ StopCall(c)[Len(StopCall(c))].op = "release"
           /\ \A j \in 1..(Len(StopCall(c)) - 1) :
                 StopCall(c)[j].op \in {"ask", "unregister",
                   "unregisterCmd"}
           /\ \A j \in 1..(Len(StopCall(c)) - 1) :
                 StopCall(c)[j] = CancelProgram[c][j]
           /\ Len(StopCall(c)) = Len(CancelProgram[c]) + 1
           /\ Len(CancelProgram[c]) \in Nat
<1> DEFINE q == CancelProgram[c]
           p == StopCall(c)
<1>1. /\ q \in Seq(Instruction)
      /\ \A j \in 1..Len(q) :
            q[j].op \in {"ask", "unregister", "unregisterCmd"}
  BY CancelFacts
<1>2. p = q \o <<Release>>
  BY DEF StopCall
<1> HIDE DEF q, p
<1>3. /\ p \in Seq(Instruction) /\ p # <<>>
      /\ p[Len(p)].op = "release"
      /\ \A j \in 1..(Len(p) - 1) :
            p[j].op \in {"ask", "unregister", "unregisterCmd"}
      /\ \A j \in 1..(Len(p) - 1) : p[j] = q[j]
      /\ Len(p) = Len(q) + 1 /\ Len(q) \in Nat
  BY <1>1, <1>2, ReleaseLast
<1>4. QED
  BY <1>3 DEF q, p

\* The command table as long as its commands keep class and id.
LEMMA SameEntries ==
    ASSUME CmdTable, cmd' = cmd, bad' = bad,
           \A j \in 1..Len(cmd) : /\ id'[cmd[j].cmd] = id[cmd[j].cmd]
                                  /\ class'[cmd[j].cmd] = class[cmd[j].cmd]
    PROVE  CmdTable'
<1>1. /\ \A i, j \in 1..Len(cmd) :
            cmd[i].id = cmd[j].id \/ cmd[i].cmd = cmd[j].cmd => i = j
      /\ \A j \in 1..Len(cmd) : j > bad =>
            /\ id'[cmd[j].cmd] = cmd[j].id
            /\ class'[cmd[j].cmd] \in DOMAIN StartProgram
  BY DEF CmdTable
<1>2. QED
  BY <1>1 DEF CmdTable

\* What a start() does before it fails is undone.
LEMMA StartFacts ==
    ASSUME NEW c \in DOMAIN StartProgram
    PROVE  LET p == StartProgram[c] IN
           /\ p \in Seq(Instruction)
           /\ Len(p) \in Nat \ {0}
           /\ \A i \in 1..Len(p) : p[i].op \in {"try", "register"}
           /\ \A i \in 1..Len(p) : p[i].op = "try" =>
                 /\ p[i].undo \in Seq(Instruction)
                 /\ OnlyUndoes(p[i].undo)
                 /\ \A j \in 1..(i - 1) :
                       p[j].op = "register" => Undoes(p[i].undo, p[j].key)
           /\ \A i, j \in 1..Len(p) :
                 p[i].op = "register" /\ p[j].op = "register" /\
                   p[i].key = p[j].key
                 => i = j
           /\ \A i \in 1..Len(p) : p[i].op = "register" => p[i].key \in Keys(c)
<1> DEFINE p == StartProgram[c]
<1>1. PICK K : StartOK(p, K)
  BY ProgramsFit DEF Fits
<1>2. \A i \in 1..Len(p) : p[i].op = "register" => p[i].key \in Keys(c)
  BY KeysAreRegistered
<1> HIDE DEF p
<1>3. p \in Seq(Instruction) /\ Len(p) \in Nat \ {0}
  BY <1>1 DEF StartOK
<1>4. \A i \in 1..Len(p) : p[i].undo \in Seq(Instruction)
  <2>1. \A i \in 1..Len(p) : p[i] \in Instruction
    BY <1>3
  <2>2. \A i \in 1..Len(p) : p[i].undo \in UndoProgram
    BY <2>1 DEF Instruction
  <2>3. QED
    BY <2>2, UndoIsProgram
<1>5. QED
  BY <1>1, <1>2, <1>3, <1>4 DEF StartOK, p

-----------------------------------------------------------------------------
(* The calls of the client                                                 *)
\* Between two calls the client's thread works on no command.
LEMMA Idle ==
    ASSUME TInv, ApiIdle
    PROVE  /\ todo = <<>> /\ this = NoCommand /\ cleaner = "idle" /\ bad = 0
           /\ NoCommand \notin Command
  BY WifiHalAssumption DEF TInv, Threads, ApiIdle, WifiHalAssumption

\* What allocating an object leaves alone.
LEMMA NewKeeps ==
    ASSUME TInv, ApiIdle, NEW c \in DOMAIN StartProgram, NEW o \in Command,
           NEW i \in RequestId \cup {AnyId}, New(o, c, i)
    PROVE  /\ refs' \in [Command -> Nat] /\ refs'[o] = 1
           /\ class' \in [Command -> DOMAIN StartProgram \cup {"none"}]
           /\ id' \in [Command -> RequestId \cup {AnyId}]
           /\ class'[o] = c /\ id'[o] = i
           /\ \A x \in Command : x # o =>
                 refs'[x] = refs[x] /\ class'[x] = class[x] /\ id'[x] = id[x]
  BY DEF TInv, Types, New

\* wifi_start_gscan and its like keep the invariant.
LEMMA StartCommandStep ==
    ASSUME TInv, LoopFacts, Misuse = {},
           NEW c \in ClassName, NEW o \in Command, NEW i \in RequestId,
           StartCommand(c, o, i)
    PROVE  TInv'
<1>1. /\ ApiIdle /\ New(o, c, i) /\ refs[o] = 0 /\ this' = o
      /\ UNCHANGED <<event_cb, bad, num, held, step, loop, cleaner>>
  BY DEF StartCommand, New, loopVars, cleanupVars, handlerVars
<1>2. /\ todo = <<>> /\ this = NoCommand /\ cleaner = "idle" /\ bad = 0
      /\ NoCommand \notin Command
  BY <1>1, Idle
<1>3. /\ ~Owned(o) /\ held # o /\ ~InTable(o)
      /\ \A j \in 1..Len(event_cb) : event_cb[j].cmd # o
  BY <1>1, <1>2, FreshObject
<1>4. c \in DOMAIN StartProgram /\ i \in RequestId \cup {AnyId}
  BY ClassesKnown
<1>5. /\ refs' \in [Command -> Nat] /\ refs'[o] = 1
      /\ class' \in [Command -> DOMAIN StartProgram \cup {"none"}]
      /\ id' \in [Command -> RequestId \cup {AnyId}]
      /\ class'[o] = c /\ id'[o] = i
      /\ \A x \in Command : x # o =>
            refs'[x] = refs[x] /\ class'[x] = class[x] /\ id'[x] = id[x]
  BY <1>1, <1>4, NewKeeps
<1>6. /\ \A j \in 1..Len(cmd) : cmd[j].cmd \in Command /\ cmd[j].cmd # o
      /\ \A j \in 1..Len(event_cb) : event_cb[j].cmd \in Command
      /\ event_cb \in Seq(Handler) /\ cmd \in Seq(Entry) /\ Len(cmd) \in Nat
  BY <1>3, InTypes DEF TInv, InTable, Types
<1>7. /\ \A j \in 1..Len(cmd) : cmd[j].id # i
      /\ \A j \in 1..Len(event_cb) : event_cb[j].key \notin Keys(c)
  <2>1. DOMAIN cmd = 1..Len(cmd) /\ DOMAIN event_cb = 1..Len(event_cb)
    BY <1>6
  <2>2. QED
    BY <2>1 DEF StartCommand, ClientMayStart
<1>8. HandlerTable'
  <2>1. /\ event_cb' = event_cb
        /\ \A j \in 1..Len(event_cb) :
              class'[event_cb[j].cmd] = class[event_cb[j].cmd]
    BY <1>1, <1>3, <1>5, <1>6
  <2>2. QED
    BY <2>1 DEF TInv, HandlerTable
<1>9. RttApart'
  <2>1. held \in Command \cup {NoCommand}
    BY DEF TInv, Types
  <2>2. held = NoCommand => step \in {"none", "return"}
    BY DEF TInv, Threads
  <2>3. \A x : InTable(x) => InTable(x)'
    <3>1. CASE UNCHANGED cmd
      BY <3>1 DEF InTable
    <3>2. CASE cmd' = Append(cmd, [id |-> i, cmd |-> o])
      BY <3>2, <1>6 DEF InTable
    <3>3. QED
      BY <3>1, <3>2 DEF StartCommand, RegisterCmd
  <2>4. QED
    BY <1>1, <1>2, <1>3, <1>5, <2>1, <2>2, <2>3 DEF TInv, RttApart
<1>10. CASE RegisterCmd(i, o) /\ todo' = StartProgram[c]
  <2> DEFINE e == [id |-> i, cmd |-> o]
  <2>1. e \in Entry /\ e.id = i /\ e.cmd = o
    BY DEF Entry
  <2> HIDE DEF e
  <2>2. cmd' = Append(cmd, e)
    BY <1>10 DEF RegisterCmd, e
  <2>3. /\ cmd' \in Seq(Entry) /\ Len(cmd') = Len(cmd) + 1
        /\ cmd'[Len(cmd) + 1] = e
        /\ \A j \in 1..Len(cmd) : cmd'[j] = cmd[j]
    BY <1>6, <2>1, <2>2
  <2>4. \A j \in 1..Len(cmd') : j \in 1..Len(cmd) \/ (j = Len(cmd) + 1 /\
          cmd'[j] = e)
    BY <1>6, <2>3
  <2>5. StartProgram[c] \in Seq(Instruction) /\
          Len(StartProgram[c]) \in Nat \ {0}
    BY <1>4, StartFacts
  <2>6. Types'
    BY <1>1, <1>5, <1>6, <1>10, <2>3, <2>5 DEF TInv, Types
  <2>7. Threads'
    <3>1. StartProgram[c] # <<>>
      BY <2>5
    <3>2. QED
      BY <1>1, <1>2, <1>10, <3>1 DEF TInv, Threads
  <2>8. CmdTable'
    <3>1. \A j \in 1..Len(cmd) :
            /\ id[cmd[j].cmd] = cmd[j].id
            /\ class[cmd[j].cmd] \in DOMAIN StartProgram
      BY <1>2 DEF TInv, CmdTable
    <3>2. \A a, b \in 1..Len(cmd') :
            cmd'[a].id = cmd'[b].id \/ cmd'[a].cmd = cmd'[b].cmd => a = b
      <4>1. \A a, b \in 1..Len(cmd) :
              cmd[a].id = cmd[b].id \/ cmd[a].cmd = cmd[b].cmd => a = b
        BY DEF TInv, CmdTable
      <4>2. \A a \in 1..Len(cmd) : cmd'[a].id # e.id /\ cmd'[a].cmd # e.cmd
        BY <1>6, <1>7, <2>1, <2>3
      <4>3. QED
        BY <2>3, <2>4, <4>1, <4>2
    <3>3. \A j \in 1..Len(cmd') :
            /\ id'[cmd'[j].cmd] = cmd'[j].id
            /\ class'[cmd'[j].cmd] \in DOMAIN StartProgram
      <4>1. \A j \in 1..Len(cmd) :
              id'[cmd[j].cmd] = id[cmd[j].cmd] /\
                class'[cmd[j].cmd] = class[cmd[j].cmd]
        BY <1>5, <1>6
      <4>2. id'[e.cmd] = e.id /\ class'[e.cmd] \in DOMAIN StartProgram
        BY <1>4, <1>5, <2>1
      <4>3. ASSUME NEW j \in 1..Len(cmd')
            PROVE  /\ id'[cmd'[j].cmd] = cmd'[j].id
                   /\ class'[cmd'[j].cmd] \in DOMAIN StartProgram
        <5>1. CASE j \in 1..Len(cmd)
          BY <5>1, <2>3, <3>1, <4>1
        <5>2. CASE cmd'[j] = e
          BY <5>2, <4>2
        <5>3. QED
          BY <5>1, <5>2, <2>4
      <4>4. QED
        BY <4>3
    <3>4. QED
      BY <3>2, <3>3 DEF CmdTable
  <2>9. Starting'
    <3>1. Program' = StartProgram[c] /\ Passed' = 0
      BY <1>1, <1>5, <1>10, <2>5 DEF Program, Passed
    <3>2. InTable(o)'
      BY <1>6, <2>1, <2>3 DEF InTable
    <3>3. \A j \in 1..Len(StartProgram[c]) :
             StartProgram[c][j].op = "register" =>
               StartProgram[c][j].key \in Keys(c)
      BY <1>4, StartFacts
    <3>4. QED
      BY <1>1, <1>2, <1>3, <1>5, <1>7, <1>10, <2>5, <3>1, <3>2, <3>3
         DEF Starting
  <2>10. Modes'
    BY <1>1, <1>4, <1>5, <2>9 DEF Modes
  <2>11. \A x \in Command : Owned(x)' <=> Owned(x) \/ x = o
    BY <1>1, <1>2, <1>6, <2>1, <2>3, <2>4, OwnedIs DEF Owned
  <2>12. RefsExact'
    BY <1>1, <1>3, <1>5, <2>11 DEF TInv, RefsExact
  <2>13. HandlersOwned'
    BY <1>1, <1>6, <2>11, HandlersOwnedIs DEF TInv, HandlersOwned
  <2>14. QED
    BY <1>8, <1>9, <2>6, <2>7, <2>8, <2>10, <2>12, <2>13 DEF TInv
<1>11. CASE todo' = <<Release>> /\ UNCHANGED cmd
  <2>1. /\ <<Release>> \in Seq(Instruction) /\ Len(<<Release>>) = 1
        /\ <<Release>>[1].op = "release" /\ <<Release>> # <<>>
    BY ReleaseOnly
  <2>2. /\ todo' \in Seq(Instruction) /\ Len(todo') = 1
        /\ todo'[1].op = "release" /\ todo' # <<>>
    BY <1>11, <2>1, Zenon
  <2>3. Types'
    BY <1>1, <1>5, <1>6, <1>11, <2>2 DEF TInv, Types
  <2>4. Threads'
    BY <1>1, <1>2, <1>11, <2>2 DEF TInv, Threads
  <2>5. CmdTable'
    <3>1. \A j \in 1..Len(cmd) : /\ id'[cmd[j].cmd] = id[cmd[j].cmd]
                                 /\ class'[cmd[j].cmd] = class[cmd[j].cmd]
      BY <1>5, <1>6
    <3>2. CmdTable /\ cmd' = cmd /\ bad' = bad
      BY <1>1, <1>11 DEF TInv
    <3>3. QED
      BY <3>1, <3>2, SameEntries
  <2>6. Stopping'
    <3>1. ~InTable(o)'
      BY <1>3, <1>11 DEF InTable
    <3>2. Ending("release")'
      BY <1>1, <1>3, <2>2 DEF Ending
    <3>3. \A j \in 1..Len(todo') : todo'[j].op # "unregisterCmd"
      BY <2>2
    <3>4. QED
      BY <1>1, <1>2, <3>1, <3>2, <3>3 DEF Stopping
  <2>7. Modes'
    BY <1>1, <1>4, <1>5, <2>6 DEF Modes
  <2>8. \A x \in Command : Owned(x)' <=> Owned(x) \/ x = o
    BY <1>1, <1>2, <1>11 DEF Owned
  <2>9. RefsExact'
    BY <1>1, <1>3, <1>5, <2>8 DEF TInv, RefsExact
  <2>10. HandlersOwned'
    BY <1>1, <1>6, <2>8, HandlersOwnedIs DEF TInv, HandlersOwned
  <2>11. QED
    BY <1>8, <1>9, <2>3, <2>4, <2>5, <2>7, <2>9, <2>10 DEF TInv
<1>12. QED
  BY <1>10, <1>11 DEF StartCommand

\* A cancel() of an object made for the call keeps the invariant.
LEMMA FreshStop ==
    ASSUME TInv, LoopFacts, ApiIdle,
           NEW c \in DOMAIN StartProgram, NEW o \in Command,
           NEW i \in RequestId \cup {AnyId}, New(o, c, i),
           this' = o, todo' = CancelProgram[c] \o <<Release>>,
           i = AnyId \/ \A j \in 1..Len(CancelProgram[c]) :
                            CancelProgram[c][j].op # "unregisterCmd",
           UNCHANGED <<event_cb, cmd, bad, num, held, step, loop, cleaner>>
    PROVE  TInv'
<1>2. /\ todo = <<>> /\ this = NoCommand /\ cleaner = "idle" /\ bad = 0
      /\ NoCommand \notin Command
  BY Idle
<1>3. /\ ~Owned(o) /\ held # o /\ ~InTable(o)
      /\ \A j \in 1..Len(event_cb) : event_cb[j].cmd # o
  BY <1>2, FreshObject DEF New
<1>5. /\ refs' \in [Command -> Nat] /\ refs'[o] = 1
      /\ class' \in [Command -> DOMAIN StartProgram \cup {"none"}]
      /\ id' \in [Command -> RequestId \cup {AnyId}]
      /\ class'[o] = c /\ id'[o] = i
      /\ \A x \in Command : x # o =>
            refs'[x] = refs[x] /\ class'[x] = class[x] /\ id'[x] = id[x]
  BY NewKeeps
<1>6. /\ \A j \in 1..Len(cmd) : cmd[j].cmd \in Command /\ cmd[j].cmd # o
      /\ \A j \in 1..Len(cmd) : cmd[j].id \in RequestId
      /\ \A j \in 1..Len(event_cb) : event_cb[j].cmd \in Command
      /\ event_cb \in Seq(Handler) /\ cmd \in Seq(Entry) /\ Len(cmd) \in Nat
  BY <1>3, InTypes DEF TInv, InTable, Types
<1>7. /\ todo' \in Seq(Instruction) /\ todo' # <<>>
      /\ todo'[Len(todo')].op = "release"
      /\ \A j \in 1..(Len(todo') - 1) :
            todo'[j].op \in {"ask", "unregister", "unregisterCmd"}
      /\ \A j \in 1..(Len(todo') - 1) : todo'[j] = CancelProgram[c][j]
      /\ Len(todo') = Len(CancelProgram[c]) + 1 /\
           Len(CancelProgram[c]) \in Nat
  <2>1. todo' = StopCall(c)
    BY DEF StopCall
  <2>2. /\ StopCall(c) \in Seq(Instruction) /\ StopCall(c) # <<>>
        /\ StopCall(c)[Len(StopCall(c))].op = "release"
        /\ \A j \in 1..(Len(StopCall(c)) - 1) :
              StopCall(c)[j].op \in {"ask", "unregister", "unregisterCmd"}
        /\ \A j \in 1..(Len(StopCall(c)) - 1) :
              StopCall(c)[j] = CancelProgram[c][j]
        /\ Len(StopCall(c)) = Len(CancelProgram[c]) + 1
        /\ Len(CancelProgram[c]) \in Nat
    BY StopCallFacts, Zenon
  <2>3. QED
    BY <2>1, <2>2, Zenon
<1>8. HandlerTable'
  BY <1>3, <1>5, <1>6 DEF TInv, HandlerTable
<1>9. RttApart'
  BY <1>2, <1>3, <1>5 DEF TInv, RttApart, Types, Threads, InTable
<1>10. Types'
  BY <1>5, <1>6, <1>7 DEF TInv, Types
<1>11. Threads'
  BY <1>2, <1>7 DEF TInv, Threads
<1>12. CmdTable'
  <2>1. \A j \in 1..Len(cmd) : /\ id'[cmd[j].cmd] = id[cmd[j].cmd]
                               /\ class'[cmd[j].cmd] = class[cmd[j].cmd]
    BY <1>5, <1>6
  <2>2. CmdTable /\ cmd' = cmd /\ bad' = bad
    BY DEF TInv
  <2>3. QED
    BY <2>1, <2>2, SameEntries
<1>13. Stopping'
  <2>1. ~InTable(o)'
    BY <1>3 DEF InTable
  <2>2. Ending("release")'
    BY <1>3, <1>7 DEF Ending
  <2>3. ASSUME \E j \in 1..Len(todo') : todo'[j].op = "unregisterCmd"
        PROVE  \A j \in 1..Len(cmd) : cmd[j].id # i
    <3>1. PICK j \in 1..Len(todo') : todo'[j].op = "unregisterCmd"
      BY <2>3
    <3>2. j \in 1..Len(CancelProgram[c]) /\ todo'[j] = CancelProgram[c][j]
      BY <1>7, <3>1
    <3>3. i = AnyId
      BY <3>1, <3>2
    <3>4. QED
      BY <1>6, <3>3, WifiHalAssumption DEF WifiHalAssumption
  <2>4. QED
    BY <1>2, <1>5, <2>1, <2>2, <2>3 DEF Stopping
<1>14. Modes'
  BY <1>5, <1>13 DEF Modes
<1>15. \A x \in Command : Owned(x)' <=> Owned(x) \/ x = o
  BY <1>2 DEF Owned
<1>16. RefsExact'
  BY <1>3, <1>5, <1>15 DEF TInv, RefsExact
<1>17. HandlersOwned'
  <2>1. DOMAIN event_cb = 1..Len(event_cb)
    BY <1>6
  <2>2. QED
    BY <1>6, <1>15, <2>1 DEF TInv, HandlersOwned
<1>18. QED
  BY <1>8, <1>9, <1>10, <1>11, <1>12, <1>14, <1>16, <1>17 DEF TInv

\* The stop calls for "whichever is running" keep the invariant.
LEMMA StopAnyStep ==
    ASSUME TInv, LoopFacts, NEW c \in ClassName, NEW o \in Command, StopAny(c,
             o)
    PROVE  TInv'
<1>1. c \in DOMAIN StartProgram /\ AnyId \in RequestId \cup {AnyId}
  BY ClassesKnown
<1>2. QED
  BY <1>1, FreshStop
     DEF StopAny, loopVars, cleanupVars, handlerVars

\* wifi_rtt_range_cancel keeps the invariant.
LEMMA RttRangeCancelStep ==
    ASSUME TInv, LoopFacts, NEW o \in Command, NEW i \in RequestId,
           RttRangeCancel(o, i)
    PROVE  TInv'
<1>1. "Rtt" \in DOMAIN StartProgram /\ i \in RequestId \cup {AnyId}
  BY DEF StartProgram
<1>2. QED
  BY <1>1, RttPrograms, FreshStop
     DEF RttRangeCancel, loopVars, cleanupVars, handlerVars

\* wifi_cancel_cmd keeps the invariant, if it does not stop an RTT command.
LEMMA StopCommandStep ==
    ASSUME TInv, LoopFacts, Misuse = {}, NEW i \in RequestId, StopCommand(i)
    PROVE  TInv'
<1> DEFINE f == FirstId(i)
           o == cmd[f].cmd
<1>1. /\ ApiIdle /\ ClientMayStop(i) /\ f # 0
      /\ this' = o /\ cmd' = WithoutFirst(i)
      /\ todo' = CancelProgram[class[o]] \o <<Release>>
      /\ UNCHANGED <<event_cb, refs, class, id, bad, num, held, step, loop,
           cleaner>>
  BY DEF StopCommand, loopVars, objVars, cleanupVars, handlerVars
<1>2. /\ todo = <<>> /\ this = NoCommand /\ cleaner = "idle" /\ bad = 0
      /\ NoCommand \notin Command
  BY <1>1, Idle
<1>3. cmd \in Seq(Entry) /\ Len(cmd) \in Nat /\ event_cb \in Seq(Handler)
  BY DEF TInv, Types
<1>4. f \in 1..Len(cmd) /\ cmd[f].id = i
  BY <1>1, <1>3, FirstIdIs
<1> HIDE DEF f
<1>5. /\ \A a, b \in 1..Len(cmd) :
            cmd[a].id = cmd[b].id \/ cmd[a].cmd = cmd[b].cmd => a = b
      /\ \A j \in 1..Len(cmd) :
            id[cmd[j].cmd] = cmd[j].id /\
              class[cmd[j].cmd] \in DOMAIN StartProgram
      /\ \A j \in 1..Len(cmd) : cmd[j].cmd \in Command /\
           cmd[j].id \in RequestId
  BY <1>2, InTypes DEF TInv, CmdTable
<1>6. o \in Command /\ class[o] \in DOMAIN StartProgram /\ id[o] = i
  BY <1>4, <1>5
<1>7. class[o] # "Rtt"
  <2>1. DOMAIN cmd = 1..Len(cmd)
    BY <1>3
  <2>2. QED
    BY <1>1, <1>4, <2>1 DEF ClientMayStop
<1>8. /\ cmd' \in Seq(Entry)
      /\ \A j \in 1..Len(cmd') :
            cmd'[j].id # i /\ \E e \in 1..Len(cmd) : cmd'[j] = cmd[e]
      /\ \A j \in 1..Len(cmd) : cmd[j].id # i =>
            \E e \in 1..Len(cmd') : cmd'[e] = cmd[j]
      /\ \A a, b \in 1..Len(cmd') :
            cmd'[a].id = cmd'[b].id \/ cmd'[a].cmd = cmd'[b].cmd => a = b
  <2> DEFINE t == WithoutFirst(i)
  <2>1. cmd' = t
    BY <1>1
  <2>2. /\ t \in Seq(Entry)
        /\ \A j \in 1..Len(t) :
              t[j].id # i /\ \E e \in 1..Len(cmd) : t[j] = cmd[e]
        /\ \A j \in 1..Len(cmd) : cmd[j].id # i =>
              \E e \in 1..Len(t) : t[e] = cmd[j]
        /\ \A a, b \in 1..Len(t) :
              t[a].id = t[b].id \/ t[a].cmd = t[b].cmd => a = b
    BY <1>3, <1>5, WithoutFirstIs
  <2> HIDE DEF t
  <2>3. QED
    BY <2>1, <2>2
<1>9. \A j \in 1..Len(cmd') : cmd'[j].cmd # o
  BY <1>4, <1>5, <1>8
<1>10. \A j \in 1..Len(cmd) : cmd[j].cmd # o => cmd[j].id # i
  BY <1>4, <1>5
<1>11. /\ todo' \in Seq(Instruction) /\ todo' # <<>>
       /\ todo'[Len(todo')].op = "release"
       /\ \A j \in 1..(Len(todo') - 1) :
             todo'[j].op \in {"ask", "unregister", "unregisterCmd"}
       /\ \A k \in Keys(class[o]) : Undoes(todo', k)
  <2> DEFINE q == CancelProgram[class[o]]
  <2>1. /\ q \in Seq(Instruction)
        /\ \A j \in 1..Len(q) :
              q[j].op \in {"ask", "unregister", "unregisterCmd"}
        /\ \A k \in Keys(class[o]) : Undoes(q, k)
    BY <1>6, CancelFacts
  <2>2. todo' = q \o <<Release>>
    BY <1>1
  <2> HIDE DEF q
  <2>3. QED
    BY <2>1, <2>2, ReleaseLast
<1> HIDE DEF o
<1>12. Types'
  BY <1>1, <1>6, <1>8, <1>11 DEF TInv, Types
<1>13. Threads'
  BY <1>1, <1>2, <1>6, <1>11 DEF TInv, Threads
<1>14. CmdTable'
  BY <1>1, <1>5, <1>8 DEF CmdTable
<1>15. HandlerTable'
  BY <1>1 DEF TInv, HandlerTable
<1>16. \A x : InTable(x)' <=> InTable(x) /\ x # o
  <2>1. ASSUME NEW x, InTable(x)' PROVE InTable(x) /\ x # o
    <3>1. PICK j \in 1..Len(cmd') : cmd'[j].cmd = x
      BY <2>1 DEF InTable
    <3>2. PICK e \in 1..Len(cmd) : cmd'[j] = cmd[e]
      BY <1>8
    <3>3. QED
      BY <1>9, <3>1, <3>2 DEF InTable
  <2>2. ASSUME NEW x, InTable(x), x # o PROVE InTable(x)'
    BY <1>8, <1>10, <2>2 DEF InTable
  <2>3. QED
    BY <2>1, <2>2
<1>17. Stopping'
  <2>1. Ending("release")'
    BY <1>1, <1>11 DEF Ending, TInv, HandlerTable
  <2>2. QED
    BY <1>1, <1>2, <1>6, <1>8, <1>16, <2>1 DEF Stopping
<1>18. Modes'
  BY <1>1, <1>6, <1>17 DEF Modes
<1>19. RttApart'
  BY <1>1, <1>2, <1>7, <1>16 DEF TInv, RttApart
<1>20. \A x \in Command : Owned(x)' <=> Owned(x)
  <2>1. \A x \in Command : Owned(x) <=> InTable(x)
    BY <1>2, <1>3, OwnedIs DEF InTable
  <2>2. \A x \in Command : Owned(x)' <=> InTable(x)' \/ x = o
    <3>1. DOMAIN (cmd') = 1..Len(cmd')
      BY <1>8
    <3>2. QED
      BY <1>1, <1>2, <3>1 DEF Owned, InTable
  <2>3. InTable(o)
    BY <1>4 DEF InTable, o
  <2>4. QED
    BY <1>16, <2>1, <2>2, <2>3
<1>21. RefsExact'
  BY <1>1, <1>20 DEF TInv, RefsExact
<1>22. HandlersOwned'
  BY <1>1, <1>3, <1>20, InTypes, HandlersOwnedIs DEF TInv, HandlersOwned
<1>23. QED
  BY <1>12, <1>13, <1>14, <1>15, <1>18, <1>19, <1>21, <1>22 DEF TInv

-----------------------------------------------------------------------------
(* The steps of a call                                                     *)
\* What is left of a call after its next instruction.
LEMMA Tails ==
    ASSUME todo \in Seq(Instruction), todo # <<>>
    PROVE  /\ Len(todo) \in Nat \ {0}
           /\ Head(todo) = todo[1]
           /\ Tail(todo) \in Seq(Instruction)
           /\ Len(Tail(todo)) = Len(todo) - 1
           /\ \A i \in 1..(Len(todo) - 1) : Tail(todo)[i] = todo[i + 1]
           /\ Tail(todo) = <<>> <=> Len(todo) = 1
<1>1. /\ Len(todo) \in Nat \ {0} /\ Head(todo) = todo[1]
      /\ Tail(todo) \in Seq(Instruction) /\ Len(Tail(todo)) = Len(todo) - 1
      /\ \A i \in 1..(Len(todo) - 1) : Tail(todo)[i] = todo[i + 1]
  OBVIOUS
<1>2. ASSUME NEW s \in Seq(Instruction) PROVE s = <<>> <=> Len(s) = 0
  OBVIOUS
<1>3. Len(Tail(todo)) = 0 <=> Len(todo) = 1
  BY <1>1
<1>4. Tail(todo) = <<>> <=> Len(Tail(todo)) = 0
  BY <1>1, <1>2
<1>5. QED
  BY <1>1, <1>3, <1>4

\* The next instruction tells which call the client's thread is in.
LEMMA ModeOf ==
    ASSUME TInv, todo # <<>>
    PROVE  /\ this \in Command /\ this # NoCommand
           /\ todo[1].op \in {"try", "register"} => Starting
           /\ todo[1].op \in {"ask", "unregister", "unregisterCmd"} =>
                 (Stopping \/ Cleaning) /\ Len(todo) > 1
           /\ todo[1].op = "release" => Stopping /\ Len(todo) = 1
           /\ todo[1].op = "cleanupRelease" => Cleaning /\ Len(todo) = 1
<1>1. /\ this \in Command /\ this # NoCommand
      /\ class[this] \in DOMAIN StartProgram
      /\ Starting \/ Stopping \/ Cleaning
  BY DEF TInv, Types, Threads, Modes
<1>2. todo \in Seq(Instruction) /\ Len(todo) \in Nat \ {0}
  BY Tails DEF TInv, Types
<1>3. CASE Starting
  <2>1. todo[1] = Program[Passed + 1] /\ Passed + 1 \in 1..Len(Program)
    BY <1>2, <1>3 DEF Starting
  <2>2. todo[1].op \in {"try", "register"}
    BY <1>1, <2>1, StartFacts DEF Program
  <2>3. QED
    BY <1>1, <1>3, <2>2
<1>4. CASE Stopping
  <2>1. \/ Len(todo) = 1 /\ todo[1].op = "release"
        \/ Len(todo) > 1 /\ todo[1].op \in {"ask", "unregister",
             "unregisterCmd"}
    <3>1. Len(todo) = 1 \/ (Len(todo) > 1 /\ 1 \in 1..(Len(todo) - 1))
      <4>1. \A n \in Nat \ {0} : n = 1 \/ (n > 1 /\ 1 \in 1..(n - 1))
        OBVIOUS
      <4>2. QED
        BY <1>2, <4>1, Zenon
    <3>0. todo[Len(todo)].op = "release"
      BY <1>4 DEF Stopping, Ending
    <3>2. Len(todo) = 1 => todo[1].op = "release"
      BY <3>0
    <3>3. 1 \in 1..(Len(todo) - 1) =>
             todo[1].op \in {"ask", "unregister", "unregisterCmd"}
      BY <1>4 DEF Stopping, Ending
    <3>4. QED
      BY <3>1, <3>2, <3>3
  <2>2. QED
    BY <1>1, <1>4, <2>1
<1>5. CASE Cleaning
  <2>1. \/ Len(todo) = 1 /\ todo[1].op = "cleanupRelease"
        \/ Len(todo) > 1 /\ todo[1].op \in {"ask", "unregister",
             "unregisterCmd"}
    <3>1. Len(todo) = 1 \/ (Len(todo) > 1 /\ 1 \in 1..(Len(todo) - 1))
      <4>1. \A n \in Nat \ {0} : n = 1 \/ (n > 1 /\ 1 \in 1..(n - 1))
        OBVIOUS
      <4>2. QED
        BY <1>2, <4>1, Zenon
    <3>0. todo[Len(todo)].op = "cleanupRelease"
      BY <1>5 DEF Cleaning, Ending
    <3>2. Len(todo) = 1 => todo[1].op = "cleanupRelease"
      BY <3>0
    <3>3. 1 \in 1..(Len(todo) - 1) =>
             todo[1].op \in {"ask", "unregister", "unregisterCmd"}
      BY <1>5 DEF Cleaning, Ending
    <3>4. QED
      BY <3>1, <3>2, <3>3
  <2>2. QED
    BY <1>1, <1>5, <2>1
<1>6. QED
  BY <1>1, <1>3, <1>4, <1>5

\* An instruction of start() that succeeds.
LEMMA StartAdvances ==
    ASSUME TInv, Starting, todo # <<>>, Continue(Tail(todo)),
           UNCHANGED <<cmd, class, id, cleaner>>,
           \A i \in 1..Len(event_cb') : event_cb'[i].cmd = this =>
               \E j \in 1..(Passed + 1) :
                  Program[j].op = "register" /\
                    Program[j].key = event_cb'[i].key,
           \A i \in 1..Len(event_cb') : \A j \in (Passed + 2)..Len(Program) :
               Program[j].op = "register" => Program[j].key # event_cb'[i].key
    PROVE  /\ Modes' /\ todo' \in Seq(Instruction)
           /\ (todo' = <<>>) <=> (this' = NoCommand)
           /\ this' \in {this, NoCommand}
<1>1. this \in Command /\ this # NoCommand /\
        class[this] \in DOMAIN StartProgram
  BY DEF TInv, Types, Threads, Modes
<1>2. /\ Len(todo) \in Nat \ {0} /\ todo' \in Seq(Instruction)
      /\ Len(todo') = Len(todo) - 1
      /\ \A i \in 1..(Len(todo) - 1) : todo'[i] = todo[i + 1]
      /\ todo' = <<>> <=> Len(todo) = 1
      /\ this' = IF todo' = <<>> THEN NoCommand ELSE this
  BY Tails DEF TInv, Types, Continue
<1>3. CASE todo' = <<>>
  BY <1>2, <1>3 DEF Modes
<1>4. CASE todo' # <<>>
  <2>1. this' = this
    BY <1>2, <1>4
  <2>2. Program' = Program /\ Len(Program) \in Nat
    BY <1>1, <2>1, StartFacts DEF Program
  <2>3. Passed' = Passed + 1 /\ Passed \in 0..(Len(Program) - 1)
    BY <1>2, <2>2 DEF Passed, Starting
  <2>4. Passed' \in 0..(Len(Program) - 1)
    BY <1>2, <1>4, <2>2, <2>3 DEF Passed
  <2>5. \A i \in 1..Len(todo') : todo'[i] = Program[Passed' + i]
    <3> SUFFICES ASSUME NEW i \in 1..Len(todo')
                 PROVE  todo'[i] = Program[Passed' + i]
      OBVIOUS
    <3>1. i + 1 \in 1..Len(todo) /\ todo'[i] = todo[i + 1]
      BY <1>2
    <3>2. todo[i + 1] = Program[Passed + (i + 1)]
      BY <3>1 DEF Starting
    <3>3. Passed + (i + 1) = Passed' + i
      BY <2>2, <2>3
    <3>4. QED
      BY <3>1, <3>2, <3>3
  <2>6. InTable(this)' /\ cleaner' = "idle" /\ class'[this'] \in ClassName
    BY <2>1 DEF Starting, InTable
  <2>7. Starting'
    <3>1. Passed' + 1 = Passed + 2
      BY <2>2, <2>3
    <3>2. QED
      BY <2>1, <2>2, <2>3, <2>4, <2>5, <2>6, <3>1 DEF Starting
  <2>8. QED
    BY <1>1, <1>2, <1>4, <2>1, <2>7 DEF Modes
<1>5. QED
  BY <1>3, <1>4

\* An instruction of a call that takes a command down.
LEMMA EndAdvances ==
    ASSUME TInv, NEW last, Ending(last), Len(todo) > 1, Continue(Tail(todo)),
           \A i \in 1..Len(event_cb') :
               /\ \E j \in 1..Len(event_cb) : event_cb'[i] = event_cb[j]
               /\ todo[1].op = "unregister" => event_cb'[i].key # todo[1].key
    PROVE  /\ Ending(last)' /\ todo' \in Seq(Instruction)
           /\ this' = this /\ todo' # <<>>
           /\ (\E i \in 1..Len(todo) : todo[i].op = "unregisterCmd") <=>
              \/ todo[1].op = "unregisterCmd"
              \/ \E i \in 1..Len(todo') : todo'[i].op = "unregisterCmd"
<1>1. /\ Len(todo) \in Nat \ {0} /\ todo' \in Seq(Instruction)
      /\ Len(todo') = Len(todo) - 1 /\ todo' # <<>>
      /\ \A i \in 1..(Len(todo) - 1) : todo'[i] = todo[i + 1]
      /\ this' = this
  BY Tails DEF TInv, Types, Continue, Ending
<1>2. \A i \in 1..Len(todo) : i = 1 \/ (i - 1 \in 1..Len(todo') /\
        todo'[i - 1] = todo[i])
  BY <1>1
<1>3. \A i \in 1..Len(todo') : i + 1 \in 1..Len(todo) /\ todo'[i] = todo[i + 1]
  BY <1>1
<1>4. todo'[Len(todo')].op = last
  <2>1. Len(todo') \in 1..Len(todo') /\ Len(todo') + 1 = Len(todo)
    BY <1>1
  <2>2. QED
    BY <1>3, <2>1 DEF Ending
<1>5. \A i \in 1..(Len(todo') - 1) :
          todo'[i].op \in {"ask", "unregister", "unregisterCmd"}
  <2> SUFFICES ASSUME NEW i \in 1..(Len(todo') - 1)
               PROVE  todo'[i].op \in {"ask", "unregister", "unregisterCmd"}
    OBVIOUS
  <2>1. i + 1 \in 1..(Len(todo) - 1) /\ todo'[i] = todo[i + 1]
    BY <1>1
  <2>2. QED
    BY <2>1 DEF Ending
<1>6. ASSUME NEW i \in 1..Len(event_cb'), event_cb'[i].cmd = this
      PROVE  Undoes(todo', event_cb'[i].key)
  <2>1. PICK j \in 1..Len(event_cb) : event_cb'[i] = event_cb[j]
    OBVIOUS
  <2>2. PICK n \in 1..Len(todo) :
           todo[n].op = "unregister" /\ todo[n].key = event_cb'[i].key
    BY <1>6, <2>1 DEF Ending, Undoes
  <2>3. n # 1
    BY <2>2
  <2>4. QED
    BY <1>2, <2>2, <2>3, SMTT(40) DEF Undoes
<1>7. Ending(last)'
  BY <1>1, <1>4, <1>5, <1>6 DEF Ending
<1>8. QED
  BY <1>1, <1>2, <1>3, <1>7

\* A command whose start() succeeds passes from the client to the cmd table.
LEMMA OwnerStays ==
    ASSUME TInv, Starting, this' \in {this, NoCommand}, UNCHANGED <<cmd, bad>>
    PROVE  \A x \in Command : Owned(x)' <=> Owned(x)
<1>1. cmd \in Seq(Entry) /\ bad = 0 /\ InTable(this) /\
        NoCommand \notin Command
  BY WifiHalAssumption DEF TInv, Types, Threads, Starting, WifiHalAssumption
<1>2. \A j \in DOMAIN cmd : j > 0
  BY <1>1
<1>3. \E j \in DOMAIN cmd : j > 0 /\ cmd[j].cmd = this
  BY <1>1 DEF InTable
<1>4. QED
  BY <1>1, <1>3 DEF Owned

\* During a callback the loop thread holds a command.
LEMMA HeldIsCommand ==
    ASSUME TInv, step \in {"handler", "rttUnregister", "rttFinish", "release"}
    PROVE  held \in Command /\ held # NoCommand
  BY DEF TInv, Types, Threads

\* A request of start() keeps the invariant, accepted or refused.
LEMMA TryRequestStep ==
    ASSUME TInv, LoopFacts, TryRequest
    PROVE  TInv'
<1>1. /\ todo # <<>> /\ Head(todo).op = "try"
      /\ UNCHANGED <<event_cb, cmd, refs, class, id, bad, num, held, step,
           loop, cleaner>>
  BY DEF TryRequest, At, loopVars, objVars, cleanupVars, handlerVars
<1>2. /\ todo \in Seq(Instruction) /\ Len(todo) \in Nat \ {0}
      /\ todo[1].op = "try"
  BY <1>1, Tails DEF TInv, Types
<1>3. Starting /\ this \in Command /\ this # NoCommand
      /\ class[this] \in DOMAIN StartProgram
  BY <1>1, <1>2, ModeOf DEF TInv, Modes
<1>4. CmdTable' /\ HandlerTable'
  BY <1>1 DEF TInv, CmdTable, HandlerTable
<1>5. ASSUME Modes', todo' \in Seq(Instruction),
             (todo' = <<>>) <=> (this' = NoCommand), this' \in {this,
               NoCommand}
      PROVE  TInv'
  <2>1. Types'
    BY <1>1, <1>5 DEF TInv, Types
  <2>2. Threads'
    BY <1>1, <1>3, <1>5 DEF TInv, Threads, Starting
  <2>3. RttApart'
    BY <1>1, <1>5, HeldIsCommand DEF TInv, RttApart, InTable
  <2>4. \A x \in Command : Owned(x)' <=> Owned(x)
    BY <1>1, <1>3, <1>5, OwnerStays
  <2>5. RefsExact'
    BY <1>1, <2>4 DEF TInv, RefsExact
  <2>6. HandlersOwned'
    <3>1. \A i \in DOMAIN event_cb : event_cb[i].cmd \in Command
      BY InTypes DEF TInv, Types
    <3>2. QED
      BY <1>1, <2>4, <3>1 DEF TInv, HandlersOwned
  <2>7. QED
    BY <1>4, <1>5, <2>1, <2>2, <2>3, <2>5, <2>6 DEF TInv
<1>6. CASE Continue(Tail(todo))
  <2>1. Program[Passed + 1] = todo[1] /\ Passed \in 0..(Len(Program) - 1)
        /\ Len(Program) \in Nat
    BY <1>2, <1>3, StartFacts DEF Starting, Program
  <2>2. \A i \in 1..Len(event_cb') : event_cb'[i].cmd = this =>
            \E j \in 1..(Passed + 1) :
               Program[j].op = "register" /\ Program[j].key = event_cb'[i].key
    <3>1. \A j \in 1..Passed : j \in 1..(Passed + 1)
      BY <2>1
    <3>2. QED
      BY <1>1, <1>3, <3>1 DEF Starting
  <2>3. \A i \in 1..Len(event_cb') : \A j \in (Passed + 2)..Len(Program) :
            Program[j].op = "register" => Program[j].key # event_cb'[i].key
    <3>1. \A j \in (Passed + 2)..Len(Program) :
            j \in (Passed + 1)..Len(Program)
      BY <2>1
    <3>2. QED
      BY <1>1, <1>3, <3>1 DEF Starting
  <2>4. QED
    BY <1>1, <1>3, <1>5, <1>6, <2>2, <2>3, StartAdvances
<1>7. CASE Continue(Head(todo).undo \o <<UnregisterCmd, Release>>)
  <2> DEFINE u == todo[1].undo
             e == <<UnregisterCmd, Release>>
  <2>1. /\ Program[Passed + 1] = todo[1] /\ Passed \in 0..(Len(Program) - 1)
        /\ Len(Program) \in Nat
    BY <1>2, <1>3, StartFacts DEF Starting, Program
  <2>2. /\ u \in Seq(Instruction) /\ OnlyUndoes(u)
        /\ \A j \in 1..Passed :
              Program[j].op = "register" => Undoes(u, Program[j].key)
    <3>1. Passed + 1 \in 1..Len(Program) /\ Program[Passed + 1].op = "try"
      BY <1>2, <2>1
    <3>2. (Passed + 1) - 1 = Passed
      BY <2>1
    <3>3. QED
      BY <1>3, <2>1, <3>1, <3>2, StartFacts DEF Program
  <2>3. /\ e \in Seq(Instruction) /\ Len(e) = 2 /\ e[1].op = "unregisterCmd"
        /\ e[2].op = "release"
    BY SingleTyping, SingleFields
  <2>4. todo' = u \o e
    BY <1>1, <1>2, <1>7, Tails DEF Continue
  <2> HIDE DEF u, e
  <2>5. /\ todo' \in Seq(Instruction) /\ Len(todo') = Len(u) + 2
        /\ Len(u) \in Nat
        /\ \A i \in 1..Len(u) : todo'[i] = u[i]
        /\ todo'[Len(u) + 1] = e[1] /\ todo'[Len(u) + 2] = e[2]
    <3>1. /\ todo' \in Seq(Instruction) /\ Len(todo') = Len(u) + Len(e)
          /\ \A i \in 1..Len(u) : todo'[i] = u[i]
          /\ \A i \in 1..Len(e) : todo'[Len(u) + i] = e[i]
      <4>1. u \in Seq(Instruction) /\ e \in Seq(Instruction)
        BY <2>2, <2>3
      <4>2. /\ u \o e \in Seq(Instruction) /\ Len(u \o e) = Len(u) + Len(e)
            /\ \A i \in 1..Len(u) : (u \o e)[i] = u[i]
            /\ \A i \in 1..Len(e) : (u \o e)[Len(u) + i] = e[i]
        BY <4>1, Concat
      <4>3. QED
        BY <2>4, <4>2
    <3>2. Len(u) \in Nat /\ 1 \in 1..Len(e) /\ 2 \in 1..Len(e)
      BY <2>2, <2>3
    <3>3. QED
      BY <2>3, <3>1, <3>2
  <2>6. todo' # <<>> /\ this' = this
    <3>1. todo' # <<>>
      BY <2>5
    <3>2. QED
      BY <1>1, <1>2, <1>7, <2>4, <3>1 DEF Continue
  <2>7. Ending("release")'
    <3>1. todo'[Len(todo')].op = "release"
      BY <2>3, <2>5
    <3>2. \A i \in 1..(Len(todo') - 1) : i \in 1..Len(u) \/ i = Len(u) + 1
      BY <2>5
    <3>3. \A i \in 1..(Len(todo') - 1) :
              todo'[i].op \in {"ask", "unregister", "unregisterCmd"}
      BY <2>2, <2>3, <2>5, <3>2 DEF OnlyUndoes
    <3>4. ASSUME NEW i \in 1..Len(event_cb), event_cb[i].cmd = this
          PROVE  Undoes(todo', event_cb[i].key)
      <4>1. Undoes(u, event_cb[i].key)
        BY <1>3, <2>2, <3>4 DEF Starting
      <4>2. PICK j \in 1..Len(u) : u[j].op = "unregister" /\
              u[j].key = event_cb[i].key
        BY <4>1 DEF Undoes
      <4>3. j \in 1..Len(todo') /\ todo'[j] = u[j]
        BY <2>5
      <4>4. QED
        BY <4>2, <4>3 DEF Undoes
    <3>5. QED
      BY <1>1, <2>6, <3>1, <3>3, <3>4 DEF Ending
  <2>8. Stopping'
    <3>1. ASSUME NEW j \in 1..Len(cmd), cmd[j].id = id[this]
          PROVE  cmd[j].cmd = this
      <4>1. PICK n \in 1..Len(cmd) : cmd[n].cmd = this
        BY <1>3 DEF Starting, InTable
      <4>2. n > bad
        BY <1>3, <4>1 DEF Starting, TInv, Threads
      <4>3. id[this] = cmd[n].id
        BY <4>1, <4>2 DEF TInv, CmdTable
      <4>4. QED
        BY <3>1, <4>1, <4>3 DEF TInv, CmdTable
    <3>2. Len(u) + 1 \in 1..Len(todo') /\
            todo'[Len(u) + 1].op = "unregisterCmd"
      BY <2>3, <2>5
    <3>3. cleaner' = "idle"
      BY <1>1, <1>3 DEF Starting
    <3>4. QED
      BY <1>1, <2>6, <2>7, <3>1, <3>2, <3>3 DEF Stopping
  <2>9. Modes'
    BY <1>1, <1>3, <2>6, <2>8 DEF Modes
  <2>10. QED
    BY <1>3, <1>5, <2>5, <2>6, <2>9
<1>8. QED
  BY <1>6, <1>7 DEF TryRequest

\* A handler table that only lost entries.
Shrinks ==
    /\ event_cb' \in Seq(Handler)
    /\ \A i \in 1..Len(event_cb') :
          \E j \in 1..Len(event_cb) : event_cb'[i] = event_cb[j]
    /\ \A i, j \in 1..Len(event_cb') :
          event_cb'[i].key = event_cb'[j].key => i = j

\* Taking handlers out leaves none without a command.
LEMMA ShrinkKeeps ==
    ASSUME TInv, Shrinks, UNCHANGED <<cmd, class, this, bad>>
    PROVE  HandlerTable' /\ HandlersOwned'
<1>1. HandlerTable'
  BY DEF TInv, HandlerTable, Shrinks
<1>2. event_cb \in Seq(Handler)
  BY DEF TInv, Types
<1>3. \A i \in 1..Len(event_cb') : Owned(event_cb'[i].cmd)
  BY <1>2, HandlersOwnedIs DEF TInv, Shrinks
<1>4. DOMAIN (event_cb') = 1..Len(event_cb')
  BY DEF Shrinks
<1>5. HandlersOwned'
  BY <1>3, <1>4 DEF HandlersOwned, Owned
<1>6. QED
  BY <1>1, <1>5

\* A request or an unregistering of a call that takes a command down.
LEMMA EndingStep ==
    ASSUME TInv, LoopFacts, todo # <<>>, todo[1].op \in {"ask", "unregister"},
           Continue(Tail(todo)), Shrinks,
           \A i \in 1..Len(event_cb') :
              todo[1].op = "unregister" => event_cb'[i].key # todo[1].key,
           UNCHANGED <<cmd, refs, class, id, bad, num, held, step, loop,
             cleaner>>
    PROVE  TInv'
<1>1. /\ this \in Command /\ this # NoCommand /\ Len(todo) > 1
      /\ Stopping \/ Cleaning
  BY ModeOf
<1>2. ASSUME NEW last, Ending(last)
      PROVE  /\ Ending(last)' /\ todo' \in Seq(Instruction)
             /\ this' = this /\ todo' # <<>>
             /\ (\E i \in 1..Len(todo) : todo[i].op = "unregisterCmd") <=>
                \E i \in 1..Len(todo') : todo'[i].op = "unregisterCmd"
  BY <1>1, <1>2, EndAdvances DEF Shrinks
<1>3. /\ todo' \in Seq(Instruction) /\ todo' # <<>> /\ this' = this
      /\ Stopping' \/ Cleaning'
  <2>1. CASE Stopping
    <3>1. /\ Ending("release")' /\ todo' \in Seq(Instruction)
          /\ this' = this /\ todo' # <<>>
          /\ (\E i \in 1..Len(todo) : todo[i].op = "unregisterCmd") <=>
             \E i \in 1..Len(todo') : todo'[i].op = "unregisterCmd"
      BY <1>2, <2>1 DEF Stopping
    <3>2. Stopping'
      BY <2>1, <3>1 DEF Stopping, InTable
    <3>3. QED
      BY <3>1, <3>2
  <2>2. CASE Cleaning
    <3>1. /\ Ending("cleanupRelease")' /\ todo' \in Seq(Instruction)
          /\ this' = this /\ todo' # <<>>
      BY <1>2, <2>2 DEF Cleaning
    <3>2. Cleaning'
      BY <2>2, <3>1 DEF Cleaning
    <3>3. QED
      BY <3>1, <3>2
  <2>3. QED
    BY <1>1, <2>1, <2>2
<1>4. Modes'
  BY <1>1, <1>3 DEF TInv, Modes
<1>5. HandlerTable' /\ HandlersOwned'
  BY <1>3, ShrinkKeeps
<1>6. Types'
  BY <1>3 DEF TInv, Types, Shrinks
<1>7. Threads'
  BY <1>1, <1>3 DEF TInv, Threads
<1>8. CmdTable'
  BY DEF TInv, CmdTable
<1>9. RttApart'
  BY <1>3 DEF TInv, RttApart, InTable, Shrinks
<1>10. RefsExact'
  BY <1>3 DEF TInv, RefsExact, Owned
<1>11. QED
  BY <1>4, <1>5, <1>6, <1>7, <1>8, <1>9, <1>10 DEF TInv

\* A request whose failure changes nothing keeps the invariant.
LEMMA AskRequestStep ==
    ASSUME TInv, LoopFacts, AskRequest
    PROVE  TInv'
<1>1. todo # <<>> /\ Head(todo).op = "ask" /\ todo \in Seq(Instruction)
  BY DEF AskRequest, At, TInv, Types
<1>2. todo[1].op = "ask"
  BY <1>1, Tails
<1>3. Shrinks
  BY DEF AskRequest, Shrinks, TInv, Types, HandlerTable
<1>4. QED
  BY <1>1, <1>2, <1>3, EndingStep
     DEF AskRequest, loopVars, objVars, cleanupVars, handlerVars

\* wifi_unregister_vendor_handler keeps the invariant.
LEMMA DoUnregisterStep ==
    ASSUME TInv, LoopFacts, DoUnregister
    PROVE  TInv'
<1>1. todo # <<>> /\ Head(todo).op = "unregister" /\ todo \in Seq(Instruction)
  BY DEF DoUnregister, At, TInv, Types
<1>2. todo[1].op = "unregister" /\ Head(todo) = todo[1]
  BY <1>1, Tails
<1>3. Shrinks /\ \A i \in 1..Len(event_cb') : event_cb'[i].key # todo[1].key
  <2> DEFINE k == todo[1].key
  <2>1. /\ event_cb \in Seq(Handler)
        /\ \A i, j \in 1..Len(event_cb) :
              event_cb[i].key = event_cb[j].key => i = j
    BY DEF TInv, Types, HandlerTable
  <2>2. UnregisterVendorHandler(k)
    BY <1>2 DEF DoUnregister
  <2> HIDE DEF k
  <2>3. /\ event_cb' \in Seq(Handler)
        /\ \A i \in 1..Len(event_cb') :
              /\ event_cb'[i].key # k
              /\ \E j \in 1..Len(event_cb) : event_cb'[i] = event_cb[j]
        /\ \A i, j \in 1..Len(event_cb') :
              event_cb'[i].key = event_cb'[j].key => i = j
    BY <2>1, <2>2, UnregisterIsPrecise
  <2>4. QED
    BY <2>3 DEF Shrinks, k
<1>4. QED
  BY <1>1, <1>2, <1>3, EndingStep
     DEF DoUnregister, loopVars, objVars, cleanupVars, handlerVars

\* wifi_register_vendor_handler keeps the invariant, with the table full too.
LEMMA DoRegisterStep ==
    ASSUME TInv, LoopFacts, DoRegister
    PROVE  TInv'
<1>1. /\ todo # <<>> /\ Head(todo).op = "register"
      /\ RegisterVendorHandler(Head(todo).key, this) /\ Continue(Tail(todo))
      /\ UNCHANGED <<cmd, refs, class, id, bad, num, held, step, loop,
           cleaner>>
  BY DEF DoRegister, At, loopVars, objVars, cleanupVars, handlerVars
<1>2. /\ todo \in Seq(Instruction) /\ Len(todo) \in Nat \ {0}
      /\ Head(todo) = todo[1] /\ todo[1].op = "register"
      /\ event_cb \in Seq(Handler) /\ Len(event_cb) \in Nat
  BY <1>1, Tails DEF TInv, Types
<1>3. /\ Starting /\ this \in Command /\ this # NoCommand
      /\ class[this] \in DOMAIN StartProgram
  BY <1>1, <1>2, ModeOf DEF TInv, Modes
<1> DEFINE k == todo[1].key
           h == [key |-> k, cmd |-> this]
<1>4. /\ Program[Passed + 1] = todo[1] /\ Passed \in 0..(Len(Program) - 1)
      /\ Len(Program) \in Nat /\ Passed + 1 \in 1..Len(Program)
  BY <1>2, <1>3, StartFacts DEF Starting, Program
<1>5. k \in Keys(class[this]) /\ k \in Event
  <2>1. k \in Keys(class[this])
    BY <1>2, <1>3, <1>4, StartFacts DEF Program
  <2>2. QED
    BY <1>3, <2>1 DEF Event, Starting
<1>6. h \in Handler /\ h.key = k /\ h.cmd = this
  BY <1>3, <1>5 DEF Handler
<1>7. \A i \in 1..Len(event_cb) : event_cb[i].key # k
  <2>1. Passed + 1 \in (Passed + 1)..Len(Program)
    BY <1>4
  <2>2. QED
    BY <1>2, <1>3, <1>4, <2>1, ZenonT(40) DEF Starting
<1>8. event_cb' = event_cb \/ event_cb' = Append(event_cb, h)
  BY <1>1, <1>2 DEF RegisterVendorHandler
<1> HIDE DEF h, k
<1>9. /\ event_cb' \in Seq(Handler)
      /\ \A i \in 1..Len(event_cb') :
            \/ i \in 1..Len(event_cb) /\ event_cb'[i] = event_cb[i]
            \/ i = Len(event_cb) + 1 /\ event_cb'[i] = h
  <2>1. CASE event_cb' = event_cb
    BY <1>2, <2>1
  <2>2. CASE event_cb' = Append(event_cb, h)
    BY <1>2, <1>6, <2>2
  <2>3. QED
    BY <1>8, <2>1, <2>2
<1>10. \A i \in 1..Len(event_cb') : event_cb'[i].cmd = this =>
          \E j \in 1..(Passed + 1) :
             Program[j].op = "register" /\ Program[j].key = event_cb'[i].key
  <2>1. \A j \in 1..Passed : j \in 1..(Passed + 1)
    BY <1>4
  <2>2. Passed + 1 \in 1..(Passed + 1)
    BY <1>4
  <2>3. Program[Passed + 1].op = "register" /\ Program[Passed + 1].key = h.key
    BY <1>2, <1>4, <1>6 DEF k
  <2>4. \A i \in 1..Len(event_cb) : event_cb[i].cmd = this =>
          \E j \in 1..(Passed + 1) :
             Program[j].op = "register" /\ Program[j].key = event_cb[i].key
    BY <1>3, <2>1 DEF Starting
  <2>5. QED
    BY <1>9, <2>2, <2>3, <2>4
<1>11. \A i \in 1..Len(event_cb') : \A j \in (Passed + 2)..Len(Program) :
          Program[j].op = "register" => Program[j].key # event_cb'[i].key
  <2> SUFFICES ASSUME NEW i \in 1..Len(event_cb'),
                      NEW j \in (Passed + 2)..Len(Program),
                      Program[j].op = "register"
               PROVE  Program[j].key # event_cb'[i].key
    OBVIOUS
  <2>1. /\ j \in (Passed + 1)..Len(Program) /\ j \in 1..Len(Program)
        /\ j # Passed + 1
    BY <1>4
  <2>2. CASE i \in 1..Len(event_cb) /\ event_cb'[i] = event_cb[i]
    BY <1>3, <2>1, <2>2 DEF Starting
  <2>3. CASE event_cb'[i] = h
    <3>1. Program[Passed + 1].op = "register" /\
            Program[Passed + 1].key = h.key
      BY <1>2, <1>4, <1>6 DEF k
    <3>2. Program[j].key # Program[Passed + 1].key
      BY <1>3, <1>4, <2>1, <3>1, StartFacts DEF Program
    <3>3. QED
      BY <2>3, <3>1, <3>2
  <2>4. QED
    BY <1>9, <2>2, <2>3
<1>12. /\ Modes' /\ todo' \in Seq(Instruction)
       /\ (todo' = <<>>) <=> (this' = NoCommand)
       /\ this' \in {this, NoCommand}
  BY <1>1, <1>3, <1>10, <1>11, StartAdvances
<1>13. Types'
  BY <1>1, <1>9, <1>12 DEF TInv, Types
<1>14. Threads'
  BY <1>1, <1>3, <1>12 DEF TInv, Threads, Starting
<1>15. CmdTable'
  BY <1>1 DEF TInv, CmdTable
<1>16. HandlerTable'
  <2>1. \A i, j \in 1..Len(event_cb') :
            event_cb'[i].key = event_cb'[j].key => i = j
    BY <1>6, <1>7, <1>9 DEF TInv, HandlerTable
  <2>2. \A i \in 1..Len(event_cb') :
            /\ class[event_cb'[i].cmd] \in DOMAIN StartProgram
            /\ event_cb'[i].key \in Keys(class[event_cb'[i].cmd])
    BY <1>3, <1>5, <1>6, <1>9 DEF TInv, HandlerTable
  <2>3. QED
    BY <1>1, <2>1, <2>2 DEF HandlerTable
<1>17. RttApart'
  <2>1. class[this] = "Rtt" => this' = NoCommand
    <3>1. ASSUME class[this] = "Rtt" PROVE Passed + 1 = Len(Program)
      <4>1. Program = StartProgram["Rtt"]
        BY <3>1 DEF Program
      <4>2. Program[Passed + 1].op = "register"
        BY <1>2, <1>4
      <4>3. \A i \in 1..Len(Program) : Program[i].op = "register" =>
              i = Len(Program)
        BY <4>1, RttPrograms
      <4>4. QED
        BY <1>4, <4>2, <4>3
    <3>2. ASSUME class[this] = "Rtt" PROVE Len(todo) = 1
      <4>1. Passed + 1 = Len(Program)
        BY <3>1, <3>2
      <4>2. Passed = Len(Program) - Len(todo)
        BY DEF Passed
      <4>3. Len(todo) \in Nat /\ Len(Program) \in Nat
        BY <1>2, <1>4
      <4>4. \A p, n, t \in Nat : p + 1 = n /\ p = n - t => t = 1
        OBVIOUS
      <4>5. Passed \in Nat
        BY <1>4
      <4> QED
        BY <4>1, <4>2, <4>3, <4>4, <4>5, Zenon
    <3>3. QED
      BY <1>1, <1>2, <3>2, Tails DEF Continue
  <2>2. step \in {"handler", "rttUnregister", "rttFinish"} =>
            held \in Command /\ held # NoCommand
    BY HeldIsCommand
  <2>3. step = "rttFinish" => this # held
    BY DEF TInv, RttApart
  <2>4. \A x : InTable(x)' <=> InTable(x)
    BY <1>1 DEF InTable
  <2>5. step = "rttFinish" => \A i \in 1..Len(event_cb') :
          event_cb'[i].cmd # held
    BY <1>6, <1>9, <2>3 DEF TInv, RttApart
  <2>6. (cleaner' = "idle" /\ this' # NoCommand /\ class'[this'] = "Rtt") =>
          FALSE
    BY <1>1, <1>12, <2>1
  <2>7. step \in {"rttUnregister", "rttFinish"} => class[held] = "Rtt"
    BY DEF TInv, RttApart
  <2>8. (step \in {"handler", "rttUnregister", "rttFinish"} /\
          class[held] = "Rtt")
              => this' # held /\ InTable(held)
    BY <1>12, <2>2 DEF TInv, RttApart
  <2>9. (InTable(held))' <=> InTable(held)
    BY <1>1 DEF InTable
  <2>10. /\ step' = step /\ held' = held /\ class' = class
    BY <1>1
  <2>11. QED
    BY <2>5, <2>6, <2>7, <2>8, <2>9, <2>10 DEF RttApart
<1>18. \A x \in Command : Owned(x)' <=> Owned(x)
  BY <1>1, <1>3, <1>12, OwnerStays
<1>19. RefsExact'
  BY <1>1, <1>18 DEF TInv, RefsExact
<1>20. HandlersOwned'
  <2>1. DOMAIN (event_cb') = 1..Len(event_cb')
    BY <1>9
  <2>2. \A i \in 1..Len(event_cb) : event_cb[i].cmd \in Command /\
          Owned(event_cb[i].cmd)
    BY <1>2, InTypes, HandlersOwnedIs DEF TInv
  <2>3. Owned(this)
    BY DEF Owned
  <2>4. QED
    BY <1>3, <1>6, <1>9, <1>18, <2>1, <2>2, <2>3 DEF HandlersOwned
<1>21. QED
  BY <1>12, <1>13, <1>14, <1>15, <1>16, <1>17, <1>19, <1>20 DEF TInv

\* wifi_unregister_cmd takes out the command of the call and no other; in
\* wifi_cleanup that is the one after the bad ones.
LEMMA TakenOut ==
    ASSUME TInv, LoopFacts, DoUnregisterCmd
    PROVE  /\ cmd' \in Seq(Entry)
           /\ Len(cmd') <= Len(cmd)
           /\ CmdTable'
           /\ \A x : Owned(x)' <=> Owned(x)
           /\ Stopping' \/ Cleaning'
           /\ todo' \in Seq(Instruction) /\ todo' # <<>> /\ this' = this
           /\ \A x : x # this /\ InTable(x) => (InTable(x))' \/
                cleaner = "cancel"
<1>1. /\ todo # <<>> /\ Head(todo).op = "unregisterCmd"
      /\ cmd' = WithoutFirst(id[this]) /\ Continue(Tail(todo))
      /\ UNCHANGED <<event_cb, refs, class, id, bad, num, held, step, loop,
           cleaner>>
  BY DEF DoUnregisterCmd, At, loopVars, objVars, cleanupVars, handlerVars
<1>2. /\ todo \in Seq(Instruction) /\ todo[1].op = "unregisterCmd"
      /\ cmd \in Seq(Entry) /\ Len(cmd) \in Nat /\ bad \in Nat
  BY <1>1, Tails DEF TInv, Types
<1>3. /\ this \in Command /\ this # NoCommand /\ Len(todo) > 1
      /\ Stopping \/ Cleaning
  BY <1>1, <1>2, ModeOf
<1>4. ASSUME NEW last, Ending(last)
      PROVE  /\ Ending(last)' /\ todo' \in Seq(Instruction)
             /\ this' = this /\ todo' # <<>>
  <2>1. \A i \in 1..Len(event_cb') :
           /\ \E j \in 1..Len(event_cb) : event_cb'[i] = event_cb[j]
           /\ todo[1].op = "unregister" => event_cb'[i].key # todo[1].key
    BY <1>1, <1>2
  <2>2. QED
    BY <1>1, <1>3, <1>4, <2>1, EndAdvances
<1> DEFINE k == id[this]
<1>5. \A i, j \in 1..Len(cmd) :
         cmd[i].id = cmd[j].id \/ cmd[i].cmd = cmd[j].cmd => i = j
  BY DEF TInv, CmdTable
<1>6. /\ cmd' \in Seq(Entry)
      /\ Len(cmd') <= Len(cmd)
      /\ \A i \in 1..Len(cmd') :
            cmd'[i].id # k /\ \E j \in 1..Len(cmd) : cmd'[i] = cmd[j]
      /\ \A j \in 1..Len(cmd) : cmd[j].id # k =>
            \E i \in 1..Len(cmd') : cmd'[i] = cmd[j]
      /\ \A i, j \in 1..Len(cmd') :
            cmd'[i].id = cmd'[j].id \/ cmd'[i].cmd = cmd'[j].cmd => i = j
      /\ \A f \in 1..Len(cmd) : cmd[f].id = k =>
            /\ Len(cmd') = Len(cmd) - 1
            /\ \A i \in 1..Len(cmd') :
                 cmd'[i] = IF i < f THEN cmd[i] ELSE cmd[i + 1]
      /\ (\A j \in 1..Len(cmd) : cmd[j].id # k) => cmd' = cmd
  <2> DEFINE t == WithoutFirst(k)
  <2>1. /\ t \in Seq(Entry)
        /\ Len(t) <= Len(cmd)
        /\ \A i \in 1..Len(t) :
              t[i].id # k /\ \E j \in 1..Len(cmd) : t[i] = cmd[j]
        /\ \A j \in 1..Len(cmd) : cmd[j].id # k =>
              \E i \in 1..Len(t) : t[i] = cmd[j]
        /\ \A i, j \in 1..Len(t) :
              t[i].id = t[j].id \/ t[i].cmd = t[j].cmd => i = j
        /\ \A f \in 1..Len(cmd) : cmd[f].id = k =>
              /\ Len(t) = Len(cmd) - 1
              /\ \A i \in 1..Len(t) :
                   t[i] = IF i < f THEN cmd[i] ELSE cmd[i + 1]
        /\ (\A j \in 1..Len(cmd) : cmd[j].id # k) => t = cmd
    <3> HIDE DEF k
    <3> QED
      BY <1>2, <1>5, WithoutFirstIs, Zenon
  <2>2. cmd' = t
    BY <1>1
  <2> HIDE DEF t, k
  <2>3. QED
    BY <2>1, <2>2
<1> HIDE DEF k
<1>61. \A i \in 1..Len(cmd') : cmd'[i].id # k
  BY <1>6
<1>62. \A i \in 1..Len(cmd') : \E j \in 1..Len(cmd) : cmd'[i] = cmd[j]
  BY <1>6
<1>63. \A j \in 1..Len(cmd) : cmd[j].id # k => \E i \in 1..Len(cmd') :
         cmd'[i] = cmd[j]
  BY <1>6
<1>7. DOMAIN cmd = 1..Len(cmd) /\ DOMAIN (cmd') = 1..Len(cmd') /\
        Len(cmd') \in Nat
  BY <1>2, <1>6
<1>8. \A j \in 1..Len(cmd) : j > bad =>
          /\ id[cmd[j].cmd] = cmd[j].id
          /\ class[cmd[j].cmd] \in DOMAIN StartProgram
  BY DEF TInv, CmdTable
<1>9. CASE Stopping
  <2>1. /\ Ending("release")' /\ todo' \in Seq(Instruction)
        /\ this' = this /\ todo' # <<>>
    BY <1>4, <1>9 DEF Stopping
  <2>2. cleaner = "idle" /\ bad = 0
    BY <1>9 DEF Stopping, TInv, Threads
  <2>3. \A j \in 1..Len(cmd) : cmd[j].id = k => cmd[j].cmd = this
    <3>1. 1 \in 1..Len(todo)
      BY <1>2, <1>3
    <3>2. QED
      BY <1>2, <1>9, <3>1 DEF Stopping, k
  <2>4. \A j \in 1..Len(cmd) : cmd[j].cmd = this => cmd[j].id = k
    BY <1>2, <1>8, <2>2 DEF k
  <2>5. \A j \in 1..Len(cmd') : cmd'[j].cmd # this /\ cmd'[j].id # k
    BY <1>6, <2>4, SMTT(40)
  <2>6. Stopping'
    <3>1. id'[this'] = k
      BY <1>1, <2>1 DEF k
    <3>2. QED
      BY <1>1, <2>1, <2>2, <2>5, <3>1 DEF Stopping, InTable
  <2>7. \A j \in 1..Len(cmd') : j > bad /\ \A i \in 1..Len(cmd) : i > bad
    BY <1>2, <1>7, <2>2
  <2>8. CmdTable'
    <3>1. \A j \in 1..Len(cmd') :
             /\ id[cmd'[j].cmd] = cmd'[j].id
             /\ class[cmd'[j].cmd] \in DOMAIN StartProgram
      BY <1>6, <1>8, <2>7, SMTT(40)
    <3>2. QED
      BY <1>1, <1>6, <3>1 DEF CmdTable
  <2>9. ASSUME NEW x PROVE Owned(x)' <=> Owned(x)
    <3>1. Owned(x) <=> \/ \E j \in 1..Len(cmd) : cmd[j].cmd = x
                       \/ this = x
      BY <1>7, <2>7, <2>2 DEF Owned
    <3>2. Owned(x)' <=> \/ \E j \in 1..Len(cmd') : cmd'[j].cmd = x
                        \/ this = x
      BY <1>1, <1>7, <2>1, <2>7 DEF Owned
    <3>3. QED
      BY <1>62, <1>63, <2>3, <3>1, <3>2, ZenonT(40)
  <2>10. ASSUME NEW x, x # this, InTable(x) PROVE (InTable(x))'
    BY <1>63, <2>3, <2>10 DEF InTable
  <2>11. QED
    BY <1>6, <2>1, <2>6, <2>8, <2>9, <2>10
<1>10. CASE Cleaning
  <2>1. /\ Ending("cleanupRelease")' /\ todo' \in Seq(Instruction)
        /\ this' = this /\ todo' # <<>>
    BY <1>4, <1>10 DEF Cleaning
  <2>2. cleaner = "cancel"
    BY <1>10 DEF Cleaning
  <2>3. CASE Len(cmd) = num /\ bad < num /\ cmd[bad + 1].cmd = this
    <3>1. bad + 1 \in 1..Len(cmd) /\ bad + 1 > bad
      BY <1>2, <2>3
    <3>2. cmd[bad + 1].id = k
      BY <1>8, <2>3, <3>1 DEF k
    <3>3. /\ Len(cmd') = Len(cmd) - 1
          /\ \A i \in 1..Len(cmd') :
                cmd'[i] = IF i < bad + 1 THEN cmd[i] ELSE cmd[i + 1]
      BY <1>6, <3>1, <3>2
    <3>4. \A j \in 1..Len(cmd) : cmd[j].cmd = this => j = bad + 1
      BY <1>5, <2>3, <3>1
    <3>5. \A i \in 1..Len(cmd') : i < bad + 1 =>
             cmd'[i] = cmd[i] /\ i \in 1..Len(cmd) /\ i # bad + 1
      BY <1>2, <3>3
    <3>6. \A i \in 1..Len(cmd') : i > bad =>
             /\ cmd'[i] = cmd[i + 1] /\ i + 1 \in 1..Len(cmd)
             /\ i + 1 > bad /\ i + 1 # bad + 1
      BY <1>2, <3>3
    <3>7. \A i \in 1..Len(cmd') : i < bad + 1 \/ i > bad
      BY <1>2
    <3>8. \A j \in 1..Len(cmd') : cmd'[j].cmd # this /\ cmd'[j].id # k
      BY <1>61, <3>4, <3>5, <3>6, <3>7
    <3>9. Cleaning'
      <4>1. id'[this'] = k
        BY <1>1, <2>1 DEF k
      <4>2. num' = num /\ cleaner' = cleaner
        BY <1>1
      <4>3. Len(cmd') = num' - 1
        BY <2>3, <3>3, <4>2
      <4>4. QED
        BY <2>1, <2>2, <3>8, <4>1, <4>2, <4>3 DEF Cleaning
    <3>10. CmdTable'
      <4>1. \A j \in 1..Len(cmd') : j > bad =>
               /\ id[cmd'[j].cmd] = cmd'[j].id
               /\ class[cmd'[j].cmd] \in DOMAIN StartProgram
        BY <1>8, <3>6
      <4>2. QED
        BY <1>1, <1>6, <4>1 DEF CmdTable
    <3>11. ASSUME NEW x PROVE Owned(x)' <=> Owned(x)
      <4>1. \A j \in 1..Len(cmd) : j > bad /\ j # bad + 1 =>
               /\ j - 1 \in 1..Len(cmd') /\ j - 1 > bad
               /\ cmd'[j - 1] = cmd[j]
        BY <1>2, <3>3
      <4>2. (\E j \in 1..Len(cmd) : j > bad /\ cmd[j].cmd = x) /\ x # this
            => \E j \in 1..Len(cmd') : j > bad /\ cmd'[j].cmd = x
        BY <2>3, <4>1
      <4>3. (\E j \in 1..Len(cmd') : j > bad /\ cmd'[j].cmd = x)
            => \E j \in 1..Len(cmd) : j > bad /\ cmd[j].cmd = x
        BY <3>6
      <4>4. QED
        BY <1>1, <1>7, <2>1, <4>2, <4>3 DEF Owned
    <3>12. QED
      BY <1>6, <2>1, <2>2, <3>9, <3>10, <3>11
  <2>4. CASE /\ Len(cmd) = num - 1
             /\ \A j \in 1..Len(cmd) : cmd[j].cmd # this /\
                  cmd[j].id # id[this]
    <3>1. cmd' = cmd
      BY <1>6, <2>4 DEF k
    <3>2. Cleaning'
      BY <1>1, <2>1, <2>2, <2>4, <3>1 DEF Cleaning
    <3>3. CmdTable'
      BY <1>1, <3>1 DEF CmdTable, TInv
    <3>4. \A x : Owned(x)' <=> Owned(x)
      BY <1>1, <2>1, <3>1 DEF Owned
    <3>5. QED
      BY <1>6, <2>1, <2>2, <3>2, <3>3, <3>4
  <2>5. QED
    BY <1>10, <2>3, <2>4 DEF Cleaning
<1>11. QED
  BY <1>3, <1>9, <1>10

\* wifi_unregister_cmd keeps the invariant.
LEMMA DoUnregisterCmdStep ==
    ASSUME TInv, LoopFacts, DoUnregisterCmd
    PROVE  TInv'
<1>1. UNCHANGED <<event_cb, refs, class, id, bad, num, held, step, loop,
        cleaner>>
  BY DEF DoUnregisterCmd, loopVars, objVars, cleanupVars, handlerVars
<1>2. /\ cmd' \in Seq(Entry)
      /\ Len(cmd') <= Len(cmd)
      /\ CmdTable'
      /\ \A x : Owned(x)' <=> Owned(x)
      /\ Stopping' \/ Cleaning'
      /\ todo' \in Seq(Instruction) /\ todo' # <<>> /\ this' = this
      /\ \A x : x # this /\ InTable(x) => (InTable(x))' \/ cleaner = "cancel"
  BY TakenOut
<1>3. todo # <<>> /\ this \in Command /\ this # NoCommand
  BY ModeOf DEF DoUnregisterCmd, At
<1>4. Types'
  BY <1>1, <1>2 DEF TInv, Types
<1>5. Threads'
  <2>1. cleaner \in {"idle", "cancel"}
    BY <1>3 DEF TInv, Threads
  <2>2. QED
    BY <1>1, <1>2, <1>3, <2>1 DEF TInv, Threads
<1>6. HandlerTable'
  BY <1>1 DEF TInv, HandlerTable
<1>7. Modes'
  BY <1>1, <1>2, <1>3 DEF TInv, Modes
<1>8. RttApart'
  <2>1. step \in {"rttUnregister", "rttFinish"} => class[held] = "Rtt"
    BY DEF TInv, RttApart
  <2>2. step \in {"handler", "rttUnregister", "rttFinish"} =>
          cleaner # "cancel"
    BY DEF TInv, Threads, LoopFacts
  <2>3. (step \in {"handler", "rttUnregister", "rttFinish"} /\
          class[held] = "Rtt")
             => this # held /\ InTable(held)'
    <3> SUFFICES ASSUME step \in {"handler", "rttUnregister", "rttFinish"},
                        class[held] = "Rtt"
                 PROVE  this # held /\ InTable(held)'
      OBVIOUS
    <3>1. this # held /\ InTable(held) /\ cleaner # "cancel"
      BY <2>2 DEF TInv, RttApart
    <3>2. \A x : x # this /\ InTable(x) =>
             \/ \E j \in 1..Len(cmd') : cmd'[j].cmd = x
             \/ cleaner = "cancel"
      BY <1>2 DEF InTable
    <3>3. \E j \in 1..Len(cmd') : cmd'[j].cmd = held
      BY <3>1, <3>2
    <3>4. QED
      BY <1>1, <3>1, <3>3 DEF InTable
  <2>4. /\ step = "rttFinish" => \A i \in 1..Len(event_cb) :
             event_cb[i].cmd # held
        /\ (cleaner = "idle" /\ this # NoCommand /\ class[this] = "Rtt") =>
             \A i \in 1..Len(event_cb) : event_cb[i].cmd # this
    BY DEF TInv, RttApart
  <2>5. QED
    BY <1>1, <1>2, <2>1, <2>3, <2>4 DEF RttApart
<1>9. RefsExact'
  BY <1>1, <1>2 DEF TInv, RefsExact
<1>10. HandlersOwned'
  BY <1>1, <1>2 DEF TInv, HandlersOwned
<1>11. QED
  BY <1>2, <1>4, <1>5, <1>6, <1>7, <1>8, <1>9, <1>10 DEF TInv

\* releaseRef deletes the object with its last reference.
LEMMA Released ==
    ASSUME Types, NEW o \in Command, refs[o] > 0, ReleaseRef(o)
    PROVE  /\ refs' \in [Command -> Nat]
           /\ class' \in [Command -> DOMAIN StartProgram \cup {"none"}]
           /\ id' \in [Command -> RequestId \cup {AnyId}]
           /\ refs'[o] = refs[o] - 1
           /\ \A x \in Command : x # o => refs'[x] = refs[x]
           /\ \A x : x # o \/ refs[o] # 1 => class'[x] = class[x] /\
                id'[x] = id[x]
<1>1. /\ refs \in [Command -> Nat]
      /\ class \in [Command -> DOMAIN StartProgram \cup {"none"}]
      /\ id \in [Command -> RequestId \cup {AnyId}]
  BY DEF Types
<1>2. refs[o] \in Nat
  BY <1>1
<1>3. refs' = [refs EXCEPT ![o] = @ - 1]
  BY DEF ReleaseRef
<1>4. refs' \in [Command -> Nat] /\ refs'[o] = refs[o] - 1
  BY <1>1, <1>2, <1>3
<1>5. \A x \in Command : x # o => refs'[x] = refs[x]
  BY <1>1, <1>3
<1>6. CASE refs[o] = 1
  <2>1. class' = [class EXCEPT ![o] = "none"] /\ id' = [id EXCEPT ![o] = AnyId]
    BY <1>6 DEF ReleaseRef
  <2>2. QED
    BY <1>1, <1>4, <1>5, <1>6, <2>1
<1>7. CASE refs[o] # 1
  <2>1. class' = class /\ id' = id
    BY <1>7 DEF ReleaseRef
  <2>2. QED
    BY <1>1, <1>4, <1>5, <1>7, <2>1
<1>8. QED
  BY <1>6, <1>7

\* The client gives up its command at the end of a call.
LEMMA ReleaseThis ==
    ASSUME TInv, LoopFacts, ReleaseRef(this), todo # <<>>, Len(todo) = 1,
           NEW last \in {"release", "cleanupRelease"}, Ending(last),
           Continue(Tail(todo)),
           UNCHANGED <<event_cb, cmd, held, step, loop, cleaner>>,
           num' \in Nat, bad' \in Nat,
           \A j \in 1..Len(cmd) : j > bad' <=> j > bad /\ cmd[j].cmd # this,
           cleaner \in {"idle", "cancel"},
           cleaner = "idle" => bad' = 0
    PROVE  TInv'
<1>1. /\ this \in Command /\ this # NoCommand /\ NoCommand \notin Command
      /\ todo \in Seq(Instruction) /\ cmd \in Seq(Entry) /\
           event_cb \in Seq(Handler)
      /\ refs \in [Command -> Nat]
  BY ModeOf, WifiHalAssumption DEF TInv, Types, WifiHalAssumption
<1>2. todo' = <<>> /\ this' = NoCommand
  BY <1>1, Tails DEF Continue
<1>3. Owned(this) /\ refs[this] > 0
  <2>1. Owned(this)
    BY DEF Owned
  <2>2. QED
    BY <1>1, <2>1 DEF TInv, RefsExact
<1>4. /\ refs' \in [Command -> Nat]
      /\ class' \in [Command -> DOMAIN StartProgram \cup {"none"}]
      /\ id' \in [Command -> RequestId \cup {AnyId}]
      /\ refs'[this] = refs[this] - 1
      /\ \A x \in Command : x # this => refs'[x] = refs[x]
      /\ \A x : x # this \/ refs[this] # 1 => class'[x] = class[x] /\
           id'[x] = id[x]
  BY <1>1, <1>3, Released DEF TInv
<1>5. \A i \in 1..Len(event_cb) : event_cb[i].cmd # this
  <2>1. todo[1].op = last /\ todo[Len(todo)].op = last
    BY DEF Ending
  <2>2. \A k : ~Undoes(todo, k)
    BY <2>1 DEF Undoes
  <2>3. QED
    BY <2>2 DEF Ending
<1>6. \A x : Owned(x)' <=> (Owned(x) /\ x # this) \/ x = NoCommand
  <2>1. DOMAIN cmd = 1..Len(cmd)
    BY <1>1
  <2>2. \A j \in 1..Len(cmd) : cmd[j].cmd # NoCommand
    BY <1>1, InTypes DEF TInv
  <2>3. QED
    BY <1>1, <1>2, <2>1, <2>2 DEF Owned
<1>7. held # NoCommand => class'[held] = class[held]
  <2>1. CASE held = this
    <3>1. refs[this] = 2
      BY <1>1, <1>3, <2>1 DEF TInv, RefsExact
    <3>2. QED
      BY <1>4, <3>1
  <2>2. CASE held # this
    BY <1>4, <2>2
  <2>3. QED
    BY <2>1, <2>2
<1>8. Types'
  BY <1>2, <1>4 DEF TInv, Types
<1>9. Threads'
  BY <1>2 DEF TInv, Threads
<1>10. CmdTable'
  BY <1>4 DEF TInv, CmdTable
<1>11. HandlerTable'
  BY <1>4, <1>5 DEF TInv, HandlerTable
<1>12. Modes'
  BY <1>2 DEF Modes
<1>13. RttApart'
  <2>1. step \in {"handler", "rttUnregister", "rttFinish"} => held # NoCommand
    BY HeldIsCommand
  <2>2. (InTable(held))' <=> InTable(held)
    BY DEF InTable
  <2>3. step = "rttFinish" => \A i \in 1..Len(event_cb) :
          event_cb[i].cmd # held
    BY DEF TInv, RttApart
  <2>4. QED
    BY <1>2, <1>7, <2>1, <2>2, <2>3 DEF TInv, RttApart
<1>14. RefsExact'
  <2>1. ASSUME NEW x \in Command
        PROVE  refs'[x] = (IF Owned(x)' THEN 1 ELSE 0)
                          + (IF held = x THEN 1 ELSE 0)
    <3>1. refs[x] = (IF Owned(x) THEN 1 ELSE 0) + (IF held = x THEN 1 ELSE 0)
      BY DEF TInv, RefsExact
    <3>2. x # NoCommand
      BY <1>1
    <3>3. CASE x = this
      <4>1. refs[x] = 1 + (IF held = x THEN 1 ELSE 0)
        BY <1>3, <3>1, <3>3
      <4>2. ~Owned(x)'
        BY <1>6, <3>2, <3>3
      <4>3. refs'[x] = refs[x] - 1
        BY <1>4, <3>3
      <4>4. QED
        BY <4>1, <4>2, <4>3
    <3>4. CASE x # this
      <4>1. Owned(x)' <=> Owned(x)
        BY <1>6, <3>2, <3>4
      <4>2. refs'[x] = refs[x]
        BY <1>4, <3>4
      <4>3. QED
        BY <3>1, <4>1, <4>2
    <3>5. QED
      BY <3>3, <3>4
  <2>2. QED
    BY <2>1 DEF RefsExact
<1>15. HandlersOwned'
  <2>1. DOMAIN event_cb = 1..Len(event_cb)
    BY <1>1
  <2>2. \A i \in 1..Len(event_cb) : (Owned(event_cb[i].cmd))'
    <3>1. \A i \in 1..Len(event_cb) : Owned(event_cb[i].cmd)
      BY <1>1, HandlersOwnedIs DEF TInv
    <3>2. \A i \in 1..Len(event_cb) : \A x : x = event_cb[i].cmd => Owned(x)'
      BY <1>5, <1>6, <3>1
    <3>3. QED
      BY <3>2 DEF Owned
  <2>3. QED
    BY <2>1, <2>2 DEF HandlersOwned
<1>16. QED
  BY <1>8, <1>9, <1>10, <1>11, <1>12, <1>13, <1>14, <1>15 DEF TInv

\* The releaseRef of a stop call or of a refused start keeps the invariant.
LEMMA DoReleaseStep ==
    ASSUME TInv, LoopFacts, DoRelease
    PROVE  TInv'
<1>1. /\ todo # <<>> /\ Head(todo).op = "release"
      /\ ReleaseRef(this) /\ Continue(Tail(todo))
      /\ UNCHANGED <<event_cb, cmd, bad, num, held, step, loop, cleaner>>
  BY DEF DoRelease, At, loopVars, cleanupVars, handlerVars
<1>2. /\ todo \in Seq(Instruction) /\ todo[1].op = "release"
  BY <1>1, Tails DEF TInv, Types
<1>3. Stopping /\ Len(todo) = 1
  BY <1>1, <1>2, ModeOf
<1>4. cleaner = "idle" /\ bad = 0 /\ Ending("release")
  BY <1>3 DEF Stopping, TInv, Threads
<1>5. ~InTable(this)
  BY <1>2, <1>3 DEF Stopping
<1>6. bad' = 0 /\ num' \in Nat
  BY <1>1, <1>4 DEF TInv, Types
<1>7. \A j \in 1..Len(cmd) : j > bad' <=> j > bad /\ cmd[j].cmd # this
  BY <1>4, <1>5, <1>6 DEF InTable
<1>8. QED
  BY <1>1, <1>3, <1>4, <1>6, <1>7, ReleaseThis

\* The releaseRef of wifi_cleanup and its bad_commands keep the invariant.
LEMMA DoCleanupReleaseStep ==
    ASSUME TInv, LoopFacts, DoCleanupRelease
    PROVE  TInv'
<1>1. /\ todo # <<>> /\ Head(todo).op = "cleanupRelease"
      /\ ReleaseRef(this) /\ Continue(Tail(todo))
      /\ bad' = IF Len(cmd) = num THEN bad + 1 ELSE bad
      /\ UNCHANGED <<event_cb, cmd, num, held, step, loop, cleaner>>
  BY DEF DoCleanupRelease, At, loopVars, cleanupVars, handlerVars
<1>2. /\ todo \in Seq(Instruction) /\ todo[1].op = "cleanupRelease"
      /\ bad \in Nat /\ num \in Nat /\ cmd \in Seq(Entry) /\ Len(cmd) \in Nat
  BY <1>1, Tails DEF TInv, Types
<1>3. Cleaning /\ Len(todo) = 1
  BY <1>1, <1>2, ModeOf
<1>4. cleaner = "cancel" /\ Ending("cleanupRelease")
  BY <1>3 DEF Cleaning
<1>5. bad' \in Nat /\ num' \in Nat
  BY <1>1, <1>2
<1>6. \A j \in 1..Len(cmd) : j > bad' <=> j > bad /\ cmd[j].cmd # this
  <2>1. CASE Len(cmd) = num /\ bad < num /\ cmd[bad + 1].cmd = this
    <3>1. bad' = bad + 1 /\ bad + 1 \in 1..Len(cmd)
      BY <1>1, <1>2, <2>1
    <3>2. \A j \in 1..Len(cmd) : cmd[j].cmd = this <=> j = bad + 1
      BY <2>1, <3>1 DEF TInv, CmdTable
    <3>3. \A j \in 1..Len(cmd) : j > bad + 1 <=> j > bad /\ j # bad + 1
      BY <1>2
    <3>4. QED
      BY <3>1, <3>2, <3>3
  <2>2. CASE /\ Len(cmd) = num - 1
             /\ \A j \in 1..Len(cmd) : cmd[j].cmd # this /\
                  cmd[j].id # id[this]
    <3>1. bad' = bad
      BY <1>1, <1>2, <2>2
    <3>2. QED
      BY <2>2, <3>1
  <2>3. QED
    BY <1>3, <2>1, <2>2 DEF Cleaning
<1>7. QED
  BY <1>1, <1>3, <1>4, <1>5, <1>6, ReleaseThis

\* The releaseRef after a callback keeps the invariant.
LEMMA ReleaseHeldStep ==
    ASSUME TInv, LoopFacts, ReleaseHeld
    PROVE  TInv'
<1>1. /\ step = "release" /\ ReleaseRef(held)
      /\ held' = NoCommand /\ step' = "return"
      /\ UNCHANGED <<event_cb, cmd, todo, this, bad, num, loop, cleaner>>
  BY DEF ReleaseHeld, loopVars, apiVars, cleanupVars
<1>2. /\ held \in Command /\ held # NoCommand /\ NoCommand \notin Command
      /\ cmd \in Seq(Entry) /\ event_cb \in Seq(Handler)
      /\ refs \in [Command -> Nat]
  BY <1>1, HeldIsCommand, WifiHalAssumption DEF TInv, Types, WifiHalAssumption
<1>3. refs[held] = (IF Owned(held) THEN 1 ELSE 0) + 1
  BY <1>2 DEF TInv, RefsExact
<1>4. refs[held] > 0 /\ (Owned(held) => refs[held] # 1)
  BY <1>3
<1>5. /\ refs' \in [Command -> Nat]
      /\ class' \in [Command -> DOMAIN StartProgram \cup {"none"}]
      /\ id' \in [Command -> RequestId \cup {AnyId}]
      /\ refs'[held] = refs[held] - 1
      /\ \A x \in Command : x # held => refs'[x] = refs[x]
      /\ \A x : x # held \/ refs[held] # 1 => class'[x] = class[x] /\
           id'[x] = id[x]
  BY <1>1, <1>2, <1>4, Released DEF TInv
<1>6. \A x : Owned(x) => class'[x] = class[x] /\ id'[x] = id[x]
  BY <1>4, <1>5
<1>7. \A x : Owned(x)' <=> Owned(x)
  BY <1>1 DEF Owned
<1>8. Owned(this) /\ \A j \in 1..Len(cmd) : j > bad => Owned(cmd[j].cmd)
  BY <1>2, OwnedIs
<1>9. \A i \in 1..Len(event_cb) : Owned(event_cb[i].cmd)
  BY <1>2, HandlersOwnedIs DEF TInv
<1>10. Types'
  BY <1>1, <1>5 DEF TInv, Types, Step
<1>11. Threads'
  BY <1>1 DEF TInv, Threads
<1>12. CmdTable'
  BY <1>1, <1>6, <1>8 DEF TInv, CmdTable
<1>13. HandlerTable'
  BY <1>1, <1>6, <1>9 DEF TInv, HandlerTable
<1>14. class'[this] = class[this] /\ id'[this] = id[this]
  BY <1>6, <1>8
<1>15. Modes'
  <2>1. Starting => Starting'
    BY <1>1, <1>14 DEF Starting, InTable, Program, Passed
  <2>2. Stopping => Stopping'
    BY <1>1, <1>14 DEF Stopping, Ending, InTable
  <2>3. Cleaning => Cleaning'
    BY <1>1, <1>14 DEF Cleaning, Ending
  <2>4. QED
    BY <1>1, <1>14, <2>1, <2>2, <2>3 DEF TInv, Modes
<1>16. RttApart'
  BY <1>1, <1>14 DEF TInv, RttApart
<1>17. RefsExact'
  <2>1. ASSUME NEW x \in Command
        PROVE  refs'[x] = (IF Owned(x) THEN 1 ELSE 0)
                          + (IF NoCommand = x THEN 1 ELSE 0)
    <3>1. refs[x] = (IF Owned(x) THEN 1 ELSE 0) + (IF held = x THEN 1 ELSE 0)
      BY DEF TInv, RefsExact
    <3>2. CASE x = held
      BY <1>2, <1>3, <1>5, <3>2
    <3>3. CASE x # held
      BY <1>2, <1>5, <3>1, <3>3
    <3>4. QED
      BY <3>2, <3>3
  <2>2. QED
    BY <1>1, <1>7, <2>1 DEF RefsExact
<1>18. HandlersOwned'
  BY <1>1, <1>7 DEF TInv, HandlersOwned
<1>19. QED
  BY <1>10, <1>11, <1>12, <1>13, <1>15, <1>16, <1>17, <1>18 DEF TInv

\* A turn of the loop of wifi_cleanup keeps the invariant.
LEMMA CleanupTurnStep ==
    ASSUME TInv, LoopFacts, CleanupTurn
    PROVE  TInv'
<1> DEFINE e == cmd[bad + 1]
           o == e.cmd
           q == CancelProgram[class[o]]
<1>1. /\ cleaner = "cancel" /\ todo = <<>> /\ Len(cmd) > bad /\ num' = Len(cmd)
      /\ this' = o
      /\ UNCHANGED <<event_cb, cmd, refs, class, id, bad, held, step, loop,
           cleaner>>
  BY DEF CleanupTurn, loopVars, objVars, handlerVars
<1>2. todo' = q \o <<CleanupRelease>>
  BY <1>1 DEF CleanupTurn
<1>3. /\ cmd \in Seq(Entry) /\ Len(cmd) \in Nat /\ bad \in Nat
      /\ event_cb \in Seq(Handler) /\ NoCommand \notin Command
  BY WifiHalAssumption DEF TInv, Types, WifiHalAssumption
<1>4. bad + 1 \in 1..Len(cmd) /\ bad + 1 > bad /\ bad < Len(cmd)
  BY <1>1, <1>3
<1>5. /\ o \in Command /\ o # NoCommand /\ class[o] \in DOMAIN StartProgram
      /\ step = "none" /\ held = NoCommand /\ this = NoCommand
  <2>1. o \in Command
    BY <1>4, InTypes DEF TInv
  <2>2. class[o] \in DOMAIN StartProgram
    BY <1>4 DEF TInv, CmdTable
  <2>3. step = "none" /\ held = NoCommand /\ this = NoCommand
    BY <1>1 DEF TInv, Threads, LoopFacts
  <2>4. QED
    BY <1>3, <2>1, <2>2, <2>3
<1>6. /\ q \in Seq(Instruction)
      /\ \A i \in 1..Len(q) : q[i].op \in {"ask", "unregister",
           "unregisterCmd"}
      /\ \A k \in Keys(class[o]) : Undoes(q, k)
  BY <1>5, CancelFacts
<1> HIDE DEF q, o, e
<1>7. CleanupRelease \in Instruction /\ CleanupRelease.op = "cleanupRelease"
  BY InstrTyping, InstrFields, OpTyping DEF CleanupRelease, Instr,
     Instruction, Op, KeyName, UndoProgram
<1>8. /\ todo' \in Seq(Instruction) /\ todo' # <<>>
      /\ todo'[Len(todo')] = CleanupRelease
      /\ \A i \in 1..(Len(todo') - 1) :
            todo'[i].op \in {"ask", "unregister", "unregisterCmd"}
      /\ \A k : Undoes(q, k) => Undoes(todo', k)
  BY <1>2, <1>6, <1>7, EndingPrograms
<1>9. Cleaning'
  <2>1. \A i \in 1..Len(event_cb) : event_cb[i].cmd = o => Undoes(todo',
          event_cb[i].key)
    BY <1>6, <1>8 DEF TInv, HandlerTable
  <2>2. Ending("cleanupRelease")'
    BY <1>1, <1>7, <1>8, <2>1 DEF Ending
  <2>3. QED
    BY <1>1, <1>4, <2>2 DEF Cleaning, o, e
<1>10. Modes'
  BY <1>1, <1>5, <1>9 DEF Modes
<1>11. Types'
  BY <1>1, <1>3, <1>5, <1>8 DEF TInv, Types
<1>12. Threads'
  BY <1>1, <1>5, <1>8 DEF TInv, Threads
<1>13. CmdTable' /\ HandlerTable'
  BY <1>1 DEF TInv, CmdTable, HandlerTable
<1>14. RttApart'
  BY <1>1, <1>5 DEF RttApart
<1>15. \A x \in Command : Owned(x)' <=> Owned(x)
  <2>1. DOMAIN cmd = 1..Len(cmd)
    BY <1>3
  <2>2. QED
    BY <1>1, <1>3, <1>4, <1>5, <2>1 DEF Owned, o, e
<1>16. RefsExact'
  BY <1>1, <1>15 DEF TInv, RefsExact
<1>17. HandlersOwned'
  <2>1. DOMAIN event_cb = 1..Len(event_cb)
    BY <1>3
  <2>2. \A i \in 1..Len(event_cb) : event_cb[i].cmd \in Command
    BY InTypes DEF TInv
  <2>3. QED
    BY <1>1, <1>15, <2>1, <2>2 DEF TInv, HandlersOwned
<1>18. QED
  BY <1>10, <1>11, <1>12, <1>13, <1>14, <1>16, <1>17 DEF TInv

\* Unregistering at the completion of an RTT command keeps the invariant.
LEMMA RttUnregisterStep ==
    ASSUME TInv, LoopFacts, RttUnregister
    PROVE  TInv'
<1>1. /\ step = "rttUnregister" /\ UnregisterVendorHandler("RTT")
      /\ step' = "rttFinish"
      /\ UNCHANGED <<cmd, refs, class, id, todo, this, bad, num, held, loop,
           cleaner>>
  BY DEF RttUnregister, loopVars, objVars, apiVars, cleanupVars
<1>2. /\ Shrinks
      /\ \A i \in 1..Len(event_cb') : event_cb'[i].key # "RTT"
  BY <1>1, UnregisterIsPrecise DEF Shrinks, TInv, Types, HandlerTable
<1>3. class[held] = "Rtt" /\ this # held /\ InTable(held)
  BY <1>1 DEF TInv, RttApart
<1>4. \A k \in Keys("Rtt") : k = "RTT"
  <2>1. "Rtt" \in DOMAIN StartProgram
    BY DEF StartProgram
  <2>2. QED
    BY <2>1, KeysAreRegistered, RttPrograms
<1>5. HandlerTable' /\ HandlersOwned'
  BY <1>1, <1>2, ShrinkKeeps
<1>6. \A i \in 1..Len(event_cb') : event_cb'[i].cmd # held
  BY <1>1, <1>2, <1>3, <1>4, <1>5 DEF HandlerTable
<1>7. Types'
  BY <1>1, <1>2 DEF TInv, Types, Shrinks, Step
<1>8. Threads'
  BY <1>1 DEF TInv, Threads
<1>9. CmdTable'
  BY <1>1 DEF TInv, CmdTable
<1>10. Modes'
  <2>1. \A i \in 1..Len(event_cb') :
           \E j \in 1..Len(event_cb) : event_cb'[i] = event_cb[j]
    BY <1>2 DEF Shrinks
  <2>2. ASSUME Starting PROVE Starting'
    <3>1. Program' = Program /\ Passed' = Passed /\ (InTable(this)' <=>
            InTable(this))
      BY <1>1 DEF Program, Passed, InTable
    <3>2. \A i \in 1..Len(event_cb') : event_cb'[i].cmd = this =>
             \E j \in 1..Passed :
                 Program[j].op = "register" /\
                   Program[j].key = event_cb'[i].key
      BY <2>1, <2>2 DEF Starting
    <3>3. \A i \in 1..Len(event_cb') : \A j \in (Passed + 1)..Len(Program) :
             Program[j].op = "register" => Program[j].key # event_cb'[i].key
      BY <2>1, <2>2 DEF Starting
    <3>4. QED
      BY <1>1, <2>2, <3>1, <3>2, <3>3 DEF Starting
  <2>3. ASSUME NEW last, Ending(last) PROVE Ending(last)'
    BY <1>1, <2>1, <2>3 DEF Ending
  <2>4. Stopping => Stopping'
    BY <1>1, <2>3 DEF Stopping, InTable
  <2>5. Cleaning => Cleaning'
    BY <1>1, <2>3 DEF Cleaning
  <2>6. QED
    BY <1>1, <2>2, <2>4, <2>5 DEF TInv, Modes
<1>11. RttApart'
  <2>1. (cleaner = "idle" /\ this # NoCommand /\ class[this] = "Rtt") =>
           \A i \in 1..Len(event_cb') : event_cb'[i].cmd # this
    BY <1>2 DEF TInv, RttApart, Shrinks
  <2>2. (InTable(held))'
    BY <1>1, <1>3 DEF InTable
  <2>3. QED
    BY <1>1, <1>3, <1>6, <2>1, <2>2 DEF RttApart
<1>12. RefsExact'
  BY <1>1 DEF TInv, RefsExact, Owned
<1>13. QED
  BY <1>5, <1>7, <1>8, <1>9, <1>10, <1>11, <1>12 DEF TInv

\* internal_valid_message_handler keeps the invariant.
LEMMA DispatchStep ==
    ASSUME TInv, LoopFacts, LoopFacts', Dispatch
    PROVE  TInv'
<1> DEFINE f == FirstKey(Head(queue))
           o == event_cb[f].cmd
<1>1. /\ loop = "poll" /\ loop' = "handle" /\ cleaner' = cleaner
      /\ UNCHANGED <<event_cb, cmd, class, id, todo, this, bad, num>>
  BY DEF Dispatch, L!PollIn, L!cleanVars, apiVars, cleanupVars
<1>2. /\ step = "none" /\ held = NoCommand /\ NoCommand \notin Command
      /\ event_cb \in Seq(Handler) /\ cmd \in Seq(Entry)
      /\ refs \in [Command -> Nat]
      /\ cleaner \in {"idle", "read"} /\ bad = 0
  BY <1>1, WifiHalAssumption DEF TInv, Types, Threads, LoopFacts,
     WifiHalAssumption
<1>3. \/ f = 0 /\ held' = NoCommand /\ step' = "return" /\ UNCHANGED refs
      \/ f # 0 /\ held' = o /\ refs' = AddRef(o) /\ step' = "handler"
  BY DEF Dispatch
<1>4. f = 0 \/ f \in 1..Len(event_cb)
  BY <1>2, FirstKeyIs
<1> HIDE DEF f
<1>5. CASE f = 0
  <2>1. held' = NoCommand /\ step' = "return" /\ UNCHANGED refs
    BY <1>3, <1>5
  <2>2. Threads'
    BY <1>1, <1>2, <2>1 DEF TInv, Threads
  <2>3. UNCHANGED <<event_cb, cmd, objVars, apiVars, cleanupVars, held>>
    BY <1>1, <1>2, <2>1 DEF objVars, apiVars, cleanupVars
  <2>4. QED
    BY <1>1, <2>1, <2>2, <2>3, TablesUntouched DEF Step
<1>6. CASE f # 0
  <2>1. held' = o /\ refs' = AddRef(o) /\ step' = "handler" /\
          f \in 1..Len(event_cb)
    BY <1>3, <1>4, <1>6
  <2>2. o \in Command /\ Owned(o) /\ o # NoCommand
    BY <1>2, <2>1, InTypes, HandlersOwnedIs DEF TInv
  <2>3. class[o] = "Rtt" => this # o /\ InTable(o)
    <3>1. ASSUME class[o] = "Rtt" PROVE this # o
      <4>1. CASE cleaner = "idle"
        BY <2>1, <2>2, <3>1, <4>1 DEF TInv, RttApart
      <4>2. CASE cleaner = "read"
        BY <2>2, <4>2 DEF TInv, Threads
      <4>3. QED
        BY <1>2, <4>1, <4>2
    <3>2. this # o => InTable(o)
      BY <1>2, <2>2, OwnedIs DEF InTable
    <3>3. QED
      BY <3>1, <3>2
  <2> HIDE DEF o
  <2>4. Types'
    BY <1>1, <1>2, <2>1, <2>2 DEF TInv, Types, AddRef, Step
  <2>5. Threads'
    BY <1>1, <2>1, <2>2 DEF TInv, Threads
  <2>6. CmdTable' /\ HandlerTable'
    BY <1>1 DEF TInv, CmdTable, HandlerTable
  <2>7. Modes'
    BY <1>1 DEF TInv, Modes, Starting, Stopping, Cleaning, Ending, Program,
       Passed, InTable
  <2>8. RttApart'
    BY <1>1, <2>1, <2>3 DEF TInv, RttApart, InTable
  <2>9. \A x : Owned(x)' <=> Owned(x)
    BY <1>1 DEF Owned
  <2>10. RefsExact'
    <3>1. ASSUME NEW x \in Command
          PROVE  refs'[x] = (IF Owned(x) THEN 1 ELSE 0)
                            + (IF o = x THEN 1 ELSE 0)
      <4>1. refs[x] = (IF Owned(x) THEN 1 ELSE 0)
        BY <1>2 DEF TInv, RefsExact
      <4>2. QED
        BY <1>2, <2>1, <2>2, <4>1 DEF AddRef
    <3>2. QED
      BY <2>1, <2>9, <3>1 DEF RefsExact
  <2>11. HandlersOwned'
    BY <1>1, <2>9 DEF TInv, HandlersOwned
  <2>12. QED
    BY <2>4, <2>5, <2>6, <2>7, <2>8, <2>10, <2>11 DEF TInv
<1>7. QED
  BY <1>5, <1>6

\* The release at the completion of an RTT command keeps the invariant.
LEMMA RttFinishStep ==
    ASSUME TInv, LoopFacts, RttFinish
    PROVE  TInv'
<1> DEFINE k == id[held]
           f == FirstId(k)
<1>1. /\ step = "rttFinish" /\ cmd' = WithoutFirst(k)
      /\ f # 0 => ReleaseRef(cmd[f].cmd)
      /\ step' = "release"
      /\ UNCHANGED <<event_cb, todo, this, bad, num, held, loop, cleaner>>
  BY DEF RttFinish, loopVars, apiVars, cleanupVars
<1>2. /\ held \in Command /\ held # NoCommand /\ NoCommand \notin Command
      /\ cmd \in Seq(Entry) /\ event_cb \in Seq(Handler) /\ Len(cmd) \in Nat
      /\ refs \in [Command -> Nat]
      /\ class[held] = "Rtt" /\ this # held /\ InTable(held)
      /\ \A i \in 1..Len(event_cb) : event_cb[i].cmd # held
  BY <1>1, HeldIsCommand, WifiHalAssumption
     DEF TInv, Types, RttApart, WifiHalAssumption
<1>3. cleaner \in {"idle", "read"} /\ bad = 0
  BY <1>1 DEF TInv, Threads, LoopFacts
<1>4. PICK n \in 1..Len(cmd) : cmd[n].cmd = held
  BY <1>2 DEF InTable
<1>5. \A i, j \in 1..Len(cmd) :
         cmd[i].id = cmd[j].id \/ cmd[i].cmd = cmd[j].cmd => i = j
  BY DEF TInv, CmdTable
<1>6. \A j \in 1..Len(cmd) :
          /\ id[cmd[j].cmd] = cmd[j].id
          /\ class[cmd[j].cmd] \in DOMAIN StartProgram
  BY <1>2, <1>3 DEF TInv, CmdTable
<1>7. cmd[n].id = k
  BY <1>4, <1>6
<1>8. f \in 1..Len(cmd) /\ cmd[f].id = k
  BY <1>2, <1>4, <1>7, FirstIdIs
<1>9. f = n /\ f # 0
  BY <1>2, <1>4, <1>5, <1>7, <1>8
<1>10. ReleaseRef(held)
  BY <1>1, <1>4, <1>9
<1> HIDE DEF k, f
<1>11. /\ cmd' \in Seq(Entry)
       /\ \A i \in 1..Len(cmd') :
             cmd'[i].id # k /\ \E j \in 1..Len(cmd) : cmd'[i] = cmd[j]
       /\ \A j \in 1..Len(cmd) : cmd[j].id # k =>
             \E i \in 1..Len(cmd') : cmd'[i] = cmd[j]
       /\ \A i, j \in 1..Len(cmd') :
             cmd'[i].id = cmd'[j].id \/ cmd'[i].cmd = cmd'[j].cmd => i = j
  <2> DEFINE t == WithoutFirst(k)
  <2>1. /\ t \in Seq(Entry)
        /\ \A i \in 1..Len(t) :
              t[i].id # k /\ \E j \in 1..Len(cmd) : t[i] = cmd[j]
        /\ \A j \in 1..Len(cmd) : cmd[j].id # k =>
              \E i \in 1..Len(t) : t[i] = cmd[j]
        /\ \A i, j \in 1..Len(t) :
              t[i].id = t[j].id \/ t[i].cmd = t[j].cmd => i = j
    BY <1>2, <1>5, WithoutFirstIs, Zenon
  <2>2. cmd' = t
    BY <1>1
  <2> HIDE DEF t
  <2>3. QED
    BY <2>1, <2>2
<1>12. \A j \in 1..Len(cmd) : cmd[j].cmd = held <=> cmd[j].id = k
  BY <1>4, <1>5, <1>7
<1>13. \A x : (\E i \in 1..Len(cmd') : cmd'[i].cmd = x) <=>
              (\E j \in 1..Len(cmd) : cmd[j].cmd = x) /\ x # held
  <2>1. \A i \in 1..Len(cmd') : cmd'[i].id # k
    BY <1>11
  <2>2. \A i \in 1..Len(cmd') : \E j \in 1..Len(cmd) : cmd'[i] = cmd[j]
    BY <1>11
  <2>3. \A j \in 1..Len(cmd) : cmd[j].id # k =>
             \E i \in 1..Len(cmd') : cmd'[i] = cmd[j]
    BY <1>11
  <2>4. ASSUME NEW i \in 1..Len(cmd')
        PROVE  /\ \E j \in 1..Len(cmd) : cmd[j].cmd = cmd'[i].cmd
               /\ cmd'[i].cmd # held
    <3>1. PICK j \in 1..Len(cmd) : cmd'[i] = cmd[j]
      BY <2>2
    <3>2. cmd[j].id # k
      BY <2>1, <3>1
    <3>3. QED
      BY <1>12, <3>1, <3>2
  <2>5. ASSUME NEW j \in 1..Len(cmd), cmd[j].cmd # held
        PROVE  \E i \in 1..Len(cmd') : cmd'[i].cmd = cmd[j].cmd
    <3>1. cmd[j].id # k
      BY <1>12, <2>5
    <3>2. QED
      BY <2>3, <3>1
  <2>6. QED
    BY <2>4, <2>5, ZenonT(40)
<1>14. /\ DOMAIN cmd = 1..Len(cmd) /\ DOMAIN (cmd') = 1..Len(cmd')
       /\ \A j \in 1..Len(cmd) : j > bad
       /\ \A j \in 1..Len(cmd') : j > bad
  BY <1>2, <1>3, <1>11
<1>15. /\ \A x : Owned(x) <=> (\E j \in 1..Len(cmd) : cmd[j].cmd = x) \/
            this = x
       /\ \A x : Owned(x)' <=> (\E j \in 1..Len(cmd') : cmd'[j].cmd = x) \/
            this = x
  BY <1>1, <1>14 DEF Owned
<1>16. \A x : Owned(x)' <=> Owned(x) /\ x # held
  BY <1>2, <1>13, <1>15
<1>17. Owned(held) /\ refs[held] = 2
  <2>1. Owned(held)
    BY <1>4, <1>15
  <2>2. QED
    BY <1>2, <2>1 DEF TInv, RefsExact
<1>18. /\ refs' \in [Command -> Nat]
       /\ class' \in [Command -> DOMAIN StartProgram \cup {"none"}]
       /\ id' \in [Command -> RequestId \cup {AnyId}]
       /\ refs'[held] = refs[held] - 1
       /\ \A x \in Command : x # held => refs'[x] = refs[x]
       /\ class' = class /\ id' = id
  <2>1. class' = class /\ id' = id
    BY <1>10, <1>17 DEF ReleaseRef
  <2>2. QED
    BY <1>2, <1>10, <1>17, <2>1, Released DEF TInv
<1>19. Types'
  BY <1>1, <1>11, <1>18 DEF TInv, Types, Step
<1>20. Threads'
  BY <1>1, <1>3 DEF TInv, Threads
<1>21. CmdTable'
  <2>1. \A j \in 1..Len(cmd') : /\ id[cmd'[j].cmd] = cmd'[j].id
                                /\ class[cmd'[j].cmd] \in DOMAIN StartProgram
    BY <1>6, <1>11
  <2>2. QED
    BY <1>11, <1>18, <2>1 DEF CmdTable
<1>22. HandlerTable'
  BY <1>1, <1>18 DEF TInv, HandlerTable
<1>23. Modes'
  <2>1. InTable(this)' <=> InTable(this)
    BY <1>1, <1>2, <1>13 DEF InTable
  <2>2. Starting => Starting'
    BY <1>1, <1>18, <2>1 DEF Starting, Program, Passed
  <2>3. Ending("release") => Ending("release")'
    BY <1>1 DEF Ending
  <2>4. ASSUME Stopping PROVE Stopping'
    <3>1. (\E i \in 1..Len(todo) : todo[i].op = "unregisterCmd") =>
             \A j \in 1..Len(cmd') : cmd'[j].id = id[this] =>
               cmd'[j].cmd = this
      BY <1>11, <2>4 DEF Stopping
    <3>2. (\A i \in 1..Len(todo) : todo[i].op # "unregisterCmd") =>
            ~InTable(this)'
      BY <2>1, <2>4 DEF Stopping
    <3>3. QED
      BY <1>1, <1>18, <2>3, <2>4, <3>1, <3>2 DEF Stopping
  <2>5. ~Cleaning
    BY <1>3 DEF Cleaning
  <2>6. QED
    BY <1>1, <1>18, <2>2, <2>4, <2>5 DEF TInv, Modes
<1>24. RttApart'
  BY <1>1, <1>18 DEF TInv, RttApart
<1>25. RefsExact'
  <2>1. ASSUME NEW x \in Command
        PROVE  refs'[x] = (IF Owned(x)' THEN 1 ELSE 0)
                          + (IF held = x THEN 1 ELSE 0)
    <3>1. refs[x] = (IF Owned(x) THEN 1 ELSE 0) + (IF held = x THEN 1 ELSE 0)
      BY DEF TInv, RefsExact
    <3>2. CASE x = held
      <4>1. ~Owned(x)' /\ refs'[x] = 1
        BY <1>16, <1>17, <1>18, <3>2
      <4>2. QED
        BY <3>2, <4>1
    <3>3. CASE x # held
      <4>1. (Owned(x)' <=> Owned(x)) /\ refs'[x] = refs[x]
        BY <1>16, <1>18, <3>3
      <4>2. QED
        BY <3>1, <4>1
    <3>4. QED
      BY <3>2, <3>3
  <2>2. QED
    BY <1>1, <2>1 DEF RefsExact
<1>26. HandlersOwned'
  <2>1. DOMAIN event_cb = 1..Len(event_cb)
    BY <1>2
  <2>2. \A i \in 1..Len(event_cb) : Owned(event_cb[i].cmd)
    BY <1>2, HandlersOwnedIs DEF TInv
  <2>3. \A i \in 1..Len(event_cb) : \A x : x = event_cb[i].cmd => Owned(x)'
    BY <1>2, <1>16, <2>2
  <2>4. \A i \in 1..Len(event_cb) : (Owned(event_cb[i].cmd))'
    BY <1>1, <2>3 DEF Owned
  <2>5. QED
    BY <1>1, <2>1, <2>4 DEF HandlersOwned
<1>27. QED
  BY <1>19, <1>20, <1>21, <1>22, <1>23, <1>24, <1>25, <1>26 DEF TInv

\* The other steps of the loop thread keep the invariant.
LEMMA LoopThreadSteps ==
    ASSUME TInv, LoopFacts, LoopFacts', HandleEvent \/ HandlerReturns \/
             LoopOther
    PROVE  TInv'
<1>1. CASE HandleEvent
  <2>1. /\ step = "handler" /\ step' \in {"release", "rttUnregister"}
        /\ step' = "rttUnregister" => class[held] = "Rtt"
        /\ UNCHANGED <<loop, cleaner>>
        /\ UNCHANGED <<event_cb, cmd, objVars, apiVars, cleanupVars, held>>
    BY <1>1 DEF HandleEvent, loopVars
  <2>2. Threads'
    BY <2>1 DEF TInv, Threads, objVars, apiVars, cleanupVars
  <2>3. QED
    BY <2>1, <2>2, TablesUntouched DEF Step
<1>2. CASE HandlerReturns
  <2>1. /\ step = "return" /\ step' = "none" /\ loop' = "check"
        /\ cleaner' = cleaner
        /\ UNCHANGED <<event_cb, cmd, objVars, apiVars, cleanupVars, held>>
    BY <1>2 DEF HandlerReturns, L!Handled, L!cleanVars
  <2>2. Threads'
    BY <2>1 DEF TInv, Threads, objVars, apiVars, cleanupVars
  <2>3. QED
    BY <2>1, <2>2, TablesUntouched DEF Step
<1>3. CASE LoopOther
  <2>1. /\ loop # "handle" /\ loop' # "handle" /\ cleaner' = cleaner
        /\ step' = step
        /\ UNCHANGED <<event_cb, cmd, objVars, apiVars, cleanupVars, held>>
    BY <1>3 DEF LoopOther, L!EnterLoop, L!PollError, L!PollHangUp, L!PollExit,
                L!CheckCleanUp, L!cleanVars, handlerVars
  <2>2. Threads'
    BY <2>1 DEF TInv, Threads, objVars, apiVars, cleanupVars
  <2>3. step' \in Step
    BY <2>1 DEF TInv, Types
  <2>4. QED
    BY <2>1, <2>2, <2>3, TablesUntouched
<1>4. QED
  BY <1>1, <1>2, <1>3

\* The steps of the kernel and of wifi_cleanup outside the tables do.
LEMMA CleanerSteps ==
    ASSUME TInv, LoopFacts, LoopFacts',
           WifiCleanup \/ CleanupLoopEnds \/ CleanupOther \/ KernelStep
           \/ UNCHANGED vars
    PROVE  TInv'
<1>1. /\ UNCHANGED <<event_cb, cmd, objVars, apiVars, cleanupVars, held, step>>
      /\ loop' = loop
  <2>1. CASE WifiCleanup
    BY <2>1 DEF WifiCleanup, L!CleanupBegin, L!loopVars, handlerVars
  <2>2. CASE CleanupLoopEnds
    BY <2>2 DEF CleanupLoopEnds, L!CleanupCancelled, L!loopVars, handlerVars
  <2>3. CASE CleanupOther
    BY <2>3 DEF CleanupOther, L!CleanupRead, L!CleanupFlag, L!CleanupClose,
                L!CleanupFree, L!loopVars, handlerVars
  <2>4. CASE KernelStep
    BY <2>4 DEF KernelStep, L!KernelStep, L!KernelSend, L!KernelHangUp,
                L!loopVars, handlerVars
  <2>5. CASE UNCHANGED vars
    BY <2>5 DEF vars, loopVars, handlerVars
  <2>6. QED
    BY <2>1, <2>2, <2>3, <2>4, <2>5
<1>2. todo = <<>> \/ cleaner' = cleaner
  <2>1. CASE CleanupOther
    BY <2>1 DEF CleanupOther, L!CleanupRead, L!CleanupFlag, L!CleanupClose,
                L!CleanupFree, TInv, Threads
  <2>2. CASE KernelStep \/ UNCHANGED vars
    BY <2>2 DEF KernelStep, L!KernelStep, L!KernelSend, L!KernelHangUp,
                L!cleanVars, vars, loopVars
  <2>3. QED
    BY <2>1, <2>2 DEF WifiCleanup, CleanupLoopEnds
<1>3. Threads'
  <2>1. \/ cleaner' = cleaner
        \/ cleaner = "idle" /\ cleaner' \in {"read", "flag"}
        \/ cleaner = "read" /\ cleaner' = "flag"
        \/ cleaner = "flag" /\ cleaner' = "cancel"
        \/ cleaner = "cancel" /\ cleaner' = "close" /\ Len(cmd) <= bad
        \/ cleaner \in {"close", "free"} /\ cleaner' \in {"free", "done"}
    <3>1. CASE WifiCleanup
      BY <3>1 DEF WifiCleanup, L!CleanupBegin
    <3>2. CASE CleanupLoopEnds
      BY <3>2 DEF CleanupLoopEnds, L!CleanupCancelled
    <3>3. CASE CleanupOther
      BY <3>3 DEF CleanupOther, L!CleanupRead, L!CleanupFlag, L!CleanupClose,
                  L!CleanupFree
    <3>4. CASE KernelStep \/ UNCHANGED vars
      BY <3>4 DEF KernelStep, L!KernelStep, L!KernelSend, L!KernelHangUp,
                  L!cleanVars, vars, loopVars
    <3>5. QED
      BY <3>1, <3>2, <3>3, <3>4
  <2>2. QED
    BY <1>1, <1>2, <2>1 DEF TInv, Threads, objVars, apiVars, cleanupVars
<1>4. step' = step /\ step' \in Step
  BY <1>1 DEF TInv, Types
<1>5. QED
  BY <1>1, <1>2, <1>3, <1>4, TablesUntouched

\* Every step of a careful client, the loop and the kernel keeps TInv.
LEMMA EveryStep ==
    ASSUME Misuse = {}, TInv, LoopFacts, LoopFacts', [Next]_vars
    PROVE  TInv'
<1>1. CASE ClientCall
  BY <1>1, StartCommandStep, StopCommandStep, StopAnyStep, RttRangeCancelStep,
     CleanerSteps DEF ClientCall
<1>2. CASE ClientStep
  BY <1>2, TryRequestStep, AskRequestStep, DoRegisterStep, DoUnregisterStep,
     DoUnregisterCmdStep, DoReleaseStep, CleanupTurnStep, DoCleanupReleaseStep,
     CleanerSteps DEF ClientStep
<1>3. CASE LoopStep
  BY <1>3, DispatchStep, RttUnregisterStep, RttFinishStep, ReleaseHeldStep,
     LoopThreadSteps DEF LoopStep
<1>4. CASE KernelStep \/ UNCHANGED vars
  BY <1>4, CleanerSteps
<1>5. QED
  BY <1>1, <1>2, <1>3, <1>4 DEF Next

\* The state wifi_initialize leaves satisfies TInv.
LEMMA Initially ==
    ASSUME Init
    PROVE  TInv
<1>1. /\ event_cb = <<>> /\ cmd = <<>> /\ todo = <<>> /\ this = NoCommand
      /\ held = NoCommand /\ step = "none" /\ bad = 0 /\ num = 0
      /\ refs = [o \in Command |-> 0] /\ class = [o \in Command |-> "none"]
      /\ id = [o \in Command |-> AnyId]
      /\ loop = "out" /\ cleaner = "idle" /\ NoCommand \notin Command
  BY WifiHalAssumption DEF Init, L!Init, WifiHalAssumption
<1>2. Len(event_cb) = 0 /\ Len(cmd) = 0 /\ DOMAIN cmd = {} /\
        DOMAIN event_cb = {}
  BY <1>1
<1>3. Types
  BY <1>1 DEF Types, Step
<1>4. Threads
  BY <1>1 DEF Threads
<1>5. CmdTable /\ HandlerTable
  BY <1>2 DEF CmdTable, HandlerTable
<1>6. Modes /\ RttApart
  BY <1>1 DEF Modes, RttApart
<1>7. \A o \in Command : ~Owned(o)
  BY <1>1, <1>2 DEF Owned
<1>8. RefsExact /\ HandlersOwned
  BY <1>1, <1>2, <1>7 DEF RefsExact, HandlersOwned
<1>9. QED
  BY <1>3, <1>4, <1>5, <1>6, <1>8 DEF TInv

-----------------------------------------------------------------------------
(* The event loop, and the theorems                                        *)
LP == INSTANCE EventLoopProofs

\* The loop the model instantiates is the one EventLoopProofs is about.
LEMMA SameLoop ==
    /\ L!Init => LP!Init
    /\ [L!Next]_(L!vars) => [LP!Next]_(LP!vars)
    /\ LP!IInv => L!IInv
<1> USE DEF L!loopVars, LP!loopVars, L!sockVars, LP!sockVars, L!pairVars,
            LP!pairVars, L!cleanVars, LP!cleanVars
<1>1. L!Init => LP!Init
  BY DEF L!Init, LP!Init
<1>2. L!KernelStep => LP!KernelStep
  BY DEF L!KernelStep, LP!KernelStep, L!KernelSend, LP!KernelSend,
         L!KernelHangUp, LP!KernelHangUp
<1>3. (L!EnterLoop \/ L!PollError \/ L!PollHangUp) =>
          (LP!EnterLoop \/ LP!PollError \/ LP!PollHangUp)
  BY DEF L!EnterLoop, LP!EnterLoop, L!PollError, LP!PollError, L!PollHangUp,
         LP!PollHangUp
<1>4. (L!PollIn \/ L!Handled \/ L!CheckCleanUp) =>
          (LP!PollIn \/ LP!Handled \/ LP!CheckCleanUp)
  BY DEF L!PollIn, LP!PollIn, L!Handled, LP!Handled, L!CheckCleanUp,
         LP!CheckCleanUp
<1>5. L!PollExit => LP!PollExit
  BY DEF L!PollExit, LP!PollExit
<1>6. /\ L!CleanupBegin => LP!CleanupBegin
      /\ L!CleanupReadFails => LP!CleanupReadFails
  BY DEF L!CleanupBegin, LP!CleanupBegin, L!CleanupReadFails,
         LP!CleanupReadFails
<1>7. L!CleanerStep => LP!CleanerStep
  BY DEF L!CleanerStep, LP!CleanerStep, L!CleanupRead, LP!CleanupRead,
         L!CleanupFlag, LP!CleanupFlag, L!CleanupCancelled,
         LP!CleanupCancelled, L!CleanupClose, LP!CleanupClose,
         L!CleanupFree, LP!CleanupFree
<1>8. L!LoopStep => LP!LoopStep
  BY <1>3, <1>4, <1>5 DEF L!LoopStep, LP!LoopStep
<1>9. L!Next => LP!Next
  BY <1>2, <1>6, <1>7, <1>8 DEF L!Next, LP!Next
<1>10. UNCHANGED L!vars => UNCHANGED LP!vars
  BY DEF L!vars, LP!vars
<1>11. LP!IInv => L!IInv
  BY DEF LP!IInv, L!IInv, LP!TypeOK, L!TypeOK, LP!LoopGone, L!LoopGone,
         L!LoopPc, LP!LoopPc, LP!CleanerPc, L!CleanerPc
<1>12. QED
  BY <1>1, <1>9, <1>10, <1>11

\* The handshake invariant gives what the tables need.
LEMMA LoopFactsHold == L!IInv => LoopFacts
  BY DEF L!IInv, L!TypeOK, L!LoopPc, L!CleanerPc, L!LoopGone, LoopFacts

\* Every step of the tables and handlers is a step of the loop or leaves its
\* variables alone.
LEMMA StepOfTheLoop == [Next]_vars => [L!Next]_(L!vars)
<1> SUFFICES ASSUME [Next]_vars PROVE L!Next \/ UNCHANGED L!vars
  OBVIOUS
<1> USE DEF L!vars, loopVars
<1>1. CASE KernelStep
  BY <1>1 DEF KernelStep, L!Next
<1>2. CASE ClientCall
  <2>1. CASE WifiCleanup
    BY <2>1 DEF WifiCleanup, L!Next
  <2>2. ASSUME NEW c, NEW o, NEW i, StartCommand(c, o, i)
        PROVE UNCHANGED L!vars
    BY <2>2 DEF StartCommand
  <2>3. ASSUME NEW i, StopCommand(i) PROVE UNCHANGED L!vars
    BY <2>3 DEF StopCommand
  <2>4. ASSUME NEW c, NEW o, StopAny(c, o) PROVE UNCHANGED L!vars
    BY <2>4 DEF StopAny
  <2>5. ASSUME NEW o, NEW i, RttRangeCancel(o, i) PROVE UNCHANGED L!vars
    BY <2>5 DEF RttRangeCancel
  <2>6. QED
    BY <1>2, <2>1, <2>2, <2>3, <2>4, <2>5 DEF ClientCall
<1>3. CASE ClientStep
  <2>1. CASE CleanupLoopEnds
    BY <2>1 DEF CleanupLoopEnds, L!Next, L!CleanerStep
  <2>2. CASE CleanupOther
    BY <2>2 DEF CleanupOther, L!Next, L!CleanerStep
  <2>3. CASE TryRequest \/ AskRequest \/ DoRegister \/ DoUnregister \/
               DoUnregisterCmd
    BY <2>3 DEF TryRequest, AskRequest, DoRegister, DoUnregister,
       DoUnregisterCmd
  <2>4. CASE DoRelease \/ CleanupTurn \/ DoCleanupRelease
    BY <2>4 DEF DoRelease, CleanupTurn, DoCleanupRelease
  <2>5. QED
    BY <1>3, <2>1, <2>2, <2>3, <2>4 DEF ClientStep
<1>4. CASE LoopStep
  <2>1. CASE Dispatch
    BY <2>1 DEF Dispatch, L!Next, L!LoopStep
  <2>2. CASE HandlerReturns
    BY <2>2 DEF HandlerReturns, L!Next, L!LoopStep
  <2>3. CASE LoopOther
    BY <2>3 DEF LoopOther, L!Next, L!LoopStep
  <2>4. CASE HandleEvent \/ RttUnregister \/ RttFinish \/ ReleaseHeld
    BY <2>4 DEF HandleEvent, RttUnregister, RttFinish, ReleaseHeld
  <2>5. QED
    BY <1>4, <2>1, <2>2, <2>3, <2>4 DEF LoopStep
<1>5. CASE UNCHANGED vars
  BY <1>5 DEF vars
<1>6. QED
  BY <1>1, <1>2, <1>3, <1>4, <1>5 DEF Next

\* The tables and handlers implement the event loop and wifi_cleanup of module
\* EventLoop, careless clients included.
THEOREM TablesRefineTheLoop == Spec => RefinesEventLoop
<1>1. Init => L!Init
  BY DEF Init
<1>2. [Next]_vars => [L!Next]_(L!vars)
  BY StepOfTheLoop
<1>3. QED
  BY <1>1, <1>2, PTL DEF Spec, RefinesEventLoop, L!Spec

\* So the handshake invariant of EventLoop holds with the tables in place: what
\* wifi_cleanup tears down the loop thread has left.
THEOREM LoopInvariant == Spec => []L!IInv
<1>1. LP!EventLoopAssumption /\ Faults \cap {"exitWrite", "doneRead"} = {}
  BY WifiHalAssumption DEF WifiHalAssumption, LP!EventLoopAssumption
<1>2. LP!Spec => []LP!IInv
  BY <1>1, LP!HandshakeInvariant
<1>3. L!Spec => LP!Spec
  <2>1. /\ L!Init => LP!Init
        /\ [L!Next]_(L!vars) => [LP!Next]_(LP!vars)
    BY SameLoop
  <2>2. QED
    BY <2>1, PTL DEF L!Spec, LP!Spec
<1>4. LP!IInv => L!IInv
  BY SameLoop
<1>5. QED
  BY <1>2, <1>3, <1>4, TablesRefineTheLoop, PTL DEF RefinesEventLoop

\* The tables' invariant holds in every behaviour of a careful client.
THEOREM TablesInvariant ==
    ASSUME Misuse = {}
    PROVE  Spec => []TInv
<1>1. Init => TInv
  BY Initially
<1>2. TInv /\ LoopFacts /\ LoopFacts' /\ [Next]_vars => TInv'
  BY EveryStep
<1>3. L!IInv => LoopFacts
  BY LoopFactsHold
<1>4. QED
  BY <1>1, <1>2, <1>3, LoopInvariant, PTL DEF Spec

\* The variables keep their types.
THEOREM TypeCorrect ==
    ASSUME Misuse = {}
    PROVE  Spec => []TypeOK
<1>1. TInv /\ L!IInv => TypeOK
  BY DEF TInv, Types, Handler, Entry, Step, L!IInv, TypeOK
<1>2. QED
  BY <1>1, TablesInvariant, LoopInvariant, PTL

\* mRefs of every command is exact: one for its owner, one for the callback in
\* progress.  No command is freed while in use, none is left without an owner.
THEOREM RefCountsAreExact ==
    ASSUME Misuse = {}
    PROVE  Spec => []RefsExact
<1>1. TInv => RefsExact
  BY DEF TInv
<1>2. QED
  BY <1>1, TablesInvariant, PTL

\* Every cb_arg in event_cb is a command that somebody will still cancel.
THEOREM NoHandlerDangles ==
    ASSUME Misuse = {}
    PROVE  Spec => []HandlersOwned
<1>1. TInv => HandlersOwned
  BY DEF TInv
<1>2. QED
  BY <1>1, TablesInvariant, PTL

\* When wifi_cleanup is through cancelling, no handler and no command is left.
THEOREM CleanupLeavesNothing ==
    ASSUME Misuse = {}
    PROVE  Spec => []NothingLeaked
<1>1. TInv /\ L!IInv => NothingLeaked
  <2> SUFFICES ASSUME TInv, L!IInv, cleaner \in {"close", "free", "done"}
               PROVE  event_cb = <<>> /\ \A o \in Command : refs[o] = 0
    BY DEF NothingLeaked
  <2>1. /\ cmd \in Seq(Entry) /\ event_cb \in Seq(Handler) /\ bad \in Nat
        /\ Len(cmd) <= bad /\ Len(cmd) \in Nat /\ NoCommand \notin Command
    BY WifiHalAssumption DEF TInv, Types, Threads, WifiHalAssumption
  <2>2. this = NoCommand /\ loop = "out" /\ held = NoCommand
    BY DEF L!IInv, L!LoopGone, TInv, Threads
  <2>3. \A o \in Command : ~Owned(o)
    BY <2>1, <2>2, OwnedIs
  <2>4. \A o \in Command : refs[o] = 0
    BY <2>1, <2>2, <2>3 DEF TInv, RefsExact
  <2>5. Len(event_cb) = 0
    <3>1. \A i \in 1..Len(event_cb) : FALSE
      BY <2>1, <2>3, InTypes, HandlersOwnedIs DEF TInv
    <3>2. Len(event_cb) \in Nat
      BY <2>1
    <3>3. QED
      BY <3>1, <3>2
  <2>6. event_cb = <<>>
    BY <2>1, <2>5
  <2>7. QED
    BY <2>4, <2>6
<1>2. QED
  BY <1>1, TablesInvariant, LoopInvariant, PTL

-----------------------------------------------------------------------------
(* Commands keep their handlers                                            *)
\* Command o has a handler for the events of key k.
Listens(o, k) ==
    \E i \in 1..Len(event_cb) : event_cb[i].key = k /\ event_cb[i].cmd = o

\* It has one after the step.
WillListen(o, k) ==
    \E i \in 1..Len(event_cb') : event_cb'[i].key = k /\ event_cb'[i].cmd = o

\* The loop thread is between the two halves of an RTT completion.
Completing(o) == held = o /\ step = "rttFinish"

\* Subscribed, by command: what the client's thread does not work on and is
\* not being completed has the handlers of its class.
TableServed ==
    \A o \in Command : InTable(o) /\ this # o /\ ~Completing(o) =>
        \A k \in Keys(class[o]) : Listens(o, k)

\* A start() has every handler it has asked for so far: none was taken away by
\* another command, and there was room for each.
StartServed ==
    todo # <<>> /\ todo[1].op \in {"try", "register"} =>
        \A j \in 1..Passed :
            Program[j].op = "register" => Listens(this, Program[j].key)

\* What the call in progress will still unregister is its command's own.
StopServed ==
    \A i \in 1..Len(todo) : todo[i].op = "unregister" =>
        \A h \in 1..Len(event_cb) :
            event_cb[h].key = todo[i].key => event_cb[h].cmd = this

\* The invariant behind Subscribed, on top of TInv.
SInv == cleaner = "idle" => TableServed /\ StartServed /\ StopServed

\* The client stops its commands by their ids: it does not use the calls that
\* take an object of their own for "whichever is running", and there is room
\* for a handler of every event.
OwnStops == /\ Misuse = {}
            /\ "stopAny" \notin ApiCalls
            /\ "rttCancel" \notin ApiCalls
            /\ Cardinality(Event) <= AllocEventCb

\* Neither a refused start() nor a cancel() unregisters events of another class.
LEMMA OwnKeysOnly ==
    ASSUME NEW c \in DOMAIN StartProgram
    PROVE  /\ Within(CancelProgram[c], Keys(c))
           /\ \A i \in 1..Len(StartProgram[c]) :
                 StartProgram[c][i].op = "try" =>
                     Within(StartProgram[c][i].undo, Keys(c))
<1>1. PICK K : StartOK(StartProgram[c], K) /\ CancelOK(CancelProgram[c], K)
  BY ProgramsFit DEF Fits
<1>2. \A k \in K : k \in Keys(c)
  BY <1>1, KeysAreRegistered DEF StartOK, Registers
<1>3. Within(CancelProgram[c], Keys(c))
  BY <1>1, <1>2 DEF CancelOK, Within
<1>4. ASSUME NEW i \in 1..Len(StartProgram[c]), StartProgram[c][i].op = "try"
      PROVE  Within(StartProgram[c][i].undo, Keys(c))
  <2>1. Within(StartProgram[c][i].undo, K)
    BY <1>1, <1>4 DEF StartOK
  <2>2. QED
    BY <1>2, <2>1 DEF Within
<1>5. QED
  BY <1>3, <1>4

\* wifi_unregister_vendor_handler spares the handlers of other events.
LEMMA UnregisterSpares ==
    ASSUME event_cb \in Seq(Handler), NEW k, UnregisterVendorHandler(k),
           NEW j \in 1..Len(event_cb), event_cb[j].key # k
    PROVE  \E i \in 1..Len(event_cb') : event_cb'[i] = event_cb[j]
<1> DEFINE f == FirstKey(k)
<1>0. Len(event_cb) \in Nat
  OBVIOUS
<1>1. CASE f = 0
  BY <1>1 DEF UnregisterVendorHandler
<1>2. CASE f \in 1..Len(event_cb) /\ event_cb[f].key = k
  <2> HIDE DEF f
  <2>1. event_cb' = RemoveAt(event_cb, f)
    BY <1>2, <1>0 DEF UnregisterVendorHandler, f
  <2>2. /\ Len(event_cb') = Len(event_cb) - 1
        /\ \A i \in 1..(Len(event_cb) - 1) :
              event_cb'[i] = IF i < f THEN event_cb[i] ELSE event_cb[i + 1]
    BY <1>2, <2>1, RemoveAtIs
  <2>3. j # f
    BY <1>2
  <2>4. CASE j < f
    <3>1. j \in 1..Len(event_cb') /\ event_cb'[j] = event_cb[j]
      BY <1>0, <1>2, <2>2, <2>4
    <3>2. QED
      BY <3>1
  <2>5. CASE j > f
    <3>1. j - 1 \in 1..Len(event_cb') /\ ~(j - 1 < f) /\ (j - 1) + 1 = j
      BY <1>0, <1>2, <2>2, <2>5
    <3>2. event_cb'[j - 1] = event_cb[j]
      BY <2>2, <3>1
    <3>3. QED
      BY <3>1, <3>2
  <2>6. QED
    BY <1>0, <1>2, <2>3, <2>4, <2>5
<1>3. QED
  BY <1>1, <1>2, FirstKeyIs

\* The handlers that are left are as they were, and those of a command with no
\* part in the event are all left.
LEMMA UnregisterKeeps ==
    ASSUME TInv, NEW k, UnregisterVendorHandler(k), NEW o,
           \A h \in 1..Len(event_cb) : event_cb[h].key = k => event_cb[h].cmd # o
    PROVE  \A l : Listens(o, l) => Listens(o, l)'
<1> SUFFICES ASSUME NEW l, Listens(o, l) PROVE Listens(o, l)'
  OBVIOUS
<1>1. PICK h \in 1..Len(event_cb) : event_cb[h].key = l /\ event_cb[h].cmd = o
  BY DEF Listens
<1>2. event_cb \in Seq(Handler) /\ event_cb[h].key # k
  BY <1>1 DEF TInv, Types
<1>3. PICK i \in 1..Len(event_cb') : event_cb'[i] = event_cb[h]
  BY <1>2, UnregisterSpares
<1>4. QED
  BY <1>1, <1>3 DEF Listens

\* Every class has one to three events of a known name.
LEMMA EventsFinite == IsFiniteSet(Event)
<1>1. IsFiniteSet(KeyName)
  <2> DEFINE A == {"", "FULL_SCAN"} \cup {"SCAN_AVAILABLE"} \cup {"SCAN_COMPLETE"}
             B == A \cup {"HOTLIST_FOUND"} \cup {"HOTLIST_LOST"} \cup {"EPNO"}
             C == B \cup {"SIG_CHANGE"} \cup {"ANQPO"} \cup {"RSSI"}
             D == C \cup {"RTT"} \cup {"RING"} \cup {"MEM_DUMP"}
  <2>1. IsFiniteSet({"", "FULL_SCAN"})
    <3>1. IsFiniteSet({""} \cup {"FULL_SCAN"})
      BY FS_Singleton, FS_AddElement
    <3>2. {""} \cup {"FULL_SCAN"} = {"", "FULL_SCAN"}
      OBVIOUS
    <3>3. QED
      BY <3>1, <3>2
  <2>2. IsFiniteSet(A)
    BY <2>1, FS_AddElement
  <2> HIDE DEF A
  <2>3. IsFiniteSet(B)
    BY <2>2, FS_AddElement
  <2> HIDE DEF B
  <2>4. IsFiniteSet(C)
    BY <2>3, FS_AddElement
  <2> HIDE DEF C
  <2>5. IsFiniteSet(D)
    BY <2>4, FS_AddElement
  <2>6. D = KeyName
    BY DEF A, B, C, D, KeyName
  <2>7. QED
    BY <2>5, <2>6
<1>2. Event \subseteq KeyName
  <2> SUFFICES ASSUME NEW c \in ClassName, NEW k \in Keys(c) PROVE k \in KeyName
    BY DEF Event
  <2>1. c \in DOMAIN StartProgram
    BY ClassesKnown
  <2>2. PICK j \in 1..Len(StartProgram[c]) : StartProgram[c][j].key = k
    BY <2>1, KeysAreRegistered
  <2>3. StartProgram[c][j] \in Instruction
    BY <2>1, StartFacts
  <2>4. QED
    BY <2>2, <2>3 DEF Instruction
<1>3. QED
  BY <1>1, <1>2, FS_Subset

\* With one handler per event there is room for the handler of an event that
\* has none.
LEMMA RoomForHandler ==
    ASSUME TInv, Cardinality(Event) <= AllocEventCb, NEW k \in Event,
           \A i \in 1..Len(event_cb) : event_cb[i].key # k
    PROVE  Len(event_cb) < AllocEventCb
<1> DEFINE n == Len(event_cb)
           f == [i \in 1..n |-> event_cb[i].key]
           T == Event \ {k}
<1>1. event_cb \in Seq(Handler) /\ n \in Nat
  BY DEF TInv, Types
<1>2. \A i \in 1..n : event_cb[i].key \in T
  <2>1. \A i \in 1..n : event_cb[i] \in Handler
    BY <1>1
  <2>2. \A i \in 1..n : event_cb[i].key \in Event
    BY <2>1 DEF Handler
  <2>3. QED
    BY <2>2
<1>3. \A i, j \in 1..n : event_cb[i].key = event_cb[j].key => i = j
  BY DEF TInv, HandlerTable
<1>4. f \in Injection(1..n, T)
  BY <1>2, <1>3 DEF Injection, IsInjective
<1>5. IsFiniteSet(T) /\ Cardinality(T) = Cardinality(Event) - 1
  BY EventsFinite, FS_RemoveElement
<1>6. Cardinality(1..n) <= Cardinality(T)
  <2> HIDE DEF f, T, n
  <2>1. QED
    BY <1>4, <1>5, FS_Injection
<1>7. Cardinality(1..n) = n
  <2>1. 1 \in Int /\ n \in Int
    BY <1>1
  <2>2. Cardinality(1..n) = IF 1 > n THEN 0 ELSE n - 1 + 1
    BY <2>1, FS_Interval
  <2>3. QED
    BY <1>1, <2>2
<1>8. Cardinality(Event) \in Nat /\ AllocEventCb \in Nat
  BY EventsFinite, FS_CardinalityType, WifiHalAssumption DEF WifiHalAssumption
<1>9. QED
  BY <1>1, <1>5, <1>6, <1>7, <1>8

\* What keeps TableServed: whatever is in the table after a step was served
\* before, and has kept its class and its handlers.
LEMMA TableStaysServed ==
    ASSUME TableServed,
           \A o \in Command :
              InTable(o)' /\ this' # o /\ ~Completing(o)' =>
                 /\ InTable(o) /\ this # o /\ ~Completing(o)
                 /\ class'[o] = class[o]
                 /\ \A k : Listens(o, k) => Listens(o, k)'
    PROVE  TableServed'
<1> SUFFICES ASSUME NEW o \in Command, InTable(o)', this' # o, ~Completing(o)',
                    NEW k \in Keys(class'[o])
             PROVE  Listens(o, k)'
  BY DEF TableServed
<1>1. /\ InTable(o) /\ this # o /\ ~Completing(o) /\ class'[o] = class[o]
      /\ Listens(o, k) => Listens(o, k)'
  OBVIOUS
<1>2. Listens(o, k)
  BY <1>1 DEF TableServed
<1>3. QED
  BY <1>1, <1>2

\* With one handler per event, a command that listens is the only one.
LEMMA OnlyListener ==
    ASSUME TInv, NEW o, NEW k, Listens(o, k)
    PROVE  \A h \in 1..Len(event_cb) : event_cb[h].key = k => event_cb[h].cmd = o
  BY DEF TInv, HandlerTable, Listens

\* wifi_start_gscan and its like.
LEMMA StartCommandServes ==
    ASSUME OwnStops, TInv, SInv, cleaner' = "idle",
           NEW c \in ClassName, NEW o \in Command, NEW i \in RequestId,
           StartCommand(c, o, i)
    PROVE  SInv'
<1>1. /\ todo = <<>> /\ this = NoCommand /\ cleaner = "idle"
      /\ NoCommand \notin Command /\ c \in DOMAIN StartProgram
      /\ TableServed
  BY Idle, ClassesKnown DEF StartCommand, SInv
<1>2. ~InTable(o) /\ refs[o] = 0
  BY <1>1, FreshObject DEF StartCommand, New
<1>3. /\ this' = o /\ UNCHANGED <<event_cb, held, step>>
      /\ class'[o] = c
      /\ \A x \in Command : x # o => class'[x] = class[x]
  BY <1>1, NewKeeps DEF StartCommand, handlerVars
<1>4. \/ todo' = StartProgram[c] /\ cmd' = Append(cmd, [id |-> i, cmd |-> o])
      \/ todo' = <<Release>> /\ cmd' = cmd
  BY DEF StartCommand, RegisterCmd
<1>5. \A x \in Command : InTable(x)' /\ x # o => InTable(x)
  <2>1. cmd \in Seq(Entry) /\ [id |-> i, cmd |-> o] \in Entry
    BY DEF TInv, Types, Entry
  <2>2. CASE cmd' = cmd
    BY <2>2 DEF InTable
  <2>3. CASE cmd' = Append(cmd, [id |-> i, cmd |-> o])
    <3>1. /\ Len(cmd') = Len(cmd) + 1 /\ Len(cmd) \in Nat
          /\ \A j \in 1..Len(cmd) : cmd'[j] = cmd[j]
          /\ cmd'[Len(cmd) + 1].cmd = o
      BY <2>1, <2>3
    <3>2. \A j \in 1..Len(cmd') : j \in 1..Len(cmd) \/ j = Len(cmd) + 1
      BY <3>1
    <3>3. QED
      BY <3>1, <3>2 DEF InTable
  <2>4. QED
    BY <1>4, <2>2, <2>3
<1>6. TableServed'
  <2>1. \A x \in Command : InTable(x)' /\ this' # x /\ ~Completing(x)' =>
            /\ InTable(x) /\ this # x /\ ~Completing(x)
            /\ class'[x] = class[x]
            /\ \A k : Listens(x, k) => Listens(x, k)'
    BY <1>1, <1>3, <1>5 DEF Completing, Listens
  <2>2. QED
    BY <1>1, <2>1, TableStaysServed
<1>7. CASE todo' = StartProgram[c]
  <2>1. /\ Len(StartProgram[c]) \in Nat
        /\ \A j \in 1..Len(StartProgram[c]) :
              StartProgram[c][j].op \in {"try", "register"}
    BY <1>1, StartFacts
  <2>2. Passed' = 0
    BY <1>3, <1>7, <2>1 DEF Passed, Program
  <2>3. StartServed'
    BY <2>2 DEF StartServed
  <2>4. StopServed'
    BY <1>7, <2>1 DEF StopServed
  <2>5. QED
    BY <1>6, <2>3, <2>4 DEF SInv
<1>8. CASE todo' = <<Release>>
  <2>1. Len(todo') = 1 /\ todo'[1].op = "release"
    BY <1>8, ReleaseOnly
  <2>2. StartServed' /\ StopServed'
    BY <2>1 DEF StartServed, StopServed
  <2>3. QED
    BY <1>6, <2>2 DEF SInv
<1>9. QED
  BY <1>4, <1>7, <1>8

\* wifi_cancel_cmd: the events it unregisters are those of its command.
LEMMA StopCommandServes ==
    ASSUME OwnStops, TInv, SInv, cleaner' = "idle", NEW r \in RequestId,
           StopCommand(r)
    PROVE  SInv'
<1>1. /\ todo = <<>> /\ this = NoCommand /\ cleaner = "idle" /\ bad = 0
      /\ NoCommand \notin Command /\ TableServed
  BY Idle DEF StopCommand, SInv
<1> DEFINE f == FirstId(r)
           o == cmd[f].cmd
<1>2. /\ f \in 1..Len(cmd) /\ cmd[f].id = r /\ cmd \in Seq(Entry)
  BY FirstIdIs DEF StopCommand, TInv, Types
<1>3. /\ this' = o /\ cmd' = WithoutFirst(r)
      /\ todo' = CancelProgram[class[this']] \o <<Release>>
      /\ UNCHANGED <<event_cb, class, held, step>>
  BY DEF StopCommand, objVars, handlerVars
<1> HIDE DEF f
<1>4. o \in Command /\ InTable(o) /\ class[o] \in DOMAIN StartProgram
  <2>1. f > bad
    BY <1>1, <1>2
  <2>2. QED
    BY <1>2, <2>1, InTypes DEF TInv, CmdTable, InTable
<1>5. class[o] # "Rtt"
  <2>1. DOMAIN cmd = 1..Len(cmd)
    BY <1>2
  <2>2. QED
    BY <1>2, <2>1 DEF StopCommand, ClientMayStop, OwnStops
<1>6. ~Completing(o)
  BY <1>5 DEF Completing, TInv, RttApart
<1>7. \A k \in Keys(class[o]) : Listens(o, k)
  BY <1>1, <1>4, <1>6 DEF TableServed
<1>8. \A x \in Command : InTable(x)' => InTable(x)
  <2>1. \A i, j \in 1..Len(cmd) :
            cmd[i].id = cmd[j].id \/ cmd[i].cmd = cmd[j].cmd => i = j
    BY DEF TInv, CmdTable
  <2>2. \A j \in 1..Len(cmd') : \E n \in 1..Len(cmd) : cmd'[j] = cmd[n]
    BY <1>2, <1>3, <2>1, WithoutFirstIs
  <2>3. QED
    BY <2>2 DEF InTable
<1>9. TableServed'
  <2>1. \A x \in Command : InTable(x)' /\ this' # x /\ ~Completing(x)' =>
            /\ InTable(x) /\ this # x /\ ~Completing(x)
            /\ class'[x] = class[x]
            /\ \A k : Listens(x, k) => Listens(x, k)'
    BY <1>1, <1>3, <1>8 DEF Completing, Listens
  <2>2. QED
    BY <1>1, <2>1, TableStaysServed
<1> HIDE DEF o
<1> DEFINE p == StopCall(class[o])
<1>10. /\ todo' = p /\ p # <<>> /\ Len(p) = Len(CancelProgram[class[o]]) + 1
       /\ Len(CancelProgram[class[o]]) \in Nat
       /\ p[Len(p)].op = "release"
       /\ \A j \in 1..(Len(p) - 1) :
             /\ p[j].op \in {"ask", "unregister", "unregisterCmd"}
             /\ p[j] = CancelProgram[class[o]][j]
  BY <1>3, <1>4, StopCallFacts DEF StopCall
<1> HIDE DEF p
<1>11. \A j \in 1..Len(p) : j \in 1..(Len(p) - 1) \/ j = Len(p)
  BY <1>10
<1>12. StartServed'
  <2>1. 1 \in 1..Len(p)
    BY <1>10
  <2>2. p[1].op \notin {"try", "register"}
    BY <1>10, <1>11, <2>1
  <2>3. QED
    BY <1>10, <2>2 DEF StartServed
<1>13. StopServed'
  <2> SUFFICES ASSUME NEW j \in 1..Len(p), p[j].op = "unregister"
               PROVE  \A h \in 1..Len(event_cb) :
                         event_cb[h].key = p[j].key => event_cb[h].cmd = o
    BY <1>3, <1>10 DEF StopServed
  <2>1. j \in 1..Len(CancelProgram[class[o]])
        /\ p[j] = CancelProgram[class[o]][j]
    BY <1>10, <1>11
  <2>2. p[j].key \in Keys(class[o])
    BY <1>4, <2>1, OwnKeysOnly DEF Within
  <2>3. QED
    BY <1>7, <2>2, OnlyListener
<1>14. QED
  BY <1>9, <1>12, <1>13 DEF SInv

\* An instruction of start() that succeeds: when it is the last one, the
\* command has all its handlers.
LEMMA StartServes ==
    ASSUME TInv, SInv, Starting, todo # <<>>, Continue(Tail(todo)),
           UNCHANGED <<cmd, class, held, step>>,
           \A o, k : Listens(o, k) => WillListen(o, k),
           todo[1].op = "register" => WillListen(this, todo[1].key)
    PROVE  TableServed' /\ StartServed' /\ StopServed'
<1>1. /\ this \in Command /\ this # NoCommand
      /\ class[this] \in DOMAIN StartProgram
      /\ TableServed /\ StartServed
  BY DEF TInv, Types, Threads, Modes, SInv, Starting
<1>2. /\ Len(todo) \in Nat \ {0} /\ Len(todo') = Len(todo) - 1
      /\ \A i \in 1..(Len(todo) - 1) : todo'[i] = todo[i + 1]
      /\ todo' = <<>> <=> Len(todo) = 1
      /\ this' = IF todo' = <<>> THEN NoCommand ELSE this
  BY Tails DEF TInv, Types, Continue
<1>3. /\ Len(Program) \in Nat
      /\ Passed \in 0..(Len(Program) - 1) /\ Passed = Len(Program) - Len(todo)
      /\ \A i \in 1..Len(todo) : todo[i] = Program[Passed + i]
      /\ \A i \in 1..Len(Program) : Program[i].op \in {"try", "register"}
  BY <1>1, StartFacts DEF Starting, Program, Passed
<1>4. \A i \in 1..Len(todo) : Passed + i \in 1..Len(Program)
  BY <1>2, <1>3
<1>5. 1 \in 1..Len(todo) /\ todo[1] = Program[Passed + 1]
  BY <1>2, <1>3
<1>6. todo[1].op \in {"try", "register"}
  BY <1>3, <1>4, <1>5
<1>7. ASSUME NEW j \in 1..(Passed + 1), Program[j].op = "register"
      PROVE  WillListen(this, Program[j].key)
  <2>1. CASE j = Passed + 1
    BY <1>5, <1>7, <2>1, Zenon
  <2>2. CASE j \in 1..Passed
    BY <1>1, <1>6, <1>7, <2>2 DEF StartServed
  <2>3. QED
    BY <1>3, <2>1, <2>2
<1>8. StartServed'
  <2> SUFFICES ASSUME todo' # <<>>, NEW j \in 1..Passed',
                      Program'[j].op = "register"
               PROVE  WillListen(this', Program'[j].key)
    BY DEF StartServed, Listens, WillListen
  <2>1. this' = this /\ Program' = Program /\ Passed' = Passed + 1
    BY <1>2, <1>3 DEF Program, Passed
  <2>2. WillListen(this, Program[j].key)
    BY <1>7, <2>1
  <2>3. QED
    BY <2>1, <2>2
<1>9. StopServed'
  <2>1. \A i \in 1..Len(todo') : i + 1 \in 1..Len(todo) /\ todo'[i] = todo[i + 1]
    BY <1>2
  <2>2. \A i \in 1..Len(todo') : todo'[i].op \in {"try", "register"}
    BY <1>3, <1>4, <2>1
  <2>3. QED
    BY <2>2 DEF StopServed
<1>10. TableServed'
  <2> SUFFICES ASSUME NEW o \in Command, InTable(o)', this' # o,
                      ~Completing(o)', NEW k \in Keys(class'[o])
               PROVE  WillListen(o, k)
    BY DEF TableServed, Listens, WillListen
  <2>1. CASE o = this
    <3>1. Len(todo) = 1
      BY <1>2, <2>1
    <3>2. Passed + 1 = Len(Program)
      BY <1>3, <3>1
    <3>3. PICK j \in 1..Len(Program) :
             Program[j].op = "register" /\ Program[j].key = k
      BY <1>1, <2>1, KeysAreRegistered DEF Program
    <3>4. QED
      BY <1>7, <2>1, <3>2, <3>3
  <2>2. CASE o # this
    <3>1. InTable(o) /\ ~Completing(o) /\ class'[o] = class[o]
      BY DEF InTable, Completing
    <3>2. Listens(o, k)
      BY <1>1, <2>2, <3>1 DEF TableServed
    <3>3. QED
      BY <3>2
  <2>3. QED
    BY <2>1, <2>2
<1>11. QED
  BY <1>8, <1>9, <1>10

\* A request of start(): accepted, it goes on; refused, it takes back what is
\* its own.
LEMMA TryRequestServes ==
    ASSUME TInv, SInv, TryRequest, cleaner' = "idle"
    PROVE  SInv'
<1>1. /\ todo # <<>> /\ Head(todo).op = "try"
      /\ UNCHANGED <<event_cb, cmd, class, held, step, cleaner>>
  BY DEF TryRequest, At, loopVars, objVars, handlerVars
<1>2. /\ todo \in Seq(Instruction) /\ Len(todo) \in Nat \ {0}
      /\ Head(todo) = todo[1] /\ todo[1].op = "try"
  BY <1>1, Tails DEF TInv, Types
<1>3. /\ Starting /\ this \in Command /\ this # NoCommand
      /\ class[this] \in DOMAIN StartProgram
      /\ TableServed /\ StartServed
  BY <1>1, <1>2, ModeOf DEF TInv, Modes, SInv
<1>4. CASE Continue(Tail(todo))
  <2>1. \A o, k : Listens(o, k) => WillListen(o, k)
    BY <1>1 DEF Listens, WillListen
  <2>2. TableServed' /\ StartServed' /\ StopServed'
    BY <1>1, <1>2, <1>3, <1>4, <2>1, StartServes
  <2>3. QED
    BY <2>2 DEF SInv
<1>5. CASE Continue(Head(todo).undo \o <<UnregisterCmd, Release>>)
  <2> DEFINE u == todo[1].undo
             e == <<UnregisterCmd, Release>>
  <2>1. /\ Program[Passed + 1] = todo[1] /\ Passed \in 0..(Len(Program) - 1)
        /\ Len(Program) \in Nat
    BY <1>2, <1>3, StartFacts DEF Starting, Program
  <2>2. /\ u \in Seq(Instruction) /\ OnlyUndoes(u)
        /\ Within(u, Keys(class[this]))
    <3>1. Passed + 1 \in 1..Len(Program) /\ Program[Passed + 1].op = "try"
      BY <1>2, <2>1
    <3>2. QED
      BY <1>3, <2>1, <3>1, StartFacts, OwnKeysOnly DEF Program
  <2>3. /\ e \in Seq(Instruction) /\ Len(e) = 2 /\ e[1].op = "unregisterCmd"
        /\ e[2].op = "release"
    BY SingleTyping, SingleFields
  <2>4. todo' = u \o e
    BY <1>1, <1>2, <1>5 DEF Continue
  <2> HIDE DEF u, e
  <2>5. /\ Len(todo') = Len(u) + 2 /\ Len(u) \in Nat
        /\ \A i \in 1..Len(u) : todo'[i] = u[i]
        /\ \A i \in 1..Len(e) : todo'[Len(u) + i] = e[i]
    BY <2>2, <2>3, <2>4, Concat, SMTT(40)
  <2>6. \A i \in 1..Len(todo') : i \in 1..Len(u) \/
           (i - Len(u) \in 1..Len(e) /\ Len(u) + (i - Len(u)) = i)
    BY <2>3, <2>5
  <2>7. \A i \in 1..Len(e) : e[i].op \in {"unregisterCmd", "release"}
    <3>1. \A i \in 1..2 : i = 1 \/ i = 2
      OBVIOUS
    <3>2. QED
      BY <2>3, <3>1
  <2>8. \A i \in 1..Len(todo') :
           \/ i \in 1..Len(u) /\ todo'[i] = u[i] /\ u[i].op = "unregister"
           \/ todo'[i].op \in {"unregisterCmd", "release"}
    BY <2>2, <2>5, <2>6, <2>7 DEF OnlyUndoes
  <2>9. this' = this
    <3>1. todo' # <<>>
      BY <2>5
    <3>2. QED
      BY <1>2, <1>5, <3>1 DEF Continue
  <2>10. StartServed'
    <3>1. 1 \in 1..Len(todo')
      BY <2>5
    <3>2. todo'[1].op \notin {"try", "register"}
      BY <2>8, <3>1
    <3>3. QED
      BY <3>2 DEF StartServed
  <2>11. StopServed'
    <3> SUFFICES ASSUME NEW i \in 1..Len(todo'), todo'[i].op = "unregister",
                        NEW h \in 1..Len(event_cb),
                        event_cb[h].key = todo'[i].key
                 PROVE  event_cb[h].cmd = this
      BY <1>1, <2>9 DEF StopServed
    <3>1. todo'[i].key \in Keys(class[this])
      BY <2>2, <2>8 DEF Within
    <3>2. PICK j \in 1..Len(Program) :
             Program[j].op = "register" /\ Program[j].key = todo'[i].key
      BY <1>3, <3>1, KeysAreRegistered DEF Program
    <3>3. j \notin (Passed + 1)..Len(Program)
      BY <1>3, <3>2 DEF Starting
    <3>4. j \in 1..Passed
      BY <2>1, <3>3
    <3>5. Listens(this, todo'[i].key)
      BY <1>1, <1>2, <1>3, <3>2, <3>4 DEF StartServed
    <3>6. QED
      BY <3>5, OnlyListener
  <2>12. TableServed'
    <3>1. \A o \in Command : InTable(o)' /\ this' # o /\ ~Completing(o)' =>
             /\ InTable(o) /\ this # o /\ ~Completing(o)
             /\ class'[o] = class[o]
             /\ \A k : Listens(o, k) => Listens(o, k)'
      BY <1>1, <2>9 DEF InTable, Completing, Listens
    <3>2. QED
      BY <1>3, <3>1, TableStaysServed
  <2>13. QED
    BY <2>10, <2>11, <2>12 DEF SInv
<1>6. QED
  BY <1>4, <1>5 DEF TryRequest

\* registerVendorHandler: there is room.
LEMMA DoRegisterServes ==
    ASSUME OwnStops, TInv, SInv, DoRegister, cleaner' = "idle"
    PROVE  SInv'
<1>1. /\ todo # <<>> /\ Head(todo).op = "register" /\ Continue(Tail(todo))
      /\ UNCHANGED <<cmd, class, held, step, cleaner>>
      /\ RegisterVendorHandler(Head(todo).key, this)
  BY DEF DoRegister, At, loopVars, objVars, handlerVars
<1>2. /\ todo \in Seq(Instruction) /\ Len(todo) \in Nat \ {0}
      /\ Head(todo) = todo[1] /\ todo[1].op = "register"
  BY <1>1, Tails DEF TInv, Types
<1>3. /\ Starting /\ this \in Command /\ class[this] \in ClassName
      /\ class[this] \in DOMAIN StartProgram
  BY <1>1, <1>2, ModeOf DEF TInv, Modes, Starting
<1> DEFINE k == todo[1].key
<1>4. /\ Program[Passed + 1] = todo[1] /\ Passed + 1 \in 1..Len(Program)
      /\ Passed + 1 \in (Passed + 1)..Len(Program)
  BY <1>2, <1>3, StartFacts DEF Starting, Program
<1>5. k \in Event
  <2>1. k \in Keys(class[this])
    BY <1>2, <1>3, <1>4, StartFacts DEF Program
  <2>2. QED
    BY <1>3, <2>1 DEF Event
<1>6. \A i \in 1..Len(event_cb) : event_cb[i].key # k
  BY <1>2, <1>3, <1>4 DEF Starting
<1>7. Len(event_cb) < AllocEventCb
  BY <1>5, <1>6, RoomForHandler DEF OwnStops
<1> HIDE DEF k
<1>8. event_cb' = Append(event_cb, [key |-> k, cmd |-> this])
  BY <1>1, <1>2, <1>7 DEF RegisterVendorHandler, k
<1>9. /\ Len(event_cb') = Len(event_cb) + 1 /\ Len(event_cb) \in Nat
      /\ \A i \in 1..Len(event_cb) : event_cb'[i] = event_cb[i]
      /\ event_cb'[Len(event_cb) + 1] = [key |-> k, cmd |-> this]
  <2>1. event_cb \in Seq(Handler) /\ [key |-> k, cmd |-> this] \in Handler
    BY <1>3, <1>5 DEF TInv, Types, Handler
  <2> DEFINE x == [key |-> k, cmd |-> this]
  <2> HIDE DEF x
  <2>2. /\ Len(event_cb') = Len(event_cb) + 1 /\ Len(event_cb) \in Nat
        /\ \A i \in 1..Len(event_cb) : event_cb'[i] = event_cb[i]
        /\ event_cb'[Len(event_cb) + 1] = x
    BY <1>8, <2>1 DEF x
  <2>3. QED
    BY <2>2 DEF x
<1>10. \A o, l : Listens(o, l) => WillListen(o, l)
  <2>1. \A i \in 1..Len(event_cb) : i \in 1..Len(event_cb')
    BY <1>9
  <2>2. QED
    BY <1>9, <2>1 DEF Listens, WillListen
<1>11. WillListen(this, k)
  <2>1. Len(event_cb) + 1 \in 1..Len(event_cb')
    BY <1>9
  <2>2. QED
    BY <1>9, <2>1 DEF WillListen
<1>12. TableServed' /\ StartServed' /\ StopServed'
  BY <1>1, <1>3, <1>10, <1>11, StartServes DEF k
<1>13. QED
  BY <1>12 DEF SInv

\* An instruction of a call that takes a command down, and which touches
\* nothing of another command.
LEMMA EndServes ==
    ASSUME TInv, SInv, todo # <<>>, cleaner = "idle",
           todo[1].op \in {"ask", "unregister", "unregisterCmd"},
           Continue(Tail(todo)), UNCHANGED <<class, held, step>>,
           \A o : InTable(o)' => InTable(o),
           \A i \in 1..Len(event_cb') :
              \E j \in 1..Len(event_cb) : event_cb'[i] = event_cb[j],
           \A o : o # this => \A k : Listens(o, k) => Listens(o, k)'
    PROVE  SInv'
<1>1. /\ Stopping /\ Len(todo) > 1 /\ TableServed /\ StopServed
      /\ this \in Command
  BY ModeOf DEF Cleaning, SInv
<1>2. /\ Len(todo) \in Nat \ {0} /\ Len(todo') = Len(todo) - 1
      /\ \A i \in 1..(Len(todo) - 1) : todo'[i] = todo[i + 1]
      /\ todo' # <<>> /\ this' = this
  BY <1>1, Tails DEF TInv, Types, Continue
<1>3. \A i \in 1..Len(todo') : i + 1 \in 1..Len(todo) /\ todo'[i] = todo[i + 1]
  BY <1>2
<1>4. \A i \in 1..Len(todo) :
         todo[i].op \in {"ask", "unregister", "unregisterCmd", "release"}
  <2>1. \A i \in 1..Len(todo) : i \in 1..(Len(todo) - 1) \/ i = Len(todo)
    BY <1>2
  <2>2. QED
    BY <1>1, <2>1 DEF Stopping, Ending
<1>5. StartServed'
  <2>1. 1 \in 1..Len(todo')
    BY <1>1, <1>2
  <2>2. todo'[1].op \notin {"try", "register"}
    BY <1>3, <1>4, <2>1
  <2>3. QED
    BY <2>2 DEF StartServed
<1>6. StopServed'
  <2> SUFFICES ASSUME NEW i \in 1..Len(todo'), todo'[i].op = "unregister",
                      NEW h \in 1..Len(event_cb'),
                      event_cb'[h].key = todo'[i].key
               PROVE  event_cb'[h].cmd = this'
    BY DEF StopServed
  <2>1. i + 1 \in 1..Len(todo) /\ todo'[i] = todo[i + 1]
    BY <1>3
  <2>2. PICK j \in 1..Len(event_cb) : event_cb'[h] = event_cb[j]
    OBVIOUS
  <2>3. QED
    BY <1>1, <1>2, <2>1, <2>2 DEF StopServed
<1>7. TableServed'
  <2>1. \A o \in Command : InTable(o)' /\ this' # o /\ ~Completing(o)' =>
           /\ InTable(o) /\ this # o /\ ~Completing(o)
           /\ class'[o] = class[o]
           /\ \A k : Listens(o, k) => Listens(o, k)'
    BY <1>2 DEF Completing
  <2>2. QED
    BY <1>1, <2>1, TableStaysServed
<1>8. QED
  BY <1>5, <1>6, <1>7 DEF SInv

\* A request whose failure changes nothing.
LEMMA AskRequestServes ==
    ASSUME TInv, SInv, AskRequest, cleaner' = "idle"
    PROVE  SInv'
<1>1. /\ todo # <<>> /\ Head(todo).op = "ask" /\ Continue(Tail(todo))
      /\ UNCHANGED <<event_cb, cmd, class, held, step, cleaner>>
  BY DEF AskRequest, At, loopVars, objVars, handlerVars
<1>2. todo[1].op = "ask"
  BY <1>1, Tails DEF TInv, Types
<1>3. /\ \A o : InTable(o)' => InTable(o)
      /\ \A o, k : Listens(o, k) => Listens(o, k)'
      /\ \A i \in 1..Len(event_cb') :
            \E j \in 1..Len(event_cb) : event_cb'[i] = event_cb[j]
  BY <1>1 DEF InTable, Listens
<1>4. QED
  BY <1>1, <1>2, <1>3, EndServes

\* wifi_unregister_vendor_handler takes the handler of this command.
LEMMA DoUnregisterServes ==
    ASSUME TInv, SInv, DoUnregister, cleaner' = "idle"
    PROVE  SInv'
<1> DEFINE k == todo[1].key
<1>1. /\ todo # <<>> /\ Head(todo).op = "unregister" /\ Continue(Tail(todo))
      /\ UNCHANGED <<cmd, class, held, step, cleaner>>
      /\ UnregisterVendorHandler(Head(todo).key)
  BY DEF DoUnregister, At, loopVars, objVars, handlerVars
<1>2. /\ todo[1].op = "unregister" /\ Head(todo) = todo[1]
      /\ 1 \in 1..Len(todo)
  BY <1>1, Tails DEF TInv, Types
<1>3. \A h \in 1..Len(event_cb) : event_cb[h].key = k => event_cb[h].cmd = this
  BY <1>1, <1>2 DEF SInv, StopServed
<1>4. UnregisterVendorHandler(k)
  BY <1>1, <1>2
<1> HIDE DEF k
<1>5. \A i \in 1..Len(event_cb') :
         \E j \in 1..Len(event_cb) : event_cb'[i] = event_cb[j]
  BY <1>4, UnregisterIsPrecise DEF TInv, Types, HandlerTable
<1>6. \A o : o # this => \A l : Listens(o, l) => Listens(o, l)'
  <2> SUFFICES ASSUME NEW o, o # this
               PROVE  \A l : Listens(o, l) => Listens(o, l)'
    OBVIOUS
  <2>1. \A h \in 1..Len(event_cb) : event_cb[h].key = k => event_cb[h].cmd # o
    BY <1>3
  <2>2. QED
    BY <1>4, <2>1, UnregisterKeeps
<1>7. \A o : InTable(o)' => InTable(o)
  BY <1>1 DEF InTable
<1>8. QED
  BY <1>1, <1>2, <1>5, <1>6, <1>7, EndServes

\* wifi_unregister_cmd leaves the handlers alone.
LEMMA DoUnregisterCmdServes ==
    ASSUME TInv, SInv, DoUnregisterCmd, cleaner' = "idle"
    PROVE  SInv'
<1>1. /\ todo # <<>> /\ Head(todo).op = "unregisterCmd" /\ Continue(Tail(todo))
      /\ UNCHANGED <<event_cb, class, held, step, cleaner>>
      /\ cmd' = WithoutFirst(id[this])
  BY DEF DoUnregisterCmd, At, loopVars, objVars, handlerVars
<1>2. todo[1].op = "unregisterCmd"
  BY <1>1, Tails DEF TInv, Types
<1>3. \A o : InTable(o)' => InTable(o)
  <2>1. /\ cmd \in Seq(Entry)
        /\ \A i, j \in 1..Len(cmd) :
              cmd[i].id = cmd[j].id \/ cmd[i].cmd = cmd[j].cmd => i = j
    BY DEF TInv, Types, CmdTable
  <2>2. \A j \in 1..Len(cmd') : \E n \in 1..Len(cmd) : cmd'[j] = cmd[n]
    BY <1>1, <2>1, WithoutFirstIs
  <2>3. QED
    BY <2>2 DEF InTable
<1>4. /\ \A o, k : Listens(o, k) => Listens(o, k)'
      /\ \A i \in 1..Len(event_cb') :
            \E j \in 1..Len(event_cb) : event_cb'[i] = event_cb[j]
  BY <1>1 DEF Listens
<1>5. QED
  BY <1>1, <1>2, <1>3, <1>4, EndServes

\* The releaseRef that ends a call: the command is in no table.
LEMMA DoReleaseServes ==
    ASSUME TInv, SInv, DoRelease, cleaner' = "idle"
    PROVE  SInv'
<1>1. /\ todo # <<>> /\ Head(todo).op = "release"
      /\ ReleaseRef(this) /\ Continue(Tail(todo))
      /\ UNCHANGED <<event_cb, cmd, held, step, cleaner>>
  BY DEF DoRelease, At, loopVars, handlerVars
<1>2. todo \in Seq(Instruction) /\ todo[1].op = "release"
  BY <1>1, Tails DEF TInv, Types
<1>3. /\ Stopping /\ Len(todo) = 1 /\ this \in Command /\ this # NoCommand
      /\ TableServed /\ NoCommand \notin Command
  BY <1>1, <1>2, ModeOf, WifiHalAssumption DEF SInv, WifiHalAssumption
<1>4. ~InTable(this)
  BY <1>2, <1>3 DEF Stopping
<1>5. todo' = <<>> /\ this' = NoCommand
  BY <1>1, <1>2, <1>3, Tails DEF Continue
<1>6. StartServed' /\ StopServed'
  BY <1>5 DEF StartServed, StopServed
<1>7. \A o : o # this => class'[o] = class[o]
  <2>1. refs[this] > 0
    BY <1>3 DEF TInv, RefsExact, Owned
  <2>2. QED
    BY <1>1, <1>3, <2>1, Released DEF TInv
<1>8. \A o : /\ InTable(o)' => InTable(o)
             /\ Completing(o)' <=> Completing(o)
             /\ \A k : Listens(o, k) => Listens(o, k)'
  BY <1>1 DEF InTable, Completing, Listens
<1>9. TableServed'
  <2>1. \A o \in Command : InTable(o)' /\ this' # o /\ ~Completing(o)' =>
           /\ InTable(o) /\ this # o /\ ~Completing(o)
           /\ class'[o] = class[o]
           /\ \A k : Listens(o, k) => Listens(o, k)'
    BY <1>4, <1>7, <1>8
  <2>2. QED
    BY <1>3, <2>1, TableStaysServed
<1>10. QED
  BY <1>6, <1>9 DEF SInv

\* A step outside the client's thread which touches nothing of its command, and
\* which leaves every other command its handlers or completes it.
LEMMA LoopServes ==
    ASSUME TInv, SInv, cleaner = "idle", UNCHANGED <<todo, this>>,
           \A i \in 1..Len(event_cb') :
              \E j \in 1..Len(event_cb) : event_cb'[i] = event_cb[j],
           this # NoCommand => class'[this] = class[this] /\
              \A k : Listens(this, k) => WillListen(this, k),
           \A o \in Command :
              InTable(o)' /\ this # o /\ ~Completing(o)' =>
                 /\ InTable(o) /\ ~Completing(o)
                 /\ class'[o] = class[o]
                 /\ \A k : Listens(o, k) => Listens(o, k)'
    PROVE  SInv'
<1>1. TableServed /\ StartServed /\ StopServed
  BY DEF SInv
<1>2. TableServed'
  BY <1>1, TableStaysServed
<1>3. StopServed'
  <2> SUFFICES ASSUME NEW i \in 1..Len(todo), todo[i].op = "unregister",
                      NEW h \in 1..Len(event_cb'),
                      event_cb'[h].key = todo[i].key
               PROVE  event_cb'[h].cmd = this
    BY DEF StopServed
  <2>1. PICK j \in 1..Len(event_cb) : event_cb'[h] = event_cb[j]
    OBVIOUS
  <2>2. QED
    BY <1>1, <2>1 DEF StopServed
<1>4. StartServed'
  <2> SUFFICES ASSUME todo # <<>>, todo[1].op \in {"try", "register"},
                      NEW j \in 1..Passed', Program'[j].op = "register"
               PROVE  WillListen(this', Program'[j].key)
    BY DEF StartServed, Listens, WillListen
  <2>1. this # NoCommand
    BY DEF TInv, Threads
  <2>2. Program' = Program /\ Passed' = Passed
    BY <2>1 DEF Program, Passed
  <2>3. Listens(this, Program[j].key)
    BY <1>1, <2>2 DEF StartServed
  <2>4. QED
    BY <2>1, <2>2, <2>3
<1>5. QED
  BY <1>2, <1>3, <1>4 DEF SInv

\* Steps that leave the tables and the objects alone, outside a completion.
LEMMA TablesUntouchedServes ==
    ASSUME TInv, SInv, cleaner = "idle",
           UNCHANGED <<event_cb, cmd, class, todo, this>>,
           \/ step # "rttFinish" /\ step' # "rttFinish"
           \/ UNCHANGED <<held, step>>
    PROVE  SInv'
<1>1. \A o : /\ InTable(o)' => InTable(o)
             /\ Completing(o)' <=> Completing(o)
             /\ \A k : Listens(o, k) => Listens(o, k)'
  BY DEF InTable, Completing, Listens
<1>2. /\ \A k : Listens(this, k) => WillListen(this, k)
      /\ \A i \in 1..Len(event_cb') :
            \E j \in 1..Len(event_cb) : event_cb'[i] = event_cb[j]
  BY DEF Listens, WillListen
<1>3. QED
  BY <1>1, <1>2, LoopServes

\* The loop thread outside an RTT completion, and the kernel.
LEMMA QuietSteps ==
    ASSUME TInv, SInv, cleaner' = "idle",
           Dispatch \/ HandleEvent \/ HandlerReturns \/ LoopOther
           \/ KernelStep \/ UNCHANGED vars
    PROVE  SInv'
<1> USE DEF objVars, apiVars, handlerVars
<1>1. CASE Dispatch
  <2>1. /\ loop = "poll" /\ step' \in {"handler", "return"}
        /\ UNCHANGED <<event_cb, cmd, class, todo, this, cleaner>>
    BY <1>1 DEF Dispatch, L!PollIn, L!cleanVars
  <2>2. step = "none"
    BY <2>1 DEF TInv, Threads
  <2>3. QED
    BY <2>1, <2>2, TablesUntouchedServes
<1>2. CASE HandleEvent
  <2>1. /\ step = "handler" /\ step' \in {"release", "rttUnregister"}
        /\ UNCHANGED <<event_cb, cmd, class, todo, this, cleaner>>
    BY <1>2 DEF HandleEvent, loopVars
  <2>2. QED
    BY <2>1, TablesUntouchedServes
<1>3. CASE HandlerReturns
  <2>1. /\ step = "return" /\ step' = "none"
        /\ UNCHANGED <<event_cb, cmd, class, todo, this, cleaner>>
    BY <1>3 DEF HandlerReturns, L!Handled, L!cleanVars
  <2>2. QED
    BY <2>1, TablesUntouchedServes
<1>4. CASE LoopOther
  <2>1. UNCHANGED <<event_cb, cmd, class, todo, this, cleaner, held, step>>
    BY <1>4 DEF LoopOther, L!EnterLoop, L!PollError, L!PollHangUp, L!PollExit,
                L!CheckCleanUp, L!cleanVars
  <2>2. QED
    BY <2>1, TablesUntouchedServes
<1>5. CASE KernelStep \/ UNCHANGED vars
  <2>1. UNCHANGED <<event_cb, cmd, class, todo, this, cleaner, held, step>>
    BY <1>5 DEF KernelStep, L!KernelStep, L!KernelSend, L!KernelHangUp,
                L!cleanVars, vars, loopVars
  <2>2. QED
    BY <2>1, TablesUntouchedServes
<1>6. QED
  BY <1>1, <1>2, <1>3, <1>4, <1>5

\* The handler that an RTT completion unregisters is that of the command that
\* completes: a second RTT command has none yet.
LEMMA RttUnregisterServes ==
    ASSUME TInv, SInv, RttUnregister, cleaner' = "idle"
    PROVE  SInv'
<1>1. /\ step = "rttUnregister" /\ UnregisterVendorHandler("RTT")
      /\ step' = "rttFinish"
      /\ UNCHANGED <<cmd, class, todo, this, held, cleaner>>
  BY DEF RttUnregister, loopVars, objVars, apiVars
<1>2. /\ class[held] = "Rtt" /\ this # held /\ InTable(held)
      /\ held \in Command
  BY <1>1, HeldIsCommand DEF TInv, RttApart
<1>3. "RTT" \in Keys("Rtt")
  <2>1. "Rtt" \in DOMAIN StartProgram
    BY DEF StartProgram
  <2>2. QED
    BY <2>1, KeysAreRegistered, RttPrograms
<1>4. Listens(held, "RTT")
  BY <1>1, <1>2, <1>3 DEF SInv, TableServed, Completing
<1>5. \A h \in 1..Len(event_cb) :
         event_cb[h].key = "RTT" => event_cb[h].cmd = held
  BY <1>4, OnlyListener
<1>6. \A i \in 1..Len(event_cb') :
         \E j \in 1..Len(event_cb) : event_cb'[i] = event_cb[j]
  BY <1>1, UnregisterIsPrecise DEF TInv, Types, HandlerTable
<1>7. \A o : o # held => \A l : Listens(o, l) => Listens(o, l)'
  <2> SUFFICES ASSUME NEW o, o # held
               PROVE  \A l : Listens(o, l) => Listens(o, l)'
    OBVIOUS
  <2>1. \A h \in 1..Len(event_cb) :
           event_cb[h].key = "RTT" => event_cb[h].cmd # o
    BY <1>5
  <2>2. QED
    BY <1>1, <2>1, UnregisterKeeps
<1>8. \A l : Listens(this, l) => WillListen(this, l)
  <2>1. \A o, l : Listens(o, l)' => WillListen(o, l)
    BY DEF Listens, WillListen
  <2>2. QED
    BY <1>2, <1>7, <2>1
<1>9. \A o \in Command : InTable(o)' /\ this # o /\ ~Completing(o)' =>
         /\ InTable(o) /\ ~Completing(o)
         /\ class'[o] = class[o]
         /\ \A k : Listens(o, k) => Listens(o, k)'
  <2>1. \A o : /\ InTable(o)' => InTable(o)
               /\ ~Completing(o)' => o # held
               /\ ~Completing(o)
    BY <1>1 DEF InTable, Completing
  <2>2. QED
    BY <1>1, <1>7, <2>1
<1>10. QED
  BY <1>1, <1>6, <1>8, <1>9, LoopServes

\* What a completion takes out of the cmd table is the completed command.
LEMMA RttFinishServes ==
    ASSUME TInv, SInv, RttFinish, cleaner' = "idle"
    PROVE  SInv'
<1> DEFINE k == id[held]
           f == FirstId(k)
<1>1. /\ step = "rttFinish" /\ cmd' = WithoutFirst(k)
      /\ f # 0 => ReleaseRef(cmd[f].cmd)
      /\ step' = "release"
      /\ UNCHANGED <<event_cb, todo, this, held, cleaner>>
  BY DEF RttFinish, loopVars, apiVars
<1>2. /\ held \in Command /\ cmd \in Seq(Entry) /\ Len(cmd) \in Nat
      /\ this # held /\ InTable(held) /\ bad = 0
  BY <1>1, HeldIsCommand DEF TInv, Types, RttApart, Threads
<1>3. \A i, j \in 1..Len(cmd) :
         cmd[i].id = cmd[j].id \/ cmd[i].cmd = cmd[j].cmd => i = j
  BY DEF TInv, CmdTable
<1>4. PICK n \in 1..Len(cmd) : cmd[n].cmd = held
  BY <1>2 DEF InTable
<1>5. cmd[n].id = k
  BY <1>2, <1>4 DEF TInv, CmdTable
<1>6. f \in 1..Len(cmd) /\ cmd[f].id = k
  BY <1>2, <1>4, <1>5, FirstIdIs
<1>7. f = n /\ f # 0
  BY <1>2, <1>3, <1>4, <1>5, <1>6
<1>8. ReleaseRef(held)
  BY <1>1, <1>4, <1>7
<1>9. class' = class
  <2>1. Owned(held)
    BY <1>2, <1>4, OwnedIs
  <2>2. refs[held] = 2
    BY <1>2, <2>1 DEF TInv, RefsExact
  <2>3. QED
    BY <1>8, <2>2 DEF ReleaseRef
<1> HIDE DEF k, f
<1>10. \A i \in 1..Len(cmd') :
          cmd'[i].id # k /\ \E j \in 1..Len(cmd) : cmd'[i] = cmd[j]
  BY <1>1, <1>2, <1>3, WithoutFirstIs
<1>11. \A o : InTable(o)' => InTable(o) /\ o # held
  <2> SUFFICES ASSUME NEW i \in 1..Len(cmd')
               PROVE  InTable(cmd'[i].cmd) /\ cmd'[i].cmd # held
    BY DEF InTable
  <2>1. PICK j \in 1..Len(cmd) : cmd'[i] = cmd[j]
    BY <1>10
  <2>2. j # n
    BY <1>5, <1>10, <2>1
  <2>3. QED
    BY <1>3, <1>4, <2>1, <2>2 DEF InTable
<1>12. \A o : o # held => ~Completing(o)
  BY DEF Completing
<1>13. /\ \A o, l : Listens(o, l) => Listens(o, l)'
       /\ \A l : Listens(this, l) => WillListen(this, l)
       /\ \A i \in 1..Len(event_cb') :
             \E j \in 1..Len(event_cb) : event_cb'[i] = event_cb[j]
  BY <1>1 DEF Listens, WillListen
<1>14. QED
  BY <1>1, <1>9, <1>11, <1>12, <1>13, LoopServes

\* The releaseRef after a callback deletes no command of the table.
LEMMA ReleaseHeldServes ==
    ASSUME TInv, SInv, ReleaseHeld, cleaner' = "idle"
    PROVE  SInv'
<1>1. /\ step = "release" /\ ReleaseRef(held) /\ step' = "return"
      /\ UNCHANGED <<event_cb, cmd, todo, this, cleaner>>
  BY DEF ReleaseHeld, loopVars, apiVars
<1>2. /\ held \in Command /\ cmd \in Seq(Entry) /\ bad = 0
      /\ NoCommand \notin Command /\ this \in Command \cup {NoCommand}
  BY <1>1, HeldIsCommand, WifiHalAssumption
     DEF TInv, Types, Threads, WifiHalAssumption
<1>3. refs[held] = (IF Owned(held) THEN 1 ELSE 0) + 1
  BY <1>2 DEF TInv, RefsExact
<1>4. refs[held] > 0 /\ (Owned(held) => refs[held] # 1)
  BY <1>3
<1>5. \A o : Owned(o) => class'[o] = class[o]
  BY <1>1, <1>2, <1>4, Released DEF TInv
<1>6. \A o : InTable(o) \/ this = o => class'[o] = class[o]
  <2>1. \A j \in 1..Len(cmd) : j > bad
    BY <1>2
  <2>2. \A o : InTable(o) \/ this = o => Owned(o)
    BY <1>2, <2>1, OwnedIs DEF InTable
  <2>3. QED
    BY <1>5, <2>2
<1>7. /\ \A o : /\ InTable(o)' => InTable(o)
                /\ ~Completing(o)
                /\ \A l : Listens(o, l) => Listens(o, l)'
      /\ \A l : Listens(this, l) => WillListen(this, l)
      /\ \A i \in 1..Len(event_cb') :
            \E j \in 1..Len(event_cb) : event_cb'[i] = event_cb[j]
  BY <1>1 DEF InTable, Completing, Listens, WillListen
<1>8. QED
  BY <1>1, <1>6, <1>7, LoopServes

\* Every step of a client that stops its own commands keeps SInv.
LEMMA EveryStepServes ==
    ASSUME OwnStops, TInv, SInv, [Next]_vars
    PROVE  SInv'
<1> SUFFICES ASSUME cleaner' = "idle" PROVE SInv'
  BY DEF SInv
<1>1. CASE ClientCall
  <2>1. ~WifiCleanup
    BY DEF WifiCleanup, L!CleanupBegin
  <2>2. /\ \A c, o : ~StopAny(c, o)
        /\ \A o, i : ~RttRangeCancel(o, i)
    BY DEF OwnStops, StopAny, RttRangeCancel
  <2>3. QED
    BY <1>1, <2>1, <2>2, StartCommandServes, StopCommandServes DEF ClientCall
<1>2. CASE ClientStep
  <2>1. ~CleanupTurn /\ ~CleanupLoopEnds
    BY DEF CleanupTurn, CleanupLoopEnds, L!CleanupCancelled, loopVars
  <2>2. ~CleanupOther
    BY DEF CleanupOther, L!CleanupRead, L!CleanupFlag, L!CleanupClose,
           L!CleanupFree
  <2>3. ~DoCleanupRelease
    <3> SUFFICES ASSUME DoCleanupRelease PROVE FALSE
      OBVIOUS
    <3>1. todo # <<>> /\ Head(todo).op = "cleanupRelease" /\ cleaner = "idle"
      BY DEF DoCleanupRelease, At, loopVars
    <3>2. todo[1].op = "cleanupRelease"
      BY <3>1, Tails DEF TInv, Types
    <3>3. QED
      BY <3>1, <3>2, ModeOf DEF Cleaning
  <2>4. QED
    BY <1>2, <2>1, <2>2, <2>3, TryRequestServes, AskRequestServes,
       DoRegisterServes, DoUnregisterServes, DoUnregisterCmdServes,
       DoReleaseServes DEF ClientStep
<1>3. CASE LoopStep
  BY <1>3, QuietSteps, RttUnregisterServes, RttFinishServes, ReleaseHeldServes
     DEF LoopStep
<1>4. CASE KernelStep \/ UNCHANGED vars
  BY <1>4, QuietSteps
<1>5. QED
  BY <1>1, <1>2, <1>3, <1>4 DEF Next

\* No command, no handler: Subscribed asks for nothing at the start.
LEMMA ServedInitially ==
    ASSUME Init
    PROVE  SInv
<1>1. todo = <<>> /\ cmd = <<>>
  BY DEF Init
<1>2. Len(cmd) = 0 /\ Len(todo) = 0
  BY <1>1
<1>3. QED
  BY <1>1, <1>2 DEF SInv, TableServed, StartServed, StopServed, InTable

\* SInv says it of every command that is in the table.
LEMMA ServedIsSubscribed ==
    ASSUME TInv, SInv
    PROVE  Subscribed
<1> SUFFICES ASSUME cleaner = "idle", NEW j \in DOMAIN cmd,
                    this # cmd[j].cmd, ~Completing(cmd[j].cmd),
                    NEW k \in Keys(class[cmd[j].cmd])
             PROVE  \E i \in DOMAIN event_cb :
                       event_cb[i] = [key |-> k, cmd |-> cmd[j].cmd]
  BY DEF Subscribed, Completing
<1>1. DOMAIN cmd = 1..Len(cmd) /\ DOMAIN event_cb = 1..Len(event_cb)
  BY DEF TInv, Types
<1>2. cmd[j].cmd \in Command
  BY <1>1, InTypes DEF TInv
<1>3. InTable(cmd[j].cmd)
  BY <1>1 DEF InTable
<1>4. Listens(cmd[j].cmd, k)
  BY <1>2, <1>3 DEF SInv, TableServed
<1>5. PICK i \in 1..Len(event_cb) :
         event_cb[i].key = k /\ event_cb[i].cmd = cmd[j].cmd
  BY <1>4 DEF Listens
<1>6. event_cb[i] \in Handler
  BY DEF TInv, Types
<1>7. event_cb[i] = [key |-> k, cmd |-> cmd[j].cmd]
  BY <1>5, <1>6 DEF Handler
<1>8. QED
  BY <1>1, <1>7

\* As long as wifi_cleanup has not begun, a command in the table has a handler
\* for each of its events, whatever other commands start, stop, are refused or
\* complete, for a client that stops its commands by their ids and a handler
\* table with room for every event.
THEOREM EventsReachTheirCommand ==
    ASSUME OwnStops
    PROVE  Spec => []Subscribed
<1>1. Init => SInv
  BY ServedInitially
<1>2. TInv /\ SInv /\ [Next]_vars => SInv'
  BY EveryStepServes
<1>3. TInv /\ SInv => Subscribed
  BY ServedIsSubscribed
<1>4. Spec => []TInv
  BY TablesInvariant DEF OwnStops
<1>5. QED
  BY <1>1, <1>2, <1>3, <1>4, PTL DEF Spec
=============================================================================
