----------------------- MODULE RequestResponseProofs ------------------------
(***************************************************************************)
(* requestResponse on the shared command socket, for any number of threads *)
(* and commands and any set of calls that may fail: the answers balance    *)
(* the waits, and a thread whose answers nobody took gets its own.         *)
(***************************************************************************)
EXTENDS RequestResponse, FiniteSetTheorems, TLAPS

Reply == {"reply", "len", "data"}
Message == [to : Thread, kind : Reply \cup {"ack", "error"}]

Types ==
    /\ kind \in [Thread -> {"plain", "dump"}]
    /\ frames \in [Thread -> Nat]
    /\ made \in [Thread -> Nat]
    /\ cmd_sock \in Seq(Message)
    /\ verdict \in [Thread -> {None, "ok", "refused"}]
    /\ result \in [Thread -> {None, "ok", "refused", "error"}]
    /\ mixed \in [Thread -> BOOLEAN]
    /\ mBuff \in [Thread -> {"null", "live", "freed"}]
    /\ given \in [Thread -> {None, "null", "live", "freed"}]

\* The places of the messages in K on the socket s, and those that end a wait
\* and were meant for one of the threads in T.
At(s, K) == {i \in DOMAIN s : s[i] \in K}
EndsTo(T) == [to : T, kind : {"ack", "error"}]
Mine(s, t) == {i \in DOMAIN s : s[i].to = t}

\* A reply is followed by the acknowledgement of its request.
Followed(s) ==
    \A i \in DOMAIN s : ~Ends(s[i].kind) =>
        \E j \in DOMAIN s : j > i /\ s[j] \in EndsTo({s[i].to})

\* The last message for t says what the driver made of t's last request.
LastIs(s, t, v) ==
    \A i \in Mine(s, t) :
        (\A j \in Mine(s, t) : j <= i) => Outcome(s[i].kind) = v

\* There is at most one reply for t, and its buffer is as its handler needs it.
OneReply(s, t) ==
    \A i, j \in Mine(s, t) :
        ~Ends(s[i].kind) /\ ~Ends(s[j].kind) => i = j
Buffers(s, t, mb, gv) ==
    \A i \in Mine(s, t) :
        /\ s[i].kind = "len" => mb = "null" /\ gv = None
        /\ s[i].kind = "data" => mb = "live" /\ gv = None

\* Thread t with the messages s: there are as many endings for it as it has
\* waits, and what it has got so far is its own.
OwnAt(s, t) ==
    /\ Cardinality(At(s, EndsTo({t}))) = frames[t]
    /\ LastIs(s, t, verdict[t])
    /\ OneReply(s, t)
    /\ Buffers(s, t, mBuff[t], given[t])
    /\ given[t] \in {None, "live"}
    /\ given[t] = "live" => mBuff[t] = "null"
    /\ frames[t] = 0 /\ verdict[t] # None => result[t] = verdict[t]
Own(t) == OwnAt(cmd_sock, t)

Balanced ==
    /\ IsFiniteSet(Waits)
    /\ Cardinality(Waits) = Cardinality(At(cmd_sock, EndsTo(Thread)))

IInv ==
    /\ Types /\ Balanced /\ Followed(cmd_sock)
    /\ \A t \in Thread : ~mixed[t] => Own(t)

-----------------------------------------------------------------------------
(* The socket as a sequence                                                *)

\* What nl_recvmsgs leaves on the socket: all but the first message.
LEMMA TailFacts ==
    ASSUME NEW s \in Seq(Message), s # <<>>
    PROVE  /\ Len(s) \in Nat /\ Len(s) > 0 /\ DOMAIN s = 1..Len(s)
           /\ 1 \in DOMAIN s /\ Head(s) = s[1] /\ s[1] \in Message
           /\ Tail(s) \in Seq(Message) /\ DOMAIN Tail(s) = 1..(Len(s) - 1)
           /\ \A i \in 1..(Len(s) - 1) : Tail(s)[i] = s[i + 1]
  OBVIOUS

\* What a request of the driver adds behind the messages that are there.
LEMMA ConcatFacts ==
    ASSUME NEW s \in Seq(Message), NEW a \in Seq(Message)
    PROVE  /\ s \o a \in Seq(Message) /\ Len(s) \in Nat /\ Len(a) \in Nat
           /\ DOMAIN s = 1..Len(s) /\ DOMAIN a = 1..Len(a)
           /\ DOMAIN (s \o a) = 1..(Len(s) + Len(a))
           /\ \A i \in 1..Len(s) : (s \o a)[i] = s[i]
           /\ \A i \in 1..Len(a) : (s \o a)[Len(s) + i] = a[i]
  OBVIOUS

\* The answers of the driver: the last one ends the wait, before it there may
\* be a reply, and all are for the thread that asked.
LEMMA AnswerFacts ==
    ASSUME NEW t \in Thread, NEW r \in Reply, NEW a \in Answers(t, r)
    PROVE  /\ a \in Seq(Message) /\ Len(a) \in {1, 2} /\ DOMAIN a = 1..Len(a)
           /\ \A i \in 1..Len(a) : a[i] \in Message /\ a[i].to = t
           /\ Ends(a[Len(a)].kind)
           /\ Len(a) = 2 => a[1].kind = r
           /\ Outcome(a[Len(a)].kind) \in {"ok", "refused"}
<1>1. Msg(t, "error") \in Message /\ Msg(t, "ack") \in Message
      /\ Msg(t, r) \in Message
  BY DEF Msg, Message, Reply
<1>2. CASE a = <<Msg(t, "error")>>
  BY <1>1, <1>2 DEF Msg, Ends, Outcome
<1>3. CASE a = <<Msg(t, "ack")>>
  BY <1>1, <1>3 DEF Msg, Ends, Outcome
<1>4. CASE a = <<Msg(t, r), Msg(t, "ack")>>
  BY <1>1, <1>4 DEF Msg, Ends, Outcome
<1>5. QED
  BY <1>2, <1>3, <1>4 DEF Answers

\* A message is one that ends a wait of a thread in T, or not.
LEMMA EndsToFacts ==
    ASSUME NEW m \in Message, NEW T
    PROVE  m \in EndsTo(T) <=> m.to \in T /\ Ends(m.kind)
  BY DEF Message, EndsTo, Ends, Reply

\* There are finitely many messages of any sort.
LEMMA AtFinite ==
    ASSUME NEW s \in Seq(Message), NEW K
    PROVE  IsFiniteSet(At(s, K)) /\ Cardinality(At(s, K)) \in Nat
<1>1. Len(s) \in Nat /\ DOMAIN s = 1..Len(s)
  OBVIOUS
<1>2. IsFiniteSet(1..Len(s))
  BY <1>1, FS_Interval
<1>3. At(s, K) \in SUBSET (1..Len(s))
  BY <1>1 DEF At
<1>4. QED
  BY <1>2, <1>3, FS_Subset, FS_CardinalityType

\* Receiving the first message takes it out of the count of its sort.
LEMMA CountTail ==
    ASSUME NEW s \in Seq(Message), s # <<>>, NEW K
    PROVE  Cardinality(At(Tail(s), K))
              = IF s[1] \in K THEN Cardinality(At(s, K)) - 1
                ELSE Cardinality(At(s, K))
<1> DEFINE A == At(s, K) \ {1}
           B == At(Tail(s), K)
           f == [i \in B |-> i + 1]
<1>1. /\ Len(s) \in Nat /\ DOMAIN s = 1..Len(s) /\ 1 \in DOMAIN s
      /\ DOMAIN Tail(s) = 1..(Len(s) - 1) /\ Tail(s) \in Seq(Message)
  BY TailFacts
<1>2. \A i \in 1..(Len(s) - 1) : Tail(s)[i] = s[i + 1]
  BY TailFacts
<1>3. \A i : i \in B <=> i \in 1..(Len(s) - 1) /\ s[i + 1] \in K
  BY <1>1, <1>2 DEF At
<1>4. \A i : i \in A <=> i \in 2..Len(s) /\ s[i] \in K
  BY <1>1 DEF At
<1>5. f \in Bijection(B, A)
  <2>1. f \in [B -> A]
    <3>1. ASSUME NEW i \in B PROVE i + 1 \in A
      BY <1>1, <1>3, <1>4
    <3>2. QED
      BY <3>1
  <2>2. \A i, j \in B : f[i] = f[j] => i = j
    BY <1>1, <1>3
  <2>3. \A k \in A : \E i \in B : f[i] = k
    <3>1. ASSUME NEW k \in A PROVE k - 1 \in B /\ (k - 1) + 1 = k
      <4>1. k \in 2..Len(s) /\ s[k] \in K
        BY <1>4
      <4>2. k - 1 \in 1..(Len(s) - 1) /\ (k - 1) + 1 = k
        BY <1>1, <4>1
      <4>3. s[(k - 1) + 1] \in K
        BY <4>1, <4>2
      <4>4. QED
        BY <1>3, <4>2, <4>3
    <3>2. QED
      BY <3>1
  <2> HIDE DEF f, A, B
  <2>4. f \in Injection(B, A)
    BY <2>1, <2>2 DEF Injection, IsInjective
  <2>5. f \in Surjection(B, A)
    BY <2>1, <2>3 DEF Surjection
  <2>6. QED
    BY <2>4, <2>5 DEF Bijection
<1>6. IsFiniteSet(B) /\ IsFiniteSet(At(s, K))
  BY <1>1, AtFinite
<1>7. Cardinality(A) = Cardinality(B)
  BY <1>5, <1>6, FS_Bijection DEF ExistsBijection
<1>8. Cardinality(A) = IF 1 \in At(s, K) THEN Cardinality(At(s, K)) - 1
                       ELSE Cardinality(At(s, K))
  BY <1>6, FS_RemoveElement
<1>9. 1 \in At(s, K) <=> s[1] \in K
  BY <1>1 DEF At
<1>10. QED
  BY <1>7, <1>8, <1>9

\* The answers to a request bring one ending for the thread that asked.
LEMMA CountAnswers ==
    ASSUME NEW s \in Seq(Message), NEW t \in Thread, NEW r \in Reply,
           NEW a \in Answers(t, r), NEW T
    PROVE  Cardinality(At(s \o a, EndsTo(T)))
              = IF t \in T THEN Cardinality(At(s, EndsTo(T))) + 1
                ELSE Cardinality(At(s, EndsTo(T)))
<1> DEFINE n == Len(s) + Len(a)
           K == EndsTo(T)
<1>1. /\ a \in Seq(Message) /\ Len(a) \in {1, 2}
      /\ \A i \in 1..Len(a) : a[i] \in Message /\ a[i].to = t
      /\ Ends(a[Len(a)].kind)
      /\ Len(a) = 2 => a[1].kind = r
  BY AnswerFacts
<1>2. /\ Len(s) \in Nat /\ DOMAIN s = 1..Len(s)
      /\ DOMAIN (s \o a) = 1..n
  BY <1>1, ConcatFacts
<1>a. /\ Len(a) \in Nat /\ Len(a) \in 1..Len(a)
      /\ n \in Nat /\ n > Len(s) /\ n \in 1..n
  <2>1. CASE Len(a) = 1
    BY <1>2, <2>1
  <2>2. CASE Len(a) = 2
    BY <1>2, <2>2
  <2>3. QED
    BY <1>1, <2>1, <2>2
<1>3. \A i \in 1..Len(s) : (s \o a)[i] = s[i]
  BY <1>1, ConcatFacts
<1>4. (s \o a)[n] = a[Len(a)]
  BY <1>1, <1>a, ConcatFacts
<1>5. a[Len(a)] \in K <=> t \in T
  BY <1>1, EndsToFacts
<1>6. Len(a) = 2 => (s \o a)[Len(s) + 1] \notin K
  <2>1. Len(a) = 2 => a[1].kind \notin {"ack", "error"}
    BY <1>1 DEF Reply
  <2>2. Len(a) = 2 => a[1] \notin K
    BY <2>1 DEF EndsTo
  <2>3. Len(a) = 2 => (s \o a)[Len(s) + 1] = a[1]
    BY <1>1, ConcatFacts, SMTT(40)
  <2>4. QED
    BY <2>2, <2>3
<1>7. n \notin At(s, K) /\ n \in Nat
  BY <1>2, <1>a DEF At
<1> HIDE DEF K
<1>8. CASE t \in T
  <2>1. At(s \o a, K) = At(s, K) \cup {n}
    <3>1. ASSUME NEW i \in At(s \o a, K) PROVE i \in At(s, K) \cup {n}
      <4>1. i \in 1..n /\ (s \o a)[i] \in K
        BY <1>2 DEF At
      <4>2. CASE i <= Len(s)
        BY <1>2, <1>3, <4>1, <4>2 DEF At
      <4>3. CASE i > Len(s)
        <5>1. i = n \/ (Len(a) = 2 /\ i = Len(s) + 1)
          BY <1>1, <1>2, <4>1, <4>3
        <5>2. QED
          BY <1>6, <4>1, <5>1
      <4>4. QED
        BY <1>2, <4>1, <4>2, <4>3
    <3>2. ASSUME NEW i \in At(s, K) PROVE i \in At(s \o a, K)
      <4>1. i \in 1..Len(s) /\ s[i] \in K /\ i \in 1..n
        BY <1>1, <1>2 DEF At
      <4>2. QED
        BY <1>2, <1>3, <4>1 DEF At
    <3>3. n \in At(s \o a, K)
      BY <1>2, <1>4, <1>5, <1>8, <1>a DEF At
    <3>4. QED
      BY <3>1, <3>2, <3>3
  <2>2. QED
    BY <1>7, <1>8, <2>1, AtFinite, FS_AddElement DEF K
<1>9. CASE t \notin T
  <2>1. At(s \o a, K) = At(s, K)
    <3>1. ASSUME NEW i \in At(s \o a, K) PROVE i \in At(s, K)
      <4>1. i \in 1..n /\ (s \o a)[i] \in K
        BY <1>2 DEF At
      <4>2. CASE i <= Len(s)
        BY <1>2, <1>3, <4>1, <4>2 DEF At
      <4>3. CASE i > Len(s)
        <5>1. i = n \/ (Len(a) = 2 /\ i = Len(s) + 1)
          BY <1>1, <1>2, <4>1, <4>3
        <5>2. QED
          BY <1>4, <1>5, <1>6, <1>9, <4>1, <5>1
      <4>4. QED
        BY <1>2, <4>1, <4>2, <4>3
    <3>2. ASSUME NEW i \in At(s, K) PROVE i \in At(s \o a, K)
      <4>1. i \in 1..Len(s) /\ s[i] \in K /\ i \in 1..n
        BY <1>1, <1>2 DEF At
      <4>2. QED
        BY <1>2, <1>3, <4>1 DEF At
    <3>3. QED
      BY <3>1, <3>2
  <2>2. QED
    BY <1>9, <2>1 DEF K
<1>10. QED
  BY <1>8, <1>9

\* Receiving keeps the order: a reply is still followed by its ending.
LEMMA FollowedTail ==
    ASSUME NEW s \in Seq(Message), s # <<>>, Followed(s)
    PROVE  Followed(Tail(s))
<1>1. /\ Len(s) \in Nat /\ DOMAIN s = 1..Len(s)
      /\ DOMAIN Tail(s) = 1..(Len(s) - 1)
  BY TailFacts
<1>2. \A i \in 1..(Len(s) - 1) : Tail(s)[i] = s[i + 1]
  BY TailFacts
<1> SUFFICES ASSUME NEW i \in 1..(Len(s) - 1), ~Ends(Tail(s)[i].kind)
             PROVE  \E j \in 1..(Len(s) - 1) :
                        j > i /\ Tail(s)[j] \in EndsTo({Tail(s)[i].to})
  BY <1>1 DEF Followed
<1>3. i + 1 \in DOMAIN s /\ Tail(s)[i] = s[i + 1]
  BY <1>1, <1>2
<1>4. PICK j \in DOMAIN s : j > i + 1 /\ s[j] \in EndsTo({s[i + 1].to})
  BY <1>3 DEF Followed
<1>5. j - 1 \in 1..(Len(s) - 1) /\ j - 1 > i /\ (j - 1) + 1 = j
  BY <1>1, <1>4
<1>6. Tail(s)[j - 1] = s[j]
  BY <1>2, <1>5
<1>7. QED
  BY <1>3, <1>4, <1>5, <1>6

\* The answers of the driver bring the ending behind the reply.
LEMMA FollowedAnswers ==
    ASSUME NEW s \in Seq(Message), Followed(s), NEW t \in Thread,
           NEW r \in Reply, NEW a \in Answers(t, r)
    PROVE  Followed(s \o a)
<1> DEFINE n == Len(s) + Len(a)
<1>1. /\ a \in Seq(Message) /\ Len(a) \in {1, 2}
      /\ \A i \in 1..Len(a) : a[i] \in Message /\ a[i].to = t
      /\ Ends(a[Len(a)].kind)
  BY AnswerFacts
<1>2. /\ Len(s) \in Nat /\ DOMAIN s = 1..Len(s)
      /\ DOMAIN (s \o a) = 1..n
  BY <1>1, ConcatFacts
<1>3. \A i \in 1..Len(s) : (s \o a)[i] = s[i]
  BY <1>1, ConcatFacts
<1>4. \A i \in 1..Len(a) : (s \o a)[Len(s) + i] = a[i]
  BY <1>1, ConcatFacts
<1>5. /\ Len(a) \in Nat /\ Len(a) \in 1..Len(a)
      /\ n \in Nat /\ n > Len(s) /\ n \in 1..n
  <2>1. CASE Len(a) = 1
    BY <1>2, <2>1
  <2>2. CASE Len(a) = 2
    BY <1>2, <2>2
  <2>3. QED
    BY <1>1, <2>1, <2>2
<1>6. (s \o a)[n] \in EndsTo({t}) /\ (s \o a)[n] = a[Len(a)]
  <2>1. (s \o a)[n] = a[Len(a)]
    BY <1>4, <1>5
  <2>2. a[Len(a)] \in Message /\ a[Len(a)].to = t
    BY <1>1, <1>5
  <2>3. a[Len(a)] \in EndsTo({t})
    BY <1>1, <2>2, EndsToFacts
  <2>4. QED
    BY <2>1, <2>3
<1> SUFFICES ASSUME NEW i \in 1..n, ~Ends((s \o a)[i].kind)
             PROVE  \E j \in 1..n :
                        j > i /\ (s \o a)[j] \in EndsTo({(s \o a)[i].to})
  BY <1>2 DEF Followed
<1>7. CASE i <= Len(s)
  <2>1. i \in DOMAIN s /\ (s \o a)[i] = s[i]
    BY <1>2, <1>3, <1>7
  <2>2. PICK j \in DOMAIN s : j > i /\ s[j] \in EndsTo({s[i].to})
    BY <2>1 DEF Followed
  <2>3. j \in 1..n /\ (s \o a)[j] = s[j]
    BY <1>2, <1>3, <1>5, <2>2
  <2>4. QED
    BY <2>1, <2>2, <2>3
<1>8. CASE i > Len(s)
  <2>1. i # n
    BY <1>1, <1>6
  <2>2. n > i
    BY <1>5, <2>1
  <2>3. i - Len(s) \in 1..Len(a) /\ Len(s) + (i - Len(s)) = i
    BY <1>2, <1>5, <1>8
  <2>4. (s \o a)[i].to = t
    <3>1. (s \o a)[i] = a[i - Len(s)]
      BY <1>4, <2>3
    <3>2. QED
      BY <1>1, <2>3, <3>1
  <2>5. QED
    BY <1>5, <1>6, <2>2, <2>4
<1>9. i <= Len(s) \/ i > Len(s)
  BY <1>2, <1>5
<1>10. QED
  BY <1>7, <1>8, <1>9, Zenon

\* Receiving a message changes nothing in what is left for thread t.
LEMMA OwnTail ==
    ASSUME NEW s \in Seq(Message), s # <<>>, NEW t, NEW v, NEW mb, NEW gv
    PROVE  /\ LastIs(s, t, v) => LastIs(Tail(s), t, v)
           /\ OneReply(s, t) => OneReply(Tail(s), t)
           /\ Buffers(s, t, mb, gv) => Buffers(Tail(s), t, mb, gv)
<1>1. /\ Len(s) \in Nat /\ DOMAIN s = 1..Len(s)
      /\ DOMAIN Tail(s) = 1..(Len(s) - 1)
  BY TailFacts
<1>2. \A i \in 1..(Len(s) - 1) : Tail(s)[i] = s[i + 1]
  BY TailFacts
<1>3. ASSUME NEW i \in Mine(Tail(s), t)
      PROVE  i \in Nat /\ i + 1 \in Mine(s, t) /\ Tail(s)[i] = s[i + 1]
  <2>1. i \in 1..(Len(s) - 1) /\ Tail(s)[i].to = t
    BY <1>1 DEF Mine
  <2>2. i + 1 \in 1..Len(s) /\ Tail(s)[i] = s[i + 1]
    BY <1>1, <1>2, <2>1
  <2>3. QED
    BY <1>1, <2>1, <2>2 DEF Mine
<1>4. ASSUME NEW j \in Mine(s, t), j # 1 PROVE j - 1 \in Mine(Tail(s), t)
  <2>1. j \in 1..Len(s) /\ s[j].to = t
    BY <1>1 DEF Mine
  <2>2. j - 1 \in 1..(Len(s) - 1) /\ (j - 1) + 1 = j
    BY <1>1, <1>4, <2>1
  <2>3. Tail(s)[j - 1] = s[j]
    BY <1>2, <2>2
  <2>4. QED
    BY <1>1, <2>1, <2>2, <2>3 DEF Mine
<1>5. ASSUME LastIs(s, t, v) PROVE LastIs(Tail(s), t, v)
  <2> SUFFICES ASSUME NEW i \in Mine(Tail(s), t),
                      \A j \in Mine(Tail(s), t) : j <= i
               PROVE  Outcome(Tail(s)[i].kind) = v
    BY DEF LastIs
  <2>1. i \in Nat /\ i + 1 \in Mine(s, t) /\ Tail(s)[i] = s[i + 1]
    BY <1>3
  <2>2. ASSUME NEW j \in Mine(s, t) PROVE j <= i + 1
    <3>1. j \in 1..Len(s)
      BY <1>1 DEF Mine
    <3>2. CASE j = 1
      BY <2>1, <3>2
    <3>3. CASE j # 1
      <4>1. j - 1 <= i
        BY <1>4, <3>3
      <4>2. QED
        BY <1>1, <2>1, <3>1, <4>1
    <3>4. QED
      BY <3>2, <3>3
  <2>3. Outcome(s[i + 1].kind) = v
    BY <1>5, <2>1, <2>2 DEF LastIs
  <2>4. QED
    BY <2>1, <2>3
<1>6. ASSUME OneReply(s, t) PROVE OneReply(Tail(s), t)
  <2> SUFFICES ASSUME NEW i \in Mine(Tail(s), t), NEW j \in Mine(Tail(s), t),
                      ~Ends(Tail(s)[i].kind), ~Ends(Tail(s)[j].kind)
               PROVE  i = j
    BY DEF OneReply
  <2>1. i \in Nat /\ i + 1 \in Mine(s, t) /\ Tail(s)[i] = s[i + 1]
    BY <1>3
  <2>2. j \in Nat /\ j + 1 \in Mine(s, t) /\ Tail(s)[j] = s[j + 1]
    BY <1>3
  <2>3. i + 1 = j + 1
    BY <1>6, <2>1, <2>2 DEF OneReply
  <2>4. QED
    BY <2>1, <2>2, <2>3
<1>7. ASSUME Buffers(s, t, mb, gv) PROVE Buffers(Tail(s), t, mb, gv)
  <2> SUFFICES ASSUME NEW i \in Mine(Tail(s), t)
               PROVE  /\ Tail(s)[i].kind = "len" => mb = "null" /\ gv = None
                      /\ Tail(s)[i].kind = "data" => mb = "live" /\ gv = None
    BY DEF Buffers
  <2>1. i + 1 \in Mine(s, t) /\ Tail(s)[i] = s[i + 1]
    BY <1>3
  <2>2. QED
    BY <1>7, <2>1 DEF Buffers
<1>8. QED
  BY <1>5, <1>6, <1>7

\* Once its reply is received, only endings are left for thread t.
LEMMA OnlyEndings ==
    ASSUME NEW s \in Seq(Message), s # <<>>, NEW t,
           OneReply(s, t), s[1].to = t, ~Ends(s[1].kind)
    PROVE  \A i \in Mine(Tail(s), t) : Ends(Tail(s)[i].kind)
<1>1. /\ Len(s) \in Nat /\ DOMAIN s = 1..Len(s) /\ 1 \in DOMAIN s
      /\ DOMAIN Tail(s) = 1..(Len(s) - 1)
  BY TailFacts
<1>2. \A i \in 1..(Len(s) - 1) : Tail(s)[i] = s[i + 1]
  BY TailFacts
<1> SUFFICES ASSUME NEW i \in Mine(Tail(s), t), ~Ends(Tail(s)[i].kind)
             PROVE  FALSE
  OBVIOUS
<1>3. i \in 1..(Len(s) - 1) /\ Tail(s)[i].to = t
  BY <1>1 DEF Mine
<1>4. i + 1 \in 1..Len(s) /\ Tail(s)[i] = s[i + 1] /\ i + 1 # 1
  BY <1>1, <1>2, <1>3
<1>5. 1 \in Mine(s, t) /\ i + 1 \in Mine(s, t)
  BY <1>1, <1>3, <1>4 DEF Mine
<1>6. 1 = i + 1
  BY <1>4, <1>5 DEF OneReply
<1>7. QED
  BY <1>4, <1>6

\* The answers to another thread's request change nothing for thread t.
LEMMA ForeignAnswers ==
    ASSUME NEW s \in Seq(Message), NEW u \in Thread, NEW r \in Reply,
           NEW a \in Answers(u, r), NEW t \in Thread, t # u,
           NEW v, NEW mb, NEW gv
    PROVE  /\ LastIs(s, t, v) => LastIs(s \o a, t, v)
           /\ OneReply(s, t) => OneReply(s \o a, t)
           /\ Buffers(s, t, mb, gv) => Buffers(s \o a, t, mb, gv)
<1>1. /\ a \in Seq(Message) /\ Len(a) \in Nat
      /\ \A i \in 1..Len(a) : a[i].to = u
  BY AnswerFacts
<1>2. /\ Len(s) \in Nat /\ DOMAIN s = 1..Len(s)
      /\ DOMAIN (s \o a) = 1..(Len(s) + Len(a))
  BY <1>1, ConcatFacts
<1>3. \A i \in 1..Len(s) : (s \o a)[i] = s[i]
  BY <1>1, ConcatFacts
<1>4. \A i \in 1..Len(a) : (s \o a)[Len(s) + i] = a[i]
  BY <1>1, ConcatFacts
<1>5. Mine(s \o a, t) = Mine(s, t)
  <2>1. ASSUME NEW i \in Mine(s \o a, t) PROVE i \in Mine(s, t)
    <3>1. i \in 1..(Len(s) + Len(a)) /\ (s \o a)[i].to = t
      BY <1>2 DEF Mine
    <3>2. CASE i <= Len(s)
      <4>1. i \in 1..Len(s)
        BY <1>1, <1>2, <3>1, <3>2
      <4>2. QED
        BY <1>2, <1>3, <3>1, <4>1 DEF Mine
    <3>3. CASE i > Len(s)
      <4>1. i - Len(s) \in 1..Len(a) /\ Len(s) + (i - Len(s)) = i
        BY <1>1, <1>2, <3>1, <3>3
      <4>2. (s \o a)[i] = a[i - Len(s)]
        BY <1>4, <4>1
      <4>3. QED
        BY <1>1, <3>1, <4>1, <4>2
    <3>4. QED
      BY <1>1, <1>2, <3>1, <3>2, <3>3
  <2>2. ASSUME NEW i \in Mine(s, t) PROVE i \in Mine(s \o a, t)
    <3>1. i \in 1..Len(s) /\ s[i].to = t
      BY <1>2 DEF Mine
    <3>2. i \in 1..(Len(s) + Len(a)) /\ (s \o a)[i] = s[i]
      BY <1>1, <1>2, <1>3, <3>1
    <3>3. QED
      BY <1>2, <3>1, <3>2 DEF Mine
  <2>3. QED
    BY <2>1, <2>2
<1>6. \A i \in Mine(s, t) : (s \o a)[i] = s[i]
  BY <1>2, <1>3 DEF Mine
<1> HIDE DEF Mine
<1>7. LastIs(s, t, v) => LastIs(s \o a, t, v)
  BY <1>5, <1>6, Zenon DEF LastIs
<1>8. OneReply(s, t) => OneReply(s \o a, t)
  BY <1>5, <1>6, Zenon DEF OneReply
<1>9. Buffers(s, t, mb, gv) => Buffers(s \o a, t, mb, gv)
  BY <1>5, <1>6, Zenon DEF Buffers
<1>10. QED
  BY <1>7, <1>8, <1>9

\* The answers to a request of thread t, when no reply was left for it.
LEMMA OwnAnswers ==
    ASSUME NEW s \in Seq(Message), NEW t \in Thread, NEW r \in Reply,
           NEW a \in Answers(t, r), NEW mb, NEW gv,
           \A i \in Mine(s, t) : Ends(s[i].kind),
           r = "len" => mb = "null" /\ gv = None,
           r = "data" => mb = "live" /\ gv = None
    PROVE  /\ LastIs(s \o a, t, Outcome(a[Len(a)].kind))
           /\ OneReply(s \o a, t)
           /\ Buffers(s \o a, t, mb, gv)
<1> DEFINE n == Len(s) + Len(a)
<1>1. /\ a \in Seq(Message) /\ Len(a) \in {1, 2}
      /\ \A i \in 1..Len(a) : a[i] \in Message /\ a[i].to = t
      /\ Ends(a[Len(a)].kind)
      /\ Len(a) = 2 => a[1].kind = r
  BY AnswerFacts
<1>2. /\ Len(s) \in Nat /\ DOMAIN s = 1..Len(s)
      /\ DOMAIN (s \o a) = 1..n
  BY <1>1, ConcatFacts
<1>3. \A i \in 1..Len(s) : (s \o a)[i] = s[i]
  BY <1>1, ConcatFacts
<1>4. \A i \in 1..Len(a) : (s \o a)[Len(s) + i] = a[i]
  BY <1>1, ConcatFacts
<1>5. /\ Len(a) \in Nat /\ Len(a) \in 1..Len(a)
      /\ n \in Nat /\ n > Len(s) /\ n \in 1..n
  <2>1. CASE Len(a) = 1
    BY <1>2, <2>1
  <2>2. CASE Len(a) = 2
    BY <1>2, <2>2
  <2>3. QED
    BY <1>1, <2>1, <2>2
<1>6. (s \o a)[n] = a[Len(a)] /\ n \in Mine(s \o a, t)
  <2>1. (s \o a)[n] = a[Len(a)]
    BY <1>4, <1>5
  <2>2. a[Len(a)].to = t
    BY <1>1, <1>5
  <2>3. QED
    BY <1>2, <1>5, <2>1, <2>2 DEF Mine
<1>7. \A i \in Mine(s \o a, t) : i \in 1..n
  BY <1>2 DEF Mine
<1>8. ASSUME NEW i \in Mine(s \o a, t), ~Ends((s \o a)[i].kind)
      PROVE  Len(a) = 2 /\ i = Len(s) + 1 /\ (s \o a)[i].kind = r
  <2>1. i \in 1..n /\ (s \o a)[i].to = t
    BY <1>2 DEF Mine
  <2>2. ~(i <= Len(s))
    <3>1. SUFFICES ASSUME i <= Len(s) PROVE FALSE
      OBVIOUS
    <3>2. i \in 1..Len(s)
      BY <1>2, <1>5, <2>1, <3>1
    <3>3. (s \o a)[i] = s[i] /\ i \in Mine(s, t)
      BY <1>2, <1>3, <2>1, <3>2 DEF Mine
    <3>4. QED
      BY <1>8, <3>3
  <2>3. i # n
    BY <1>1, <1>6, <1>8
  <2>4. Len(a) = 2 /\ i = Len(s) + 1
    BY <1>1, <1>2, <2>1, <2>2, <2>3
  <2>5. (s \o a)[Len(s) + 1] = a[1]
    <3>1. 1 \in 1..Len(a)
      BY <2>4
    <3>2. QED
      BY <1>4, <3>1
  <2>6. QED
    BY <1>1, <2>4, <2>5
<1>9. LastIs(s \o a, t, Outcome(a[Len(a)].kind))
  <2> SUFFICES ASSUME NEW i \in Mine(s \o a, t),
                      \A j \in Mine(s \o a, t) : j <= i
               PROVE  Outcome((s \o a)[i].kind) = Outcome(a[Len(a)].kind)
    BY DEF LastIs
  <2>1. i = n
    <3>1. i \in 1..n
      BY <1>7
    <3>2. n <= i
      BY <1>6
    <3>3. QED
      BY <1>5, <3>1, <3>2
  <2>2. QED
    BY <1>6, <2>1
<1>10. OneReply(s \o a, t)
  BY <1>8 DEF OneReply
<1>11. Buffers(s \o a, t, mb, gv)
  <2> SUFFICES ASSUME NEW i \in Mine(s \o a, t)
               PROVE  LET k == (s \o a)[i].kind IN
                      /\ k = "len" => mb = "null" /\ gv = None
                      /\ k = "data" => mb = "live" /\ gv = None
    BY DEF Buffers
  <2>1. CASE Ends((s \o a)[i].kind)
    BY <2>1 DEF Ends
  <2>2. CASE ~Ends((s \o a)[i].kind)
    BY <1>8, <2>2
  <2>3. QED
    BY <2>1, <2>2
<1>12. QED
  BY <1>9, <1>10, <1>11

-----------------------------------------------------------------------------
(* The waits                                                               *)

WaitsOf(f) == UNION {{t} \X (1..f[t]) : t \in Thread}

\* A wait is a thread and one of its calls of requestResponse.
LEMMA WaitFacts ==
    ASSUME NEW f \in [Thread -> Nat], NEW w
    PROVE  w \in WaitsOf(f) <=>
              \E t \in Thread : \E k \in 1..f[t] : w = <<t, k>>
  BY DEF WaitsOf

\* A request is one more wait.
LEMMA OneMoreWait ==
    ASSUME NEW f \in [Thread -> Nat], NEW t \in Thread,
           IsFiniteSet(WaitsOf(f)), NEW g, g = [f EXCEPT ![t] = @ + 1]
    PROVE  /\ IsFiniteSet(WaitsOf(g))
           /\ Cardinality(WaitsOf(g)) = Cardinality(WaitsOf(f)) + 1
<1>1. g \in [Thread -> Nat] /\ g[t] = f[t] + 1 /\ f[t] \in Nat
      /\ \A u \in Thread : u # t => g[u] = f[u]
  OBVIOUS
<1>a. ASSUME NEW w
      PROVE  w \in WaitsOf(g) <=>
                \E u \in Thread : \E k \in 1..g[u] : w = <<u, k>>
  <2>1. g \in [Thread -> Nat]
    BY <1>1, SMT
  <2>2. QED
    BY <2>1, WaitFacts, Zenon
<1>2. 1..g[t] = (1..f[t]) \cup {f[t] + 1}
  BY <1>1
<1>3. WaitsOf(g) = WaitsOf(f) \cup {<<t, f[t] + 1>>}
  <2>1. ASSUME NEW w \in WaitsOf(g)
        PROVE  w \in WaitsOf(f) \cup {<<t, f[t] + 1>>}
    <3>1. PICK u \in Thread : \E k \in 1..g[u] : w = <<u, k>>
      BY <1>a, <2>1, Zenon
    <3>2. PICK k \in 1..g[u] : w = <<u, k>>
      BY <3>1
    <3>3. CASE u = t /\ k = f[t] + 1
      BY <3>2, <3>3
    <3>4. CASE ~(u = t /\ k = f[t] + 1)
      <4>1. k \in 1..f[u]
        BY <1>1, <1>2, <3>2, <3>4
      <4>2. QED
        BY <3>2, <4>1, WaitFacts
    <3>5. QED
      BY <3>3, <3>4
  <2>2. ASSUME NEW w \in WaitsOf(f) PROVE w \in WaitsOf(g)
    <3>1. PICK u \in Thread : \E k \in 1..f[u] : w = <<u, k>>
      BY WaitFacts
    <3>2. PICK k \in 1..f[u] : w = <<u, k>>
      BY <3>1
    <3>3. k \in 1..g[u]
      BY <1>1, <1>2, <3>2
    <3>4. QED
      BY <1>a, <3>2, <3>3
  <2>3. <<t, f[t] + 1>> \in WaitsOf(g)
    <3>1. f[t] + 1 \in 1..g[t]
      BY <1>1
    <3>2. QED
      BY <1>a, <3>1
  <2>4. QED
    BY <2>1, <2>2, <2>3
<1>4. <<t, f[t] + 1>> \notin WaitsOf(f)
  <2> SUFFICES ASSUME <<t, f[t] + 1>> \in WaitsOf(f) PROVE FALSE
    OBVIOUS
  <2>1. PICK u \in Thread : \E k \in 1..f[u] : <<t, f[t] + 1>> = <<u, k>>
    BY WaitFacts
  <2>2. PICK k \in 1..f[u] : <<t, f[t] + 1>> = <<u, k>>
    BY <2>1
  <2>3. u = t /\ k = f[t] + 1
    BY <2>2
  <2>4. QED
    BY <1>1, <2>2, <2>3
<1>5. /\ IsFiniteSet(WaitsOf(f) \cup {<<t, f[t] + 1>>})
      /\ Cardinality(WaitsOf(f) \cup {<<t, f[t] + 1>>})
            = Cardinality(WaitsOf(f)) + 1
  BY <1>4, FS_AddElement, Zenon
<1>6. QED
  BY <1>3, <1>5, Zenon

\* A return from requestResponse is one wait less.
LEMMA OneWaitLess ==
    ASSUME NEW f \in [Thread -> Nat], NEW t \in Thread, f[t] > 0,
           IsFiniteSet(WaitsOf(f)), NEW g, g = [f EXCEPT ![t] = @ - 1]
    PROVE  /\ g \in [Thread -> Nat]
           /\ IsFiniteSet(WaitsOf(g))
           /\ Cardinality(WaitsOf(g)) = Cardinality(WaitsOf(f)) - 1
<1>1. g \in [Thread -> Nat] /\ g[t] = f[t] - 1 /\ f[t] \in Nat
      /\ \A u \in Thread : u # t => g[u] = f[u]
  OBVIOUS
<1>a. ASSUME NEW w
      PROVE  w \in WaitsOf(g) <=>
                \E u \in Thread : \E k \in 1..g[u] : w = <<u, k>>
  <2>1. g \in [Thread -> Nat]
    BY <1>1, SMT
  <2>2. QED
    BY <2>1, WaitFacts, Zenon
<1>2. 1..g[t] = (1..f[t]) \ {f[t]}
  BY <1>1
<1>3. WaitsOf(g) = WaitsOf(f) \ {<<t, f[t]>>}
  <2>1. ASSUME NEW w \in WaitsOf(g) PROVE w \in WaitsOf(f) \ {<<t, f[t]>>}
    <3>1. PICK u \in Thread : \E k \in 1..g[u] : w = <<u, k>>
      BY <1>a, <2>1, Zenon
    <3>2. PICK k \in 1..g[u] : w = <<u, k>>
      BY <3>1
    <3>3. k \in 1..f[u] /\ ~(u = t /\ k = f[t])
      BY <1>1, <1>2, <3>2
    <3>4. w \in WaitsOf(f)
      BY <3>2, <3>3, WaitFacts
    <3>5. w # <<t, f[t]>>
      BY <3>2, <3>3
    <3>6. QED
      BY <3>4, <3>5
  <2>2. ASSUME NEW w \in WaitsOf(f), w # <<t, f[t]>> PROVE w \in WaitsOf(g)
    <3>1. PICK u \in Thread : \E k \in 1..f[u] : w = <<u, k>>
      BY WaitFacts
    <3>2. PICK k \in 1..f[u] : w = <<u, k>>
      BY <3>1
    <3>3. k \in 1..g[u]
      BY <1>1, <1>2, <2>2, <3>2
    <3>4. QED
      BY <1>a, <3>2, <3>3
  <2>3. QED
    BY <2>1, <2>2
<1>4. <<t, f[t]>> \in WaitsOf(f)
  <2>1. f[t] \in 1..f[t]
    BY <1>1
  <2>2. QED
    BY <2>1, WaitFacts
<1>5. /\ IsFiniteSet(WaitsOf(f) \ {<<t, f[t]>>})
      /\ Cardinality(WaitsOf(f) \ {<<t, f[t]>>})
            = Cardinality(WaitsOf(f)) - 1
  BY <1>4, FS_RemoveElement, Zenon
<1>6. QED
  BY <1>1, <1>3, <1>5, Zenon

\* The waits of the state are those of frames.
LEMMA WaitsAre == Waits = WaitsOf(frames) /\ Waits' = WaitsOf(frames')
  BY DEF Waits, WaitsOf

\* When no waiting thread has swapped an answer, nothing is left on the socket
\* for a thread that does not wait: its next request meets no old answer.
LEMMA NoneLeft ==
    ASSUME IInv, \A u \in Thread : frames[u] > 0 => ~mixed[u],
           NEW t \in Thread, frames[t] = 0
    PROVE  Mine(cmd_sock, t) = {} /\ At(cmd_sock, EndsTo({t})) = {}
<1> DEFINE E == At(cmd_sock, EndsTo(Thread))
           E1(u) == At(cmd_sock, EndsTo({u}))
           b(u) == CHOOSE f : f \in Bijection(1..frames[u], E1(u))
           F == [w \in Waits |-> b(w[1])[w[2]]]
<1>1. /\ cmd_sock \in Seq(Message) /\ frames \in [Thread -> Nat]
      /\ IsFiniteSet(E) /\ Cardinality(E) \in Nat
      /\ Cardinality(Waits) = Cardinality(E)
  BY AtFinite DEF IInv, Types, Balanced
<1>2. \A i \in DOMAIN cmd_sock : cmd_sock[i] \in Message
  BY <1>1
<1>3. ASSUME NEW u \in Thread, frames[u] > 0
      PROVE  b(u) \in Bijection(1..frames[u], E1(u))
  <2>1. Cardinality(E1(u)) = frames[u]
    BY <1>3 DEF IInv, Own, OwnAt
  <2>2. IsFiniteSet(E1(u))
    BY <1>1, AtFinite
  <2>3. ExistsBijection(1..Cardinality(E1(u)), E1(u))
    BY <2>2, FS_CardinalityType
  <2>4. \E f : f \in Bijection(1..frames[u], E1(u))
    BY <2>1, <2>3 DEF ExistsBijection
  <2>5. QED
    BY <2>4
<1> HIDE DEF b
<1>4. ASSUME NEW u \in Thread, frames[u] > 0, NEW k \in 1..frames[u]
      PROVE  b(u)[k] \in E1(u)
  BY <1>3, <1>4 DEF Bijection, Surjection
<1>5. ASSUME NEW u \in Thread, frames[u] > 0, NEW j \in 1..frames[u],
             NEW k \in 1..frames[u], b(u)[j] = b(u)[k]
      PROVE  j = k
  <2>1. b(u) \in [1..frames[u] -> E1(u)] /\ IsInjective(b(u))
    BY <1>3, <1>5 DEF Bijection, Injection
  <2>2. DOMAIN b(u) = 1..frames[u]
    BY <2>1
  <2>3. QED
    BY <1>5, <2>1, <2>2 DEF IsInjective
<1>6. ASSUME NEW u \in Thread, NEW i \in E1(u)
      PROVE  i \in E /\ cmd_sock[i].to = u
  BY <1>2, EndsToFacts DEF At
<1>7. ASSUME NEW w \in Waits
      PROVE  /\ w[1] \in Thread /\ w[2] \in 1..frames[w[1]]
             /\ frames[w[1]] > 0 /\ w = <<w[1], w[2]>>
  <2>1. PICK u \in Thread : \E k \in 1..frames[u] : w = <<u, k>>
    BY <1>1, WaitFacts, WaitsAre
  <2>2. PICK k \in 1..frames[u] : w = <<u, k>>
    BY <2>1
  <2>3. w[1] = u /\ w[2] = k
    BY <2>2
  <2>4. frames[u] \in Nat
    BY <1>1
  <2>5. frames[u] > 0
    BY <2>2, <2>4
  <2>6. QED
    BY <2>2, <2>3, <2>5
<1> HIDE DEF E, E1
<1>8. E1(t) = {}
  <2> SUFFICES ASSUME NEW e \in E1(t) PROVE FALSE
    OBVIOUS
  <2>1. e \in E /\ cmd_sock[e].to = t
    BY <1>6
  <2>2. ASSUME NEW w \in Waits
        PROVE  F[w] \in E \ {e} /\ cmd_sock[F[w]].to = w[1]
    <3>1. /\ w[1] \in Thread /\ w[2] \in 1..frames[w[1]]
          /\ frames[w[1]] > 0
      BY <1>7
    <3>2. F[w] \in E1(w[1])
      BY <1>4, <3>1
    <3>3. F[w] \in E /\ cmd_sock[F[w]].to = w[1]
      BY <1>6, <3>1, <3>2
    <3>4. w[1] # t
      BY <1>1, <3>1
    <3>5. QED
      BY <2>1, <3>3, <3>4
  <2>3. ASSUME NEW w \in Waits, NEW x \in Waits, F[w] = F[x]
        PROVE  w = x
    <3>1. /\ w[1] \in Thread /\ w[2] \in 1..frames[w[1]]
          /\ frames[w[1]] > 0 /\ w = <<w[1], w[2]>>
      BY <1>7
    <3>2. x[2] \in 1..frames[x[1]] /\ x = <<x[1], x[2]>>
      BY <1>7
    <3>3. w[1] = x[1]
      BY <2>2, <2>3
    <3>4. b(w[1])[w[2]] = b(w[1])[x[2]]
      BY <2>3, <3>3
    <3>5. w[2] = x[2]
      BY <1>5, <3>1, <3>2, <3>3, <3>4
    <3>6. QED
      BY <3>1, <3>2, <3>3, <3>5
  <2>4. F \in [Waits -> E \ {e}] /\ DOMAIN F = Waits
    BY <2>2
  <2> HIDE DEF F
  <2>5. F \in Injection(Waits, E \ {e})
    BY <2>3, <2>4 DEF Injection, IsInjective
  <2>6. /\ IsFiniteSet(E \ {e})
        /\ Cardinality(E \ {e}) = Cardinality(E) - 1
    BY <1>1, <2>1, FS_RemoveElement
  <2>7. Cardinality(Waits) <= Cardinality(E \ {e})
    BY <2>5, <2>6, FS_Injection
  <2>8. QED
    BY <1>1, <2>6, <2>7
<1>9. Mine(cmd_sock, t) = {}
  <2> SUFFICES ASSUME NEW i \in Mine(cmd_sock, t) PROVE FALSE
    OBVIOUS
  <2>1. i \in DOMAIN cmd_sock /\ cmd_sock[i].to = t
    BY DEF Mine
  <2>2. CASE Ends(cmd_sock[i].kind)
    BY <1>2, <1>8, <2>1, <2>2, EndsToFacts DEF E1, At
  <2>3. CASE ~Ends(cmd_sock[i].kind)
    <3>1. PICK j \in DOMAIN cmd_sock : cmd_sock[j] \in EndsTo({t})
      BY <2>1, <2>3 DEF IInv, Followed
    <3>2. QED
      BY <1>8, <3>1 DEF E1, At
  <2>4. QED
    BY <2>2, <2>3
<1>10. QED
  BY <1>8, <1>9 DEF E1

-----------------------------------------------------------------------------
(* The steps                                                               *)

\* A request of t behind the messages s keeps waits and endings in balance.
LEMMA RequestBalance ==
    ASSUME Types, IsFiniteSet(Waits), NEW t \in Thread, NEW r \in Reply,
           NEW a \in Answers(t, r), NEW s \in Seq(Message), Followed(s),
           Cardinality(Waits) = Cardinality(At(s, EndsTo(Thread))),
           cmd_sock' = s \o a, frames' = [frames EXCEPT ![t] = @ + 1]
    PROVE  Balanced' /\ Followed(cmd_sock')
<1>1. frames \in [Thread -> Nat]
  BY DEF Types
<1>2. /\ IsFiniteSet(Waits')
      /\ Cardinality(Waits') = Cardinality(Waits) + 1
  BY <1>1, OneMoreWait, WaitsAre
<1>3. Cardinality(At(s \o a, EndsTo(Thread)))
          = Cardinality(At(s, EndsTo(Thread))) + 1
  BY CountAnswers
<1>4. Followed(s \o a)
  BY FollowedAnswers
<1>5. QED
  BY <1>2, <1>3, <1>4 DEF Balanced

\* What is t's stays so when another thread's request is answered.
LEMMA OthersKeep ==
    ASSUME NEW t \in Thread, NEW u \in Thread, u # t, NEW r \in Reply,
           NEW a \in Answers(t, r), NEW s \in Seq(Message), OwnAt(s, u),
           cmd_sock' = s \o a, frames'[u] = frames[u],
           verdict'[u] = verdict[u], result'[u] = result[u],
           mBuff'[u] = mBuff[u], given'[u] = given[u]
    PROVE  Own(u)'
<1>1. Cardinality(At(s \o a, EndsTo({u}))) = Cardinality(At(s, EndsTo({u})))
  BY CountAnswers
<1>2. /\ LastIs(s \o a, u, verdict[u])
      /\ OneReply(s \o a, u)
      /\ Buffers(s \o a, u, mBuff[u], given[u])
  BY ForeignAnswers DEF OwnAt
<1>3. QED
  BY <1>1, <1>2 DEF Own, OwnAt

\* An answered request of t, for which there was no reply any more, is t's own.
LEMMA AskersOwn ==
    ASSUME Types, NEW t \in Thread, NEW r \in Reply,
           NEW a \in Answers(t, r), NEW s \in Seq(Message),
           Cardinality(At(s, EndsTo({t}))) = frames[t],
           \A i \in Mine(s, t) : Ends(s[i].kind),
           cmd_sock' = s \o a, frames' = [frames EXCEPT ![t] = @ + 1],
           verdict'[t] = Outcome(a[Len(a)].kind), given'[t] = None,
           r = "len" => mBuff'[t] = "null",
           r = "data" => mBuff'[t] = "live"
    PROVE  Own(t)'
<1>1. Cardinality(At(s \o a, EndsTo({t}))) = frames[t] + 1
  BY CountAnswers
<1>2. frames[t] \in Nat /\ frames'[t] = frames[t] + 1
  BY DEF Types
<1>3. /\ LastIs(s \o a, t, Outcome(a[Len(a)].kind))
      /\ OneReply(s \o a, t)
      /\ Buffers(s \o a, t, mBuff'[t], given'[t])
  BY OwnAnswers
<1>4. given'[t] # "live"
  BY DEF None
<1>5. QED
  BY <1>1, <1>2, <1>3, <1>4 DEF Own, OwnAt

\* The thread of a new command is apart from the others again when no waiting
\* thread has swapped an answer.
LEMMA NewCommandFacts ==
    ASSUME IInv, NEW t \in Thread, NEW k \in {"plain", "dump"},
           NewCommand(t, k)
    PROVE  /\ frames[t] = 0
           /\ kind' \in [Thread -> {"plain", "dump"}]
           /\ made' \in [Thread -> Nat]
           /\ mixed' \in [Thread -> BOOLEAN]
           /\ mBuff' \in [Thread -> {"null", "live", "freed"}]
           /\ given' \in [Thread -> {None, "null", "live", "freed"}]
           /\ mBuff'[t] = "null" /\ given'[t] = None
           /\ \A u \in Thread : u # t =>
                 /\ mixed'[u] = mixed[u] /\ mBuff'[u] = mBuff[u]
                 /\ given'[u] = given[u]
           /\ ~mixed'[t] => /\ Mine(cmd_sock, t) = {}
                            /\ At(cmd_sock, EndsTo({t})) = {}
<1> USE DEF IInv, Types
<1>1. frames[t] = 0
  BY DEF NewCommand
<1>2. /\ kind' \in [Thread -> {"plain", "dump"}]
      /\ made' \in [Thread -> Nat]
  BY DEF NewCommand
<1>3. /\ mBuff' \in [Thread -> {"null", "live", "freed"}]
      /\ given' \in [Thread -> {None, "null", "live", "freed"}]
      /\ mBuff'[t] = "null" /\ given'[t] = None
  BY DEF NewCommand
<1> DEFINE sw == \E u \in Thread : frames[u] > 0 /\ mixed[u]
<1>4. mixed' = [mixed EXCEPT ![t] = sw] /\ sw \in BOOLEAN
  BY DEF NewCommand
<1> HIDE DEF sw
<1>5. mixed' \in [Thread -> BOOLEAN] /\ mixed'[t] = sw
  BY <1>4
<1>6. \A u \in Thread : u # t =>
         /\ mixed'[u] = mixed[u] /\ mBuff'[u] = mBuff[u]
         /\ given'[u] = given[u]
  BY <1>4 DEF NewCommand
<1>7. ASSUME ~mixed'[t]
      PROVE  Mine(cmd_sock, t) = {} /\ At(cmd_sock, EndsTo({t})) = {}
  <2>1. \A u \in Thread : frames[u] > 0 => ~mixed[u]
    BY <1>5, <1>7 DEF sw
  <2>2. QED
    BY <1>1, <2>1, NoneLeft
<1>8. QED
  BY <1>1, <1>2, <1>3, <1>5, <1>6, <1>7

\* Sending a request keeps the invariant.
LEMMA SendStep ==
    ASSUME IInv, NEW t \in Thread, NEW k \in {"plain", "dump"}, Send(t, k)
    PROVE  IInv'
<1> DEFINE r == IF k = "dump" THEN "len" ELSE "reply"
<1>1. r \in Reply /\ r # "data"
  BY DEF Reply
<1>2. PICK a \in Answers(t, r) :
        /\ cmd_sock' = cmd_sock \o a
        /\ verdict' = [verdict EXCEPT ![t] = Outcome(a[Len(a)].kind)]
        /\ frames' = [frames EXCEPT ![t] = @ + 1]
  BY DEF Send, Request
<1> HIDE DEF r
<1>3. NewCommand(t, k) /\ result' = [result EXCEPT ![t] = None]
  BY DEF Send
<1>4. /\ frames[t] = 0
      /\ kind' \in [Thread -> {"plain", "dump"}]
      /\ made' \in [Thread -> Nat]
      /\ mixed' \in [Thread -> BOOLEAN]
      /\ mBuff' \in [Thread -> {"null", "live", "freed"}]
      /\ given' \in [Thread -> {None, "null", "live", "freed"}]
      /\ mBuff'[t] = "null" /\ given'[t] = None
  BY <1>3, NewCommandFacts
<1>5. \A u \in Thread : u # t =>
         /\ mixed'[u] = mixed[u] /\ mBuff'[u] = mBuff[u]
         /\ given'[u] = given[u]
  BY <1>3, NewCommandFacts
<1>6. ~mixed'[t] => /\ Mine(cmd_sock, t) = {}
                    /\ At(cmd_sock, EndsTo({t})) = {}
  BY <1>3, NewCommandFacts
<1>7. Types /\ cmd_sock \in Seq(Message) /\ Followed(cmd_sock)
      /\ IsFiniteSet(Waits)
      /\ Cardinality(Waits) = Cardinality(At(cmd_sock, EndsTo(Thread)))
  BY DEF IInv, Types, Balanced
<1>8. Types'
  <2>1. cmd_sock' \in Seq(Message)
    BY <1>1, <1>2, <1>7, AnswerFacts, ConcatFacts
  <2>2. Outcome(a[Len(a)].kind) \in {"ok", "refused"}
    BY <1>1, AnswerFacts
  <2>3. frames' \in [Thread -> Nat]
    BY <1>2, <1>7 DEF Types
  <2>4. verdict' \in [Thread -> {None, "ok", "refused"}]
    BY <1>2, <1>7, <2>2 DEF Types
  <2>5. result' \in [Thread -> {None, "ok", "refused", "error"}]
    BY <1>3, <1>7 DEF Types
  <2>6. QED
    BY <1>4, <2>1, <2>3, <2>4, <2>5 DEF Types
<1>9. Balanced' /\ Followed(cmd_sock')
  BY <1>1, <1>2, <1>7, RequestBalance
<1>10. ASSUME NEW u \in Thread, ~mixed'[u] PROVE Own(u)'
  <2>1. CASE u = t
    <3>1. Mine(cmd_sock, t) = {} /\ At(cmd_sock, EndsTo({t})) = {}
      BY <1>6, <1>10, <2>1
    <3>2. Cardinality(At(cmd_sock, EndsTo({t}))) = frames[t]
      BY <1>4, <3>1, FS_EmptySet
    <3>3. verdict'[t] = Outcome(a[Len(a)].kind)
      BY <1>2, <1>7 DEF Types
    <3>4. Own(t)'
      BY <1>1, <1>2, <1>4, <1>7, <3>1, <3>2, <3>3, AskersOwn
    <3>5. QED
      BY <2>1, <3>4
  <2>2. CASE u # t
    <3>1. ~mixed[u]
      BY <1>5, <1>10, <2>2
    <3>2. OwnAt(cmd_sock, u)
      BY <3>1 DEF IInv, Own
    <3>3. /\ frames'[u] = frames[u] /\ verdict'[u] = verdict[u]
          /\ result'[u] = result[u]
      BY <1>2, <1>3, <1>7, <2>2 DEF Types
    <3>4. mBuff'[u] = mBuff[u] /\ given'[u] = given[u]
      BY <1>5, <2>2
    <3>5. QED
      BY <1>1, <1>2, <1>7, <2>2, <3>2, <3>3, <3>4, OthersKeep
  <2>3. QED
    BY <2>1, <2>2
<1>11. QED
  BY <1>8, <1>9, <1>10 DEF IInv

\* A request that cannot be sent keeps the invariant.
LEMMA SendFailsStep ==
    ASSUME IInv, NEW t \in Thread, NEW k \in {"plain", "dump"},
           SendFails(t, k)
    PROVE  IInv'
<1>1. /\ NewCommand(t, k) /\ verdict' = [verdict EXCEPT ![t] = None]
      /\ frames' = frames /\ cmd_sock' = cmd_sock
  BY DEF SendFails
<1>2. result' = [result EXCEPT ![t] = "error"]
      \/ result' = [result EXCEPT ![t] = "ok"]
  BY DEF SendFails
<1>3. /\ frames[t] = 0
      /\ kind' \in [Thread -> {"plain", "dump"}]
      /\ made' \in [Thread -> Nat]
      /\ mixed' \in [Thread -> BOOLEAN]
      /\ mBuff' \in [Thread -> {"null", "live", "freed"}]
      /\ given' \in [Thread -> {None, "null", "live", "freed"}]
      /\ mBuff'[t] = "null" /\ given'[t] = None
  BY <1>1, NewCommandFacts
<1>4. \A u \in Thread : u # t =>
         /\ mixed'[u] = mixed[u] /\ mBuff'[u] = mBuff[u]
         /\ given'[u] = given[u]
  BY <1>1, NewCommandFacts
<1>5. ~mixed'[t] => /\ Mine(cmd_sock, t) = {}
                    /\ At(cmd_sock, EndsTo({t})) = {}
  BY <1>1, NewCommandFacts
<1>6. Types
  BY DEF IInv
<1>7. Types'
  <2>1. verdict' \in [Thread -> {None, "ok", "refused"}]
    BY <1>1, <1>6 DEF Types
  <2>2. result' \in [Thread -> {None, "ok", "refused", "error"}]
    BY <1>2, <1>6 DEF Types
  <2>3. QED
    BY <1>1, <1>3, <1>6, <2>1, <2>2 DEF Types
<1>8. Balanced' /\ Followed(cmd_sock')
  BY <1>1, WaitsAre DEF IInv, Balanced
<1>9. ASSUME NEW u \in Thread, ~mixed'[u] PROVE Own(u)'
  <2>1. CASE u = t
    <3>1. Mine(cmd_sock, t) = {} /\ At(cmd_sock, EndsTo({t})) = {}
      BY <1>5, <1>9, <2>1
    <3>2. Cardinality(At(cmd_sock, EndsTo({t}))) = frames[t]
      BY <1>3, <3>1, FS_EmptySet
    <3>3. verdict'[t] = None
      BY <1>1, <1>6 DEF Types
    <3>4. /\ LastIs(cmd_sock, t, None) /\ OneReply(cmd_sock, t)
          /\ Buffers(cmd_sock, t, "null", None)
      BY <3>1 DEF LastIs, OneReply, Buffers
    <3>5. None # "live"
      BY DEF None
    <3>6. QED
      BY <1>1, <1>3, <2>1, <3>2, <3>3, <3>4, <3>5 DEF Own, OwnAt
  <2>2. CASE u # t
    <3>1. ~mixed[u]
      BY <1>4, <1>9, <2>2
    <3>2. OwnAt(cmd_sock, u)
      BY <3>1 DEF IInv, Own
    <3>3. frames'[u] = frames[u] /\ verdict'[u] = verdict[u]
      BY <1>1, <1>6, <2>2 DEF Types
    <3>4. result'[u] = result[u]
      BY <1>2, <1>6, <2>2 DEF Types
    <3>5. mBuff'[u] = mBuff[u] /\ given'[u] = given[u]
      BY <1>4, <2>2
    <3>6. QED
      BY <1>1, <3>2, <3>3, <3>4, <3>5 DEF Own, OwnAt
  <2>3. QED
    BY <2>1, <2>2
<1>10. QED
  BY <1>7, <1>8, <1>9 DEF IInv

\* Who takes a message of another thread, and that thread, count as mixed from
\* then on; a thread that does not has taken its own.
LEMMA TakesFacts ==
    ASSUME Types, NEW t \in Thread, Takes(t)
    PROVE  /\ cmd_sock \in Seq(Message) /\ cmd_sock # <<>>
           /\ Head(cmd_sock) = cmd_sock[1] /\ cmd_sock[1] \in Message
           /\ Tail(cmd_sock) \in Seq(Message)
           /\ frames[t] \in Nat /\ frames[t] > 0
           /\ mixed' \in [Thread -> BOOLEAN]
           /\ \A u \in Thread : ~mixed'[u] =>
                 /\ ~mixed[u]
                 /\ u = t => cmd_sock[1].to = t
                 /\ u # t => cmd_sock[1].to # u
<1>1. /\ cmd_sock \in Seq(Message) /\ cmd_sock # <<>>
      /\ frames[t] \in Nat /\ frames[t] > 0
      /\ mixed \in [Thread -> BOOLEAN]
  BY DEF Types, Takes
<1>2. /\ Head(cmd_sock) = cmd_sock[1] /\ cmd_sock[1] \in Message
      /\ Tail(cmd_sock) \in Seq(Message)
  BY <1>1, TailFacts
<1> DEFINE o == cmd_sock[1].to
<1>3. o \in Thread
  BY <1>2 DEF Message
<1>4. mixed' = IF o = t THEN mixed
               ELSE [mixed EXCEPT ![t] = TRUE, ![o] = TRUE]
  BY <1>2 DEF Takes
<1> HIDE DEF o
<1>5. mixed' \in [Thread -> BOOLEAN]
  BY <1>1, <1>3, <1>4
<1>6. ASSUME NEW u \in Thread, ~mixed'[u]
      PROVE  ~mixed[u] /\ (u = t => o = t) /\ (u # t => o # u)
  <2>1. CASE o = t
    BY <1>4, <1>6, <2>1
  <2>2. CASE o # t
    <3>1. mixed' = [mixed EXCEPT ![t] = TRUE, ![o] = TRUE]
      BY <1>4, <2>2
    <3>2. mixed'[t] = TRUE /\ mixed'[o] = TRUE
      BY <1>1, <1>3, <3>1
    <3>3. u # t /\ u # o
      BY <1>6, <3>2
    <3>4. mixed'[u] = mixed[u]
      BY <1>1, <3>1, <3>3
    <3>5. QED
      BY <1>6, <3>3, <3>4
  <2>3. QED
    BY <2>1, <2>2
<1>7. QED
  BY <1>1, <1>2, <1>5, <1>6 DEF o

\* What is u's stays so when a message that is not an ending of u's is taken.
LEMMA TakingKeeps ==
    ASSUME Types, NEW u \in Thread, Own(u), cmd_sock # <<>>,
           cmd_sock[1].to = u => ~Ends(cmd_sock[1].kind)
    PROVE  OwnAt(Tail(cmd_sock), u)
<1>1. cmd_sock \in Seq(Message) /\ cmd_sock[1] \in Message
  BY TailFacts DEF Types
<1>2. cmd_sock[1] \notin EndsTo({u})
  BY <1>1, EndsToFacts
<1>3. Cardinality(At(Tail(cmd_sock), EndsTo({u})))
          = Cardinality(At(cmd_sock, EndsTo({u})))
  BY <1>1, <1>2, CountTail
<1>4. /\ LastIs(Tail(cmd_sock), u, verdict[u])
      /\ OneReply(Tail(cmd_sock), u)
      /\ Buffers(Tail(cmd_sock), u, mBuff[u], given[u])
  BY <1>1, OwnTail DEF Own, OwnAt
<1>5. QED
  BY <1>3, <1>4 DEF Own, OwnAt

\* Taking a message that ends no wait keeps waits and endings in balance.
LEMMA ReplyBalance ==
    ASSUME IInv, cmd_sock # <<>>, ~Ends(cmd_sock[1].kind)
    PROVE  /\ Followed(Tail(cmd_sock))
           /\ Cardinality(At(Tail(cmd_sock), EndsTo(Thread)))
                 = Cardinality(At(cmd_sock, EndsTo(Thread)))
<1>1. cmd_sock \in Seq(Message) /\ cmd_sock[1] \in Message
  BY TailFacts DEF IInv, Types
<1>2. cmd_sock[1] \notin EndsTo(Thread)
  BY <1>1, EndsToFacts
<1>3. QED
  BY <1>1, <1>2, CountTail, FollowedTail DEF IInv

\* The only ending left for a thread is the last of its messages, and says what
\* the driver made of its last request.
LEMMA LastEnding ==
    ASSUME IInv, NEW t \in Thread, Own(t), cmd_sock # <<>>, frames[t] = 1,
           cmd_sock[1].to = t, Ends(cmd_sock[1].kind)
    PROVE  Outcome(cmd_sock[1].kind) = verdict[t]
<1> DEFINE s == cmd_sock
           E == At(s, EndsTo({t}))
<1>1. /\ s \in Seq(Message) /\ 1 \in DOMAIN s /\ Len(s) \in Nat
      /\ DOMAIN s = 1..Len(s)
  BY TailFacts DEF IInv, Types
<1>2. \A i \in DOMAIN s : s[i] \in Message
  BY <1>1
<1>3. IsFiniteSet(E) /\ Cardinality(E) = 1
  BY <1>1, AtFinite DEF Own, OwnAt
<1>4. PICK x : E = {x}
  BY <1>3, FS_Singleton
<1>5. 1 \in E
  BY <1>1, <1>2, EndsToFacts DEF At
<1>6. ASSUME NEW j \in Mine(s, t) PROVE j <= 1
  <2>1. j \in 1..Len(s) /\ j \in DOMAIN s /\ s[j].to = t
    BY <1>1 DEF Mine
  <2>2. CASE Ends(s[j].kind)
    <3>1. j \in E
      BY <1>2, <2>1, <2>2, EndsToFacts DEF At
    <3>2. QED
      BY <1>4, <1>5, <3>1
  <2>3. CASE ~Ends(s[j].kind)
    <3>1. PICK i \in DOMAIN s : i > j /\ s[i] \in EndsTo({t})
      BY <2>1, <2>3 DEF IInv, Followed
    <3>2. i \in E
      BY <3>1 DEF At
    <3>3. i = 1
      BY <1>4, <1>5, <3>2
    <3>4. QED
      BY <1>1, <2>1, <3>1, <3>3
  <2>4. QED
    BY <2>2, <2>3
<1>7. 1 \in Mine(s, t)
  BY <1>1 DEF Mine
<1>8. LastIs(s, t, verdict[t])
  BY DEF Own, OwnAt
<1>9. QED
  BY <1>6, <1>7, <1>8 DEF LastIs

\* The end of a wait keeps the invariant.
LEMMA ReceiveEndStep ==
    ASSUME IInv, NEW t \in Thread, ReceiveEnd(t)
    PROVE  IInv'
<1>1. /\ Takes(t) /\ Ends(Head(cmd_sock).kind)
      /\ cmd_sock' = Tail(cmd_sock)
      /\ frames' = [frames EXCEPT ![t] = @ - 1]
      /\ UNCHANGED <<kind, made, verdict, mBuff, given>>
  BY DEF ReceiveEnd, dumpVars
<1>2. result' = IF frames[t] > 1 THEN result
                ELSE [result EXCEPT ![t] = Outcome(Head(cmd_sock).kind)]
  BY DEF ReceiveEnd
<1>3. Types
  BY DEF IInv
<1>4. /\ cmd_sock \in Seq(Message) /\ cmd_sock # <<>>
      /\ Head(cmd_sock) = cmd_sock[1] /\ cmd_sock[1] \in Message
      /\ Tail(cmd_sock) \in Seq(Message)
      /\ frames[t] \in Nat /\ frames[t] > 0
      /\ mixed' \in [Thread -> BOOLEAN]
  BY <1>1, <1>3, TakesFacts
<1>5. \A u \in Thread : ~mixed'[u] => /\ ~mixed[u]
                                      /\ u = t => cmd_sock[1].to = t
                                      /\ u # t => cmd_sock[1].to # u
  BY <1>1, <1>3, TakesFacts
<1>6. frames \in [Thread -> Nat] /\ IsFiniteSet(Waits)
  BY <1>3 DEF Types, IInv, Balanced
<1>7. /\ frames' \in [Thread -> Nat]
      /\ IsFiniteSet(Waits')
      /\ Cardinality(Waits') = Cardinality(Waits) - 1
  BY <1>1, <1>4, <1>6, OneWaitLess, WaitsAre
<1>8. Types'
  <2>1. Outcome(Head(cmd_sock).kind) \in {"ok", "refused"}
    BY DEF Outcome
  <2>2. result' \in [Thread -> {None, "ok", "refused", "error"}]
    BY <1>2, <1>3, <2>1 DEF Types
  <2>3. QED
    BY <1>1, <1>3, <1>4, <1>7, <2>2 DEF Types
<1>9. Balanced'
  <2>1. cmd_sock[1] \in EndsTo(Thread)
    <3>1. cmd_sock[1].to \in Thread
      BY <1>4 DEF Message
    <3>2. QED
      BY <1>1, <1>4, <3>1, EndsToFacts
  <2>2. Cardinality(At(Tail(cmd_sock), EndsTo(Thread)))
            = Cardinality(At(cmd_sock, EndsTo(Thread))) - 1
    BY <1>4, <2>1, CountTail
  <2>3. QED
    BY <1>1, <1>7, <2>2 DEF IInv, Balanced
<1>10. Followed(cmd_sock')
  BY <1>1, <1>4, FollowedTail DEF IInv
<1>11. ASSUME NEW u \in Thread, ~mixed'[u] PROVE Own(u)'
  <2>1. Own(u)
    BY <1>5, <1>11 DEF IInv
  <2>2. CASE u # t
    <3>1. OwnAt(Tail(cmd_sock), u)
      BY <1>3, <1>4, <1>5, <1>11, <2>1, <2>2, TakingKeeps
    <3>2. frames'[u] = frames[u] /\ result'[u] = result[u]
      BY <1>1, <1>2, <1>3, <2>2 DEF Types
    <3>3. QED
      BY <1>1, <3>1, <3>2 DEF Own, OwnAt
  <2>3. CASE u = t
    <3>1. cmd_sock[1].to = t
      BY <1>5, <1>11, <2>3
    <3>2. cmd_sock[1] \in EndsTo({t})
      BY <1>1, <1>4, <3>1, EndsToFacts
    <3>3. Cardinality(At(Tail(cmd_sock), EndsTo({t})))
              = Cardinality(At(cmd_sock, EndsTo({t}))) - 1
      BY <1>4, <3>2, CountTail
    <3>4. Cardinality(At(cmd_sock, EndsTo({t}))) = frames[t]
      BY <2>1, <2>3 DEF Own, OwnAt
    <3>5. frames'[t] = frames[t] - 1
      BY <1>1, <1>6
    <3>6. /\ LastIs(Tail(cmd_sock), t, verdict[t])
          /\ OneReply(Tail(cmd_sock), t)
          /\ Buffers(Tail(cmd_sock), t, mBuff[t], given[t])
      BY <1>4, <2>1, <2>3, OwnTail DEF Own, OwnAt
    <3>7. ASSUME frames'[t] = 0 PROVE result'[t] = verdict[t]
      <4>1. frames[t] = 1 /\ ~(frames[t] > 1)
        BY <1>4, <3>5, <3>7
      <4>2. Outcome(cmd_sock[1].kind) = verdict[t]
        BY <1>1, <1>4, <2>1, <2>3, <3>1, <4>1, LastEnding
      <4>3. result' = [result EXCEPT ![t] = verdict[t]]
        BY <1>2, <1>4, <4>1, <4>2
      <4>4. QED
        BY <1>3, <4>3 DEF Types
    <3>8. QED
      BY <1>1, <2>1, <2>3, <3>3, <3>4, <3>5, <3>6, <3>7 DEF Own, OwnAt
  <2>4. QED
    BY <2>2, <2>3
<1>12. QED
  BY <1>8, <1>9, <1>10, <1>11 DEF IInv

\* Only endings are left for t when it has taken its reply.
LEMMA ReplyTaken ==
    ASSUME Types, NEW t \in Thread, Own(t), cmd_sock # <<>>,
           cmd_sock[1].to = t, ~Ends(cmd_sock[1].kind)
    PROVE  /\ OwnAt(Tail(cmd_sock), t)
           /\ \A i \in Mine(Tail(cmd_sock), t) : Ends(Tail(cmd_sock)[i].kind)
           /\ cmd_sock[1].kind = "len" => given[t] = None
           /\ cmd_sock[1].kind = "data" => mBuff[t] = "live"
<1>1. cmd_sock \in Seq(Message) /\ 1 \in Mine(cmd_sock, t)
  BY TailFacts DEF Types, Mine
<1>2. OwnAt(Tail(cmd_sock), t)
  BY TakingKeeps
<1>3. OneReply(cmd_sock, t) /\ Buffers(cmd_sock, t, mBuff[t], given[t])
  BY DEF Own, OwnAt
<1>4. \A i \in Mine(Tail(cmd_sock), t) : Ends(Tail(cmd_sock)[i].kind)
  BY <1>1, <1>3, OnlyEndings
<1>5. QED
  BY <1>1, <1>2, <1>3, <1>4 DEF Buffers

\* Without a reply on the socket any buffer will do.
LEMMA AnyBuffer ==
    ASSUME NEW s, NEW t, NEW mb, NEW gv,
           \A i \in Mine(s, t) : Ends(s[i].kind)
    PROVE  Buffers(s, t, mb, gv)
  BY DEF Buffers, Ends

\* A reply that is only kept, the length of a dump and the dump itself keep the
\* invariant.
LEMMA ReceiveOthersStep ==
    ASSUME IInv, NEW t \in Thread,
           ReceiveReply(t) \/ ReceiveLen(t) \/ ReceiveData(t)
    PROVE  IInv'
<1>1. Takes(t) /\ UNCHANGED <<kind, made, result>>
  BY DEF ReceiveReply, ReceiveLen, ReceiveData, dumpVars
<1>2. Types
  BY DEF IInv
<1>3. /\ cmd_sock \in Seq(Message) /\ cmd_sock # <<>>
      /\ Head(cmd_sock) = cmd_sock[1] /\ cmd_sock[1] \in Message
      /\ Tail(cmd_sock) \in Seq(Message)
      /\ frames[t] \in Nat /\ frames[t] > 0
      /\ mixed' \in [Thread -> BOOLEAN]
  BY <1>1, <1>2, TakesFacts
<1>4. \A u \in Thread : ~mixed'[u] => /\ ~mixed[u]
                                      /\ u = t => cmd_sock[1].to = t
                                      /\ u # t => cmd_sock[1].to # u
  BY <1>1, <1>2, TakesFacts
<1>5. ~Ends(cmd_sock[1].kind)
  BY <1>3 DEF ReceiveReply, ReceiveLen, ReceiveData, Ends
<1>6. /\ Followed(Tail(cmd_sock)) /\ IsFiniteSet(Waits)
      /\ Cardinality(Waits)
            = Cardinality(At(Tail(cmd_sock), EndsTo(Thread)))
  BY <1>3, <1>5, ReplyBalance DEF IInv, Balanced
<1>7. ASSUME NEW u \in Thread, ~mixed'[u]
      PROVE  Own(u) /\ OwnAt(Tail(cmd_sock), u)
  <2>1. Own(u)
    BY <1>4, <1>7 DEF IInv
  <2>2. QED
    BY <1>2, <1>3, <1>5, <2>1, TakingKeeps
<1>8. ASSUME ~mixed'[t]
      PROVE  /\ OwnAt(Tail(cmd_sock), t)
             /\ \A i \in Mine(Tail(cmd_sock), t) :
                   Ends(Tail(cmd_sock)[i].kind)
             /\ cmd_sock[1].kind = "len" => given[t] = None
             /\ cmd_sock[1].kind = "data" => mBuff[t] = "live"
  <2>1. Own(t) /\ cmd_sock[1].to = t
    BY <1>4, <1>7, <1>8
  <2>2. QED
    BY <1>2, <1>3, <1>5, <2>1, ReplyTaken
<1>9. ASSUME cmd_sock' = Tail(cmd_sock), UNCHANGED <<frames, verdict>>,
             mBuff' \in [Thread -> {"null", "live", "freed"}],
             given' \in [Thread -> {None, "null", "live", "freed"}],
             \A u \in Thread : u # t => /\ mBuff'[u] = mBuff[u]
                                        /\ given'[u] = given[u],
             ~mixed'[t] => /\ given'[t] \in {None, "live"}
                           /\ given'[t] = "live" => mBuff'[t] = "null"
      PROVE  IInv'
  <2>1. Types'
    BY <1>1, <1>2, <1>3, <1>9 DEF Types
  <2>2. Balanced' /\ Followed(cmd_sock')
    BY <1>6, <1>9, WaitsAre DEF Balanced
  <2>3. ASSUME NEW u \in Thread, ~mixed'[u] PROVE Own(u)'
    <3>1. OwnAt(Tail(cmd_sock), u)
      BY <1>7, <2>3
    <3>2. CASE u # t
      BY <1>1, <1>9, <3>1, <3>2 DEF Own, OwnAt
    <3>3. CASE u = t
      <4>1. Buffers(Tail(cmd_sock), t, mBuff'[t], given'[t])
        BY <1>8, <2>3, <3>3, AnyBuffer
      <4>2. QED
        BY <1>1, <1>9, <2>3, <3>1, <3>3, <4>1 DEF Own, OwnAt
    <3>4. QED
      BY <3>2, <3>3
  <2>4. QED
    BY <2>1, <2>2, <2>3 DEF IInv
<1>10. CASE ReceiveReply(t)
  <2>1. /\ cmd_sock' = Tail(cmd_sock)
        /\ UNCHANGED <<frames, verdict, mBuff, given>>
    BY <1>10 DEF ReceiveReply, dumpVars
  <2>2. ~mixed'[t] => /\ given'[t] \in {None, "live"}
                      /\ given'[t] = "live" => mBuff'[t] = "null"
    BY <1>7, <2>1 DEF Own, OwnAt
  <2>3. QED
    BY <1>2, <1>9, <2>1, <2>2 DEF Types
<1>11. CASE ReceiveData(t)
  <2>1. /\ cmd_sock' = Tail(cmd_sock) /\ cmd_sock[1].kind = "data"
        /\ UNCHANGED <<frames, verdict>>
        /\ given' = [given EXCEPT ![t] = mBuff[t]]
        /\ mBuff' = [mBuff EXCEPT ![t] = "null"]
    BY <1>3, <1>11 DEF ReceiveData
  <2>2. /\ given' \in [Thread -> {None, "null", "live", "freed"}]
        /\ mBuff' \in [Thread -> {"null", "live", "freed"}]
        /\ given'[t] = mBuff[t] /\ mBuff'[t] = "null"
    BY <1>2, <2>1 DEF Types
  <2>3. \A u \in Thread : u # t => /\ mBuff'[u] = mBuff[u]
                                   /\ given'[u] = given[u]
    BY <1>2, <2>1 DEF Types
  <2>4. ~mixed'[t] => given'[t] = "live"
    BY <1>8, <2>1, <2>2
  <2>5. QED
    BY <1>9, <2>1, <2>2, <2>3, <2>4
<1>12. CASE ReceiveLen(t)
  <2>1. cmd_sock[1].kind = "len" /\ given' = given
    BY <1>3, <1>12 DEF ReceiveLen
  <2>2. \E m \in {"null", "live", "freed"} : mBuff' = [mBuff EXCEPT ![t] = m]
    BY <1>12 DEF ReceiveLen
  <2>3. /\ mBuff' \in [Thread -> {"null", "live", "freed"}]
        /\ \A u \in Thread : u # t => mBuff'[u] = mBuff[u]
    BY <1>2, <2>2 DEF Types
  <2>4. ~mixed'[t] => given'[t] = None
    BY <1>8, <2>1
  <2>5. None # "live"
    BY DEF None
  <2>6. CASE cmd_sock' = Tail(cmd_sock) /\ UNCHANGED <<verdict, frames>>
    BY <1>2, <1>9, <2>1, <2>3, <2>4, <2>5, <2>6 DEF Types
  <2>7. ASSUME mBuff' = [mBuff EXCEPT ![t] = "live"],
               NEW a \in Answers(t, "data"),
               cmd_sock' = Tail(cmd_sock) \o a,
               verdict' = [verdict EXCEPT ![t] = Outcome(a[Len(a)].kind)],
               frames' = [frames EXCEPT ![t] = @ + 1]
        PROVE  IInv'
    <3>1. "data" \in Reply
      BY DEF Reply
    <3>2. Types'
      <4>1. cmd_sock' \in Seq(Message)
        BY <1>3, <2>7, <3>1, AnswerFacts, ConcatFacts
      <4>2. Outcome(a[Len(a)].kind) \in {"ok", "refused"}
        BY <3>1, AnswerFacts
      <4>3. frames' \in [Thread -> Nat]
        BY <1>2, <2>7 DEF Types
      <4>4. verdict' \in [Thread -> {None, "ok", "refused"}]
        BY <1>2, <2>7, <4>2 DEF Types
      <4>5. QED
        BY <1>1, <1>2, <1>3, <2>1, <2>3, <4>1, <4>3, <4>4 DEF Types
    <3>3. Balanced' /\ Followed(cmd_sock')
      BY <1>2, <1>3, <1>6, <2>7, <3>1, RequestBalance
    <3>4. ASSUME NEW u \in Thread, ~mixed'[u] PROVE Own(u)'
      <4>1. OwnAt(Tail(cmd_sock), u)
        BY <1>7, <3>4
      <4>2. CASE u # t
        <5>1. /\ frames'[u] = frames[u] /\ verdict'[u] = verdict[u]
              /\ mBuff'[u] = mBuff[u]
          BY <1>2, <2>7, <4>2 DEF Types
        <5>2. result'[u] = result[u] /\ given'[u] = given[u]
          BY <1>1, <2>1
        <5>3. QED
          BY <1>3, <2>7, <3>1, <4>1, <4>2, <5>1, <5>2, OthersKeep
      <4>3. CASE u = t
        <5>1. /\ verdict'[t] = Outcome(a[Len(a)].kind)
              /\ mBuff'[t] = "live"
          BY <1>2, <2>7 DEF Types
        <5>2. given'[t] = None
          BY <2>4, <3>4, <4>3
        <5>3. Cardinality(At(Tail(cmd_sock), EndsTo({t}))) = frames[t]
          BY <4>1, <4>3 DEF OwnAt
        <5>4. \A i \in Mine(Tail(cmd_sock), t) : Ends(Tail(cmd_sock)[i].kind)
          BY <1>8, <3>4, <4>3
        <5>5. Own(t)'
          BY <1>2, <1>3, <2>7, <3>1, <5>1, <5>2, <5>3, <5>4, AskersOwn
        <5>6. QED
          BY <4>3, <5>5
      <4>4. QED
        BY <4>2, <4>3
    <3>5. QED
      BY <3>2, <3>3, <3>4 DEF IInv
  <2>8. QED
    BY <1>12, <2>6, <2>7 DEF ReceiveLen
<1>13. QED
  BY <1>10, <1>11, <1>12

\* Before the first request nobody waits and the socket is empty.
LEMMA Initially == Init => IInv
<1> SUFFICES ASSUME Init PROVE IInv
  OBVIOUS
<1>1. Types
  BY DEF Init, Types, None
<1>2. Waits = {}
  <2>1. frames \in [Thread -> Nat] /\ \A t \in Thread : 1..frames[t] = {}
    BY DEF Init
  <2>2. QED
    BY <2>1 DEF Waits
<1>3. \A K : At(cmd_sock, K) = {}
  BY DEF Init, At
<1>4. Balanced
  BY <1>2, <1>3, FS_EmptySet DEF Balanced
<1>5. Followed(cmd_sock)
  BY DEF Init, Followed
<1>6. ASSUME NEW t \in Thread PROVE Own(t)
  <2>1. frames[t] = 0 /\ verdict[t] = None /\ given[t] = None
    BY DEF Init
  <2>2. Mine(cmd_sock, t) = {}
    BY DEF Init, Mine
  <2>3. /\ LastIs(cmd_sock, t, verdict[t]) /\ OneReply(cmd_sock, t)
        /\ Buffers(cmd_sock, t, mBuff[t], given[t])
    BY <2>2 DEF LastIs, OneReply, Buffers
  <2>4. Cardinality(At(cmd_sock, EndsTo({t}))) = 0
    BY <1>3, FS_EmptySet
  <2>5. None # "live"
    BY DEF None
  <2>6. QED
    BY <2>1, <2>3, <2>4, <2>5 DEF Own, OwnAt
<1>7. QED
  BY <1>1, <1>4, <1>5, <1>6 DEF IInv

\* Every step of requestResponse keeps the invariant.
LEMMA Inductive == IInv /\ [Next]_vars => IInv'
<1> SUFFICES ASSUME IInv, [Next]_vars PROVE IInv'
  OBVIOUS
<1>1. CASE Next
  <2>1. PICK t \in Thread :
          \/ \E k \in {"plain", "dump"} : Send(t, k) \/ SendFails(t, k)
          \/ Receive(t)
    BY <1>1 DEF Next
  <2>2. CASE \E k \in {"plain", "dump"} : Send(t, k) \/ SendFails(t, k)
    BY <2>2, SendStep, SendFailsStep
  <2>3. CASE Receive(t)
    BY <2>3, ReceiveEndStep, ReceiveOthersStep DEF Receive
  <2>4. QED
    BY <2>1, <2>2, <2>3
<1>2. CASE UNCHANGED vars
  <2>1. UNCHANGED <<kind, frames, made, cmd_sock, verdict, result, mixed,
                    mBuff, given>>
    BY <1>2 DEF vars
  <2>2. Types'
    BY <2>1 DEF IInv, Types
  <2>3. Balanced' /\ Followed(cmd_sock')
    BY <2>1, WaitsAre DEF IInv, Balanced
  <2>4. \A t \in Thread : ~mixed'[t] => Own(t)'
    BY <2>1 DEF IInv, Own, OwnAt
  <2>5. QED
    BY <2>2, <2>3, <2>4 DEF IInv
<1>3. QED
  BY <1>1, <1>2

-----------------------------------------------------------------------------
(* The theorems                                                            *)

\* Waits and endings balance, replies come before their endings, and a thread
\* that swapped no answer has only its own on the socket.
THEOREM SocketInvariant == Spec => []IInv
  BY Initially, Inductive, PTL DEF Spec

\* Each wait of requestResponse has one message on cmd_sock that will end it,
\* whoever takes it, and no answer outlives the last wait.
THEOREM EveryWaitHasAnEnding == Spec => []AnswersBalance
<1>1. ASSUME IInv PROVE AnswersBalance
  <2>1. /\ cmd_sock \in Seq(Message) /\ Len(cmd_sock) \in Nat
        /\ DOMAIN cmd_sock = 1..Len(cmd_sock)
        /\ frames \in [Thread -> Nat]
    BY <1>1 DEF IInv, Types
  <2>2. \A i \in DOMAIN cmd_sock :
           cmd_sock[i] \in Message /\ cmd_sock[i].to \in Thread
    <3>1. \A i \in DOMAIN cmd_sock : cmd_sock[i] \in Message
      BY <2>1
    <3>2. \A m \in Message : m.to \in Thread
      BY DEF Message
    <3>3. QED
      BY <3>1, <3>2
  <2>3. Endings = At(cmd_sock, EndsTo(Thread))
    BY <2>2, EndsToFacts DEF Endings, At
  <2>4. Cardinality(Waits) = Cardinality(Endings)
    BY <1>1, <2>3 DEF IInv, Balanced
  <2>5. ASSUME \A t \in Thread : frames[t] = 0, cmd_sock # <<>> PROVE FALSE
    <3>1. \A t \in Thread : 1..frames[t] = {}
      BY <2>5
    <3>2. Waits = {}
      BY <3>1 DEF Waits
    <3>3. IsFiniteSet(Endings) /\ Cardinality(Endings) = 0
      BY <2>1, <2>3, <2>4, <3>2, AtFinite, FS_EmptySet
    <3>4. Endings = {}
      BY <3>3, FS_EmptySet
    <3>5. Len(cmd_sock) \in DOMAIN cmd_sock
      BY <2>1, <2>5
    <3>6. ~Ends(cmd_sock[Len(cmd_sock)].kind)
      BY <3>4, <3>5 DEF Endings
    <3>7. PICK j \in DOMAIN cmd_sock : j > Len(cmd_sock)
      BY <1>1, <3>5, <3>6 DEF IInv, Followed
    <3>8. QED
      BY <2>1, <3>7
  <2>6. QED
    BY <2>4, <2>5 DEF AnswersBalance
<1>2. QED
  BY <1>1, SocketInvariant, PTL

\* As long as nobody has swapped answers, requestResponse returns what the
\* driver made of the request, and a memory dump hands out a live buffer.
THEOREM OwnAnswer == Spec => []OwnUnlessMixed
<1>1. ASSUME IInv PROVE OwnUnlessMixed
  <2> SUFFICES ASSUME NEW t \in Thread, frames[t] = 0, verdict[t] # None,
                      ~mixed[t]
               PROVE  /\ result[t] = verdict[t]
                      /\ given[t] \in {None, "live"}
                      /\ given[t] = "live" => mBuff[t] = "null"
    BY DEF OwnUnlessMixed
  <2>1. Own(t)
    BY <1>1 DEF IInv
  <2>2. QED
    BY <2>1 DEF Own, OwnAt
<1>2. QED
  BY <1>1, SocketInvariant, PTL
=============================================================================
