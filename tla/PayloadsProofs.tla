--------------------------- MODULE PayloadsProofs ---------------------------
(***************************************************************************)
(* The one-shot requests and the payloads of the driver, for any sizes of  *)
(* buffers and payloads and any set of calls that may fail: nothing is     *)
(* left allocated, nothing is stored behind a buffer, and the counts the   *)
(* client is given can be trusted.                                         *)
(***************************************************************************)
EXTENDS Payloads, FiniteSetTheorems, WellFoundedInduction, TLAPS

Buf == [zeroed : SUBSET Nat, written : SUBSET Nat, next : Nat, num : Nat,
        told : BOOLEAN, overread : BOOLEAN]

\* What is left of building a packet filter program once its copy is made, and
\* of asking for packet fates before and after the buffer is cleared.
ProgramMade == {<<"create", "put", "put", "delete">>,
                <<"put", "put", "delete">>, <<"put", "delete">>, <<"delete">>}
FatesUncleared == {<<"create", "zero", "put", "put">>,
                   <<"zero", "put", "put">>}
FatesCleared == {<<"put", "put">>, <<"put">>, <<>>}

\* A request under construction: nothing has been answered, the buffer is as
\* the constructor left it, and the copy of a program is there exactly until
\* its delete.
Building ==
    /\ cls \in Class /\ cap \in Caps /\ reply = NoPayload
    /\ result = "SUCCESS"
    /\ buf \in {Fresh(0), Fresh(cap)}
    /\ ZeroedFirst(cls) => buf = Fresh(cap)
    /\ cls = "SET_APF_PROGRAM" =>
          \/ "program" \in heap /\ todo \in ProgramMade
          \/ /\ "program" \notin heap
             /\ todo \in {ApfRequest("SET_APF_PROGRAM"), <<>>}
    /\ cls = "PKT_FATE" =>
          \/ todo \in FatesUncleared
          \/ todo \in FatesCleared /\ buf = Fresh(cap)
    /\ cls # "SET_APF_PROGRAM" => "program" \notin heap
    /\ cls \notin {"SET_APF_PROGRAM", "PKT_FATE"} =>
          todo \in Seq({"create", "put"})

Lost == cls = "SET_APF_PROGRAM" /\ result = "ERROR" /\ reply = NoPayload

IInv ==
    /\ pc \in {"idle", "build", "return"}
    /\ heap \subseteq {"cmd", "program"}
    /\ pc = "build" => Building
    /\ pc # "build" => ("program" \in heap => Lost)
    /\ pc = "idle" => "cmd" \notin heap
    /\ InBounds
    /\ CountTrusted

-----------------------------------------------------------------------------
(* Walking the attributes of a payload                                     *)

\* A set of naturals that is not empty has a least element.
LEMMA LeastExists ==
    ASSUME NEW S \in SUBSET Nat, S # {}
    PROVE  \E x \in S : \A y \in S : x <= y
<1> DEFINE R == {ss \in Nat \X Nat : ss[1] < ss[2]}
<1>1. IsWellFoundedOn(R, Nat)
  BY NatLessThanWellFounded, Zenon DEF OpToRel
<1>2. PICK x \in S : \A y \in S : <<y, x>> \notin R
  <2> HIDE DEF R
  <2> QED
    BY <1>1, WFMin
<1>3. ASSUME NEW y \in S PROVE x <= y
  <2>1. x \in Nat /\ y \in Nat /\ <<y, x>> \in Nat \X Nat
    OBVIOUS
  <2>2. <<y, x>>[1] = y /\ <<y, x>>[2] = x
    OBVIOUS
  <2>3. ~(y < x)
    BY <1>2, <2>1, <2>2
  <2>4. QED
    BY <2>1, <2>3
<1>4. QED
  BY <1>3

\* What holds at the start and passes from each attribute to the next holds
\* for all of the first n.
LEMMA CountUp ==
    ASSUME NEW n \in Nat, NEW S, 0 \in S,
           \A m \in 1..n : m - 1 \in S => m \in S
    PROVE  \A m \in 0..n : m \in S
<1> DEFINE Bad == {m \in 0..n : m \notin S}
<1> SUFFICES ASSUME Bad # {} PROVE FALSE
  OBVIOUS
<1>1. Bad \in SUBSET Nat
  OBVIOUS
<1>2. PICK l \in Bad : \A y \in Bad : l <= y
  BY <1>1, LeastExists
<1>3. l \in 1..n /\ l \notin S
  BY <1>2
<1>4. l - 1 \in 0..n /\ ~(l <= l - 1)
  BY <1>3
<1>5. l - 1 \in S
  BY <1>2, <1>4
<1>6. QED
  BY <1>3, <1>5

\* The last of the first n attributes.
LEMMA MaxIs ==
    ASSUME NEW n \in Nat, NEW s \in SUBSET (1..n), n \in s
    PROVE  Max(s) = n
<1>1. \A x \in s : x \in Nat /\ x <= n
  OBVIOUS
<1>2. \E x \in s : \A y \in s : x >= y
  BY <1>1
<1>3. Max(s) \in s /\ \A y \in s : Max(s) >= y
  BY <1>2 DEF Max
<1>4. Max(s) \in Nat /\ Max(s) <= n /\ Max(s) >= n
  BY <1>1, <1>3
<1>5. QED
  BY <1>4

\* A set of some of the first n attributes has a last one.
LEMMA MaxIn ==
    ASSUME NEW n \in Nat, NEW s \in SUBSET (1..n), s # {}
    PROVE  Max(s) \in s
<1> DEFINE T == {n - x : x \in s}
<1>1. T \in SUBSET Nat /\ T # {}
  OBVIOUS
<1>2. PICK z \in T : \A y \in T : z <= y
  BY <1>1, LeastExists
<1>3. PICK x \in s : z = n - x
  BY <1>2
<1>4. ASSUME NEW y \in s PROVE x >= y
  <2>1. z <= n - y
    BY <1>2
  <2>2. QED
    BY <1>3, <2>1
<1>5. \E w \in s : \A y \in s : w >= y
  BY <1>4
<1>6. QED
  BY <1>5 DEF Max

\* One attribute after the other: g holds what comes of each set of attributes,
\* taken in their order.
FoldsTo(g, b, q, op, n) ==
    \A s \in SUBSET (1..n) :
        g[s] = IF s = {} THEN b ELSE op[<<g[s \ {Max(s)}], q[Max(s)]>>]

\* The walk over the attributes is defined for every payload.
LEMMA FoldExists ==
    ASSUME NEW A, NEW B, NEW b \in B, NEW q \in Seq(A),
           NEW op \in [B \X A -> B], NEW n \in 0..Len(q)
    PROVE  \E g \in [SUBSET (1..n) -> B] : FoldsTo(g, b, q, op, n)
<1> DEFINE Ok(m) == \E g \in [SUBSET (1..m) -> B] : FoldsTo(g, b, q, op, m)
<1>1. Len(q) \in Nat /\ \A i \in 1..Len(q) : q[i] \in A
  OBVIOUS
<1>2. Ok(0)
  <2> DEFINE g == [s \in SUBSET (1..0) |-> b]
  <2>1. 1..0 = {}
    OBVIOUS
  <2>2. g \in [SUBSET (1..0) -> B] /\ FoldsTo(g, b, q, op, 0)
    BY <2>1 DEF FoldsTo
  <2>3. QED
    BY <2>2
<1>3. ASSUME NEW m \in 1..Len(q), Ok(m - 1) PROVE Ok(m)
  <2>1. PICK g \in [SUBSET (1..(m - 1)) -> B] : FoldsTo(g, b, q, op, m - 1)
    BY <1>3
  <2>2. m \in Nat /\ q[m] \in A /\ 1..(m - 1) = (1..m) \ {m} /\ m \in 1..m
    BY <1>1
  <2> DEFINE h == [s \in SUBSET (1..m) |->
                      IF m \in s THEN op[<<g[s \ {m}], q[m]>>] ELSE g[s]]
  <2>3. ASSUME NEW s \in SUBSET (1..m), m \in s
        PROVE  /\ s \ {m} \in SUBSET (1..(m - 1)) /\ Max(s) = m
               /\ h[s] = op[<<g[s \ {m}], q[m]>>] /\ h[s] \in B
               /\ h[s \ {m}] = g[s \ {m}]
    <3>1. s \ {m} \in SUBSET (1..(m - 1))
      BY <2>2
    <3>2. Max(s) = m
      BY <2>2, <2>3, MaxIs
    <3>3. h[s] = op[<<g[s \ {m}], q[m]>>]
      BY <2>3
    <3>4. g[s \ {m}] \in B
      BY <2>1, <3>1
    <3>5. op[<<g[s \ {m}], q[m]>>] \in B
      BY <2>2, <3>4
    <3>6. h[s \ {m}] = g[s \ {m}]
      OBVIOUS
    <3>7. QED
      BY <3>1, <3>2, <3>3, <3>5, <3>6
  <2>4. ASSUME NEW s \in SUBSET (1..m), m \notin s
        PROVE  /\ s \in SUBSET (1..(m - 1)) /\ h[s] = g[s] /\ h[s] \in B
    <3>1. s \in SUBSET (1..(m - 1))
      BY <2>2, <2>4
    <3>2. h[s] = g[s]
      BY <2>4
    <3>3. QED
      BY <2>1, <3>1, <3>2
  <2>5. h \in [SUBSET (1..m) -> B]
    <3>1. \A s \in SUBSET (1..m) : h[s] \in B
      BY <2>3, <2>4
    <3>2. h = [s \in SUBSET (1..m) |-> h[s]]
      OBVIOUS
    <3> HIDE DEF h
    <3>3. QED
      BY <3>1, <3>2
  <2>6. ASSUME NEW s \in SUBSET (1..m)
        PROVE  h[s] = IF s = {} THEN b
                      ELSE op[<<h[s \ {Max(s)}], q[Max(s)]>>]
    <3> HIDE DEF h
    <3>1. CASE m \in s
      <4>1. s # {}
        BY <3>1
      <4>2. QED
        BY <2>3, <3>1, <4>1
    <3>2. CASE m \notin s
      <4>1. s \in SUBSET (1..(m - 1)) /\ h[s] = g[s]
        BY <2>4, <3>2
      <4>2. h[s \ {Max(s)}] = g[s \ {Max(s)}]
        <5>1. s \ {Max(s)} \in SUBSET (1..m) /\ m \notin s \ {Max(s)}
          BY <3>2
        <5>2. QED
          BY <2>4, <5>1
      <4>3. g[s] = IF s = {} THEN b
                   ELSE op[<<g[s \ {Max(s)}], q[Max(s)]>>]
        BY <2>1, <4>1 DEF FoldsTo
      <4>4. QED
        BY <4>1, <4>2, <4>3
    <3>3. QED
      BY <3>1, <3>2
  <2> HIDE DEF h
  <2>7. FoldsTo(h, b, q, op, m)
    BY <2>6 DEF FoldsTo
  <2>8. QED
    BY <2>5, <2>7
<1> HIDE DEF Ok
<1> DEFINE S == {m \in 0..Len(q) : Ok(m)}
<1>4. \A m \in 1..Len(q) : m - 1 \in S => m \in S
  <2> SUFFICES ASSUME NEW m \in 1..Len(q), m - 1 \in S PROVE m \in S
    OBVIOUS
  <2>1. Ok(m)
    BY <1>3
  <2>2. m \in 0..Len(q)
    BY <1>1
  <2>3. QED
    BY <2>1, <2>2
<1>5. 0 \in S
  BY <1>1, <1>2
<1>6. n \in S
  BY <1>1, <1>4, <1>5, CountUp
<1>7. QED
  BY <1>6 DEF Ok

\* The buffer after some of its entries are stored.
LEMMA StoreFacts ==
    ASSUME NEW b \in Buf, NEW n \in Nat
    PROVE  /\ Wrote(b, n) \in Buf
           /\ Wrote(b, n).written = b.written \cup 1..n
           /\ Wrote(b, n).zeroed = b.zeroed /\ Wrote(b, n).next = b.next
           /\ Wrote(b, n).num = b.num /\ Wrote(b, n).told = b.told
           /\ Wrote(b, n).overread = b.overread
  BY DEF Wrote, Buf

\* The buffer after the client is told of some entries.
LEMMA TellFacts ==
    ASSUME NEW b \in Buf, NEW n \in Nat
    PROVE  /\ Tells(b, n) \in Buf
           /\ Tells(b, n).num = n /\ Tells(b, n).told = TRUE
           /\ Tells(b, n).written = b.written
           /\ Tells(b, n).zeroed = b.zeroed /\ Tells(b, n).next = b.next
           /\ Tells(b, n).overread = b.overread
  BY DEF Tells, Buf

\* An attribute of the concurrency matrix: a number, an entry there is room
\* for, or one that is passed over.
LEMMA MatrixAttrFacts ==
    ASSUME cap \in Nat, NEW b \in Buf, NEW a \in Attr
    PROVE  /\ MatrixAttr(b, a) \in Buf
           /\ MatrixAttr(b, a).zeroed = b.zeroed
           /\ MatrixAttr(b, a).overread = b.overread
           /\ a.type = "num" =>
                 /\ MatrixAttr(b, a).num = Lower(a.val, cap)
                 /\ MatrixAttr(b, a).written = b.written
                 /\ MatrixAttr(b, a).next = b.next
           /\ a.type = "entry" /\ b.next <= b.num =>
                 /\ MatrixAttr(b, a).num = b.num
                 /\ MatrixAttr(b, a).written = b.written \cup 1..b.next
                 /\ MatrixAttr(b, a).next = b.next + 1
           /\ a.type # "num" /\ ~(a.type = "entry" /\ b.next <= b.num) =>
                 MatrixAttr(b, a) = b
<1>1. a.type = "num" => a.val \in Nat
  BY PayloadsAssumption DEF Attr, PayloadsAssumption
<1>2. a.type = "num" => Lower(a.val, cap) \in Nat
  BY <1>1 DEF Lower
<1>3. CASE a.type = "num"
  <2>1. MatrixAttr(b, a) = Tells(b, Lower(a.val, cap))
    BY <1>3 DEF MatrixAttr
  <2> DEFINE n == Lower(a.val, cap)
  <2>2. n \in Nat
    BY <1>2, <1>3
  <2> HIDE DEF n
  <2>3. /\ Tells(b, n) \in Buf /\ Tells(b, n).num = n
        /\ Tells(b, n).written = b.written
        /\ Tells(b, n).zeroed = b.zeroed /\ Tells(b, n).next = b.next
        /\ Tells(b, n).overread = b.overread
    BY <2>2, TellFacts
  <2>4. MatrixAttr(b, a) = Tells(b, n) /\ n = Lower(a.val, cap)
    BY <2>1 DEF n
  <2>5. QED
    BY <1>3, <2>3, <2>4
<1>4. CASE a.type = "entry" /\ b.next <= b.num
  <2>1. MatrixAttr(b, a) = [Wrote(b, b.next) EXCEPT !.next = @ + 1]
    BY <1>4 DEF MatrixAttr
  <2>2. b.next \in Nat
    BY DEF Buf
  <2>3. /\ Wrote(b, b.next) \in Buf
        /\ Wrote(b, b.next).written = b.written \cup 1..b.next
        /\ Wrote(b, b.next).zeroed = b.zeroed
        /\ Wrote(b, b.next).next = b.next
        /\ Wrote(b, b.next).num = b.num
        /\ Wrote(b, b.next).overread = b.overread
    BY <2>2, StoreFacts
  <2> HIDE DEF Wrote
  <2>4. QED
    BY <1>4, <2>1, <2>2, <2>3 DEF Buf
<1>5. CASE a.type # "num" /\ ~(a.type = "entry" /\ b.next <= b.num)
  <2>1. MatrixAttr(b, a) = b
    BY <1>5 DEF MatrixAttr
  <2>2. QED
    BY <1>5, <2>1
<1>6. QED
  BY <1>3, <1>4, <1>5

\* MatrixReply as a recursive function on the sets of attributes.
MatrixFold(b, q) ==
    CHOOSE g : g = [s \in SUBSET DOMAIN q |->
                       IF s = {} THEN b
                       ELSE MatrixAttr(g[s \ {Max(s)}], q[Max(s)])]

\* MatrixReply goes through the attributes one by one.
LEMMA MatrixWalk ==
    ASSUME cap \in Nat, NEW b \in Buf, NEW r, r.attrs \in Seq(Attr)
    PROVE  \E h : /\ h[0] = b
                  /\ \A k \in 1..Len(r.attrs) :
                        h[k] = MatrixAttr(h[k - 1], r.attrs[k])
                  /\ MatrixReply(b, r) = h[Len(r.attrs)]
<1> DEFINE q == r.attrs
           D == SUBSET DOMAIN q
           op == [x \in Buf \X Attr |-> MatrixAttr(x[1], x[2])]
           Step(g) == [s \in D |->
                          IF s = {} THEN b
                          ELSE MatrixAttr(g[s \ {Max(s)}], q[Max(s)])]
           G == MatrixFold(b, q)
<1>1. Len(q) \in Nat /\ DOMAIN q = 1..Len(q)
      /\ \A i \in 1..Len(q) : q[i] \in Attr
  OBVIOUS
<1>2. op \in [Buf \X Attr -> Buf]
  BY MatrixAttrFacts
<1>3. PICK g \in [SUBSET (1..Len(q)) -> Buf] : FoldsTo(g, b, q, op, Len(q))
  <2>1. Len(q) \in 0..Len(q)
    BY <1>1
  <2> HIDE DEF op
  <2>2. QED
    BY <1>2, <2>1, FoldExists
<1>4. ASSUME NEW s \in D PROVE g[s] = Step(g)[s]
  <2>1. CASE s = {}
    BY <1>1, <1>3, <2>1 DEF FoldsTo
  <2>2. CASE s # {}
    <3>1. Max(s) \in 1..Len(q)
      BY <1>1, <2>2, MaxIn
    <3>2. q[Max(s)] \in Attr /\ g[s \ {Max(s)}] \in Buf
      BY <1>1, <1>3, <3>1
    <3>3. g[s] = op[<<g[s \ {Max(s)}], q[Max(s)]>>]
      BY <1>1, <1>3, <2>2 DEF FoldsTo
    <3>4. op[<<g[s \ {Max(s)}], q[Max(s)]>>]
              = MatrixAttr(g[s \ {Max(s)}], q[Max(s)])
      BY <3>2
    <3>5. QED
      BY <2>2, <3>3, <3>4
  <2>3. QED
    BY <2>1, <2>2
<1>5. g = Step(g)
  <2>1. g = [s \in D |-> g[s]]
    BY <1>1, <1>3
  <2>2. Step(g) = [s \in D |-> Step(g)[s]]
    OBVIOUS
  <2> HIDE DEF Step
  <2>3. QED
    BY <1>4, <2>1, <2>2
<1>6. G = Step(G)
  BY <1>5 DEF MatrixFold
<1> HIDE DEF G
<1> DEFINE h == [k \in 0..Len(q) |-> G[1..k]]
<1>7. h[0] = b
  <2>1. 1..0 = {} /\ {} \in D /\ 0 \in 0..Len(q)
    BY <1>1
  <2>2. G[{}] = b
    BY <1>6, <2>1
  <2>3. QED
    BY <2>1, <2>2
<1>8. ASSUME NEW k \in 1..Len(q) PROVE h[k] = MatrixAttr(h[k - 1], q[k])
  <2>1. /\ k \in Nat /\ k \in 0..Len(q) /\ k - 1 \in 0..Len(q)
        /\ (1..k) \ {k} = 1..(k - 1)
        /\ 1..k \in D /\ 1..k # {} /\ k \in 1..k
    <3>1. k \in Nat /\ k \in 0..Len(q) /\ k - 1 \in 0..Len(q)
      BY <1>1
    <3>2. (1..k) \ {k} = 1..(k - 1)
      BY <3>1
    <3>3. k \in 1..k /\ 1..k \subseteq 1..Len(q)
      BY <1>1, <3>1
    <3>4. QED
      BY <1>1, <3>1, <3>2, <3>3
  <2>2. Max(1..k) = k
    BY <2>1, MaxIs
  <2>3. G[1..k] = MatrixAttr(G[(1..k) \ {Max(1..k)}], q[Max(1..k)])
    BY <1>6, <2>1
  <2>4. QED
    BY <2>1, <2>2, <2>3
<1>9. MatrixReply(b, r) = h[Len(q)]
  <2>1. MatrixReply(b, r) = G[DOMAIN q]
    BY DEF MatrixReply, G, MatrixFold, FoldLeft, MapThenFoldSet
  <2>2. QED
    BY <1>1, <2>1
<1>10. QED
  <2> HIDE DEF h
  <2> QED
    BY <1>7, <1>8, <1>9

\* An attribute of a packet fate: the number the driver claims, or nothing.
LEMMA FateAttrFacts ==
    ASSUME NEW b \in Buf, NEW a \in Attr
    PROVE  /\ FateAttr(b, a) \in Buf
           /\ FateAttr(b, a).zeroed = b.zeroed
           /\ FateAttr(b, a).written = b.written
           /\ FateAttr(b, a).overread = b.overread
<1>1. CASE a.type = "num"
  <2>1. a.val \in Nat
    BY <1>1, PayloadsAssumption DEF Attr, PayloadsAssumption
  <2>2. FateAttr(b, a) = Tells(b, a.val)
    BY <1>1 DEF FateAttr
  <2> DEFINE n == a.val
  <2> HIDE DEF n
  <2>3. n \in Nat /\ FateAttr(b, a) = Tells(b, n)
    BY <2>1, <2>2 DEF n
  <2>4. /\ Tells(b, n) \in Buf /\ Tells(b, n).written = b.written
        /\ Tells(b, n).zeroed = b.zeroed
        /\ Tells(b, n).overread = b.overread
    BY <2>3, TellFacts
  <2>5. QED
    BY <2>3, <2>4
<1>2. CASE a.type # "num"
  BY <1>2 DEF FateAttr
<1>3. QED
  BY <1>1, <1>2

\* FateReply as a recursive function on the sets of attributes.
FateFold(b, q) ==
    CHOOSE g : g = [s \in SUBSET DOMAIN q |->
                       IF s = {} THEN b
                       ELSE FateAttr(g[s \ {Max(s)}], q[Max(s)])]

\* FateReply goes through the attributes one by one.
LEMMA FateWalk ==
    ASSUME NEW b \in Buf, NEW r, r.attrs \in Seq(Attr)
    PROVE  \E h : /\ h[0] = b
                  /\ \A k \in 1..Len(r.attrs) :
                        h[k] = FateAttr(h[k - 1], r.attrs[k])
                  /\ FateReply(b, r) = h[Len(r.attrs)]
<1> DEFINE q == r.attrs
           D == SUBSET DOMAIN q
           op == [x \in Buf \X Attr |-> FateAttr(x[1], x[2])]
           Step(g) == [s \in D |->
                          IF s = {} THEN b
                          ELSE FateAttr(g[s \ {Max(s)}], q[Max(s)])]
           G == FateFold(b, q)
<1>1. Len(q) \in Nat /\ DOMAIN q = 1..Len(q)
      /\ \A i \in 1..Len(q) : q[i] \in Attr
  OBVIOUS
<1>2. op \in [Buf \X Attr -> Buf]
  BY FateAttrFacts
<1>3. PICK g \in [SUBSET (1..Len(q)) -> Buf] : FoldsTo(g, b, q, op, Len(q))
  <2>1. Len(q) \in 0..Len(q)
    BY <1>1
  <2> HIDE DEF op
  <2>2. QED
    BY <1>2, <2>1, FoldExists
<1>4. ASSUME NEW s \in D PROVE g[s] = Step(g)[s]
  <2>1. CASE s = {}
    BY <1>1, <1>3, <2>1 DEF FoldsTo
  <2>2. CASE s # {}
    <3>1. Max(s) \in 1..Len(q)
      BY <1>1, <2>2, MaxIn
    <3>2. q[Max(s)] \in Attr /\ g[s \ {Max(s)}] \in Buf
      BY <1>1, <1>3, <3>1
    <3>3. g[s] = op[<<g[s \ {Max(s)}], q[Max(s)]>>]
      BY <1>1, <1>3, <2>2 DEF FoldsTo
    <3>4. op[<<g[s \ {Max(s)}], q[Max(s)]>>]
              = FateAttr(g[s \ {Max(s)}], q[Max(s)])
      BY <3>2
    <3>5. QED
      BY <2>2, <3>3, <3>4
  <2>3. QED
    BY <2>1, <2>2
<1>5. g = Step(g)
  <2>1. g = [s \in D |-> g[s]]
    BY <1>1, <1>3
  <2>2. Step(g) = [s \in D |-> Step(g)[s]]
    OBVIOUS
  <2> HIDE DEF Step
  <2>3. QED
    BY <1>4, <2>1, <2>2
<1>6. G = Step(G)
  BY <1>5 DEF FateFold
<1> HIDE DEF G
<1> DEFINE h == [k \in 0..Len(q) |-> G[1..k]]
<1>7. h[0] = b
  <2>1. 1..0 = {} /\ {} \in D /\ 0 \in 0..Len(q)
    BY <1>1
  <2>2. G[{}] = b
    BY <1>6, <2>1
  <2>3. QED
    BY <2>1, <2>2
<1>8. ASSUME NEW k \in 1..Len(q) PROVE h[k] = FateAttr(h[k - 1], q[k])
  <2>1. /\ k \in Nat /\ k \in 0..Len(q) /\ k - 1 \in 0..Len(q)
        /\ (1..k) \ {k} = 1..(k - 1)
        /\ 1..k \in D /\ 1..k # {} /\ k \in 1..k
    <3>1. k \in Nat /\ k \in 0..Len(q) /\ k - 1 \in 0..Len(q)
      BY <1>1
    <3>2. (1..k) \ {k} = 1..(k - 1)
      BY <3>1
    <3>3. k \in 1..k /\ 1..k \subseteq 1..Len(q)
      BY <1>1, <3>1
    <3>4. QED
      BY <1>1, <3>1, <3>2, <3>3
  <2>2. Max(1..k) = k
    BY <2>1, MaxIs
  <2>3. G[1..k] = FateAttr(G[(1..k) \ {Max(1..k)}], q[Max(1..k)])
    BY <1>6, <2>1
  <2>4. QED
    BY <2>1, <2>2, <2>3
<1>9. FateReply(b, r) = h[Len(q)]
  <2>1. FateReply(b, r) = G[DOMAIN q]
    BY DEF FateReply, G, FateFold, FoldLeft, MapThenFoldSet
  <2>2. QED
    BY <1>1, <2>1
<1>10. QED
  <2> HIDE DEF h
  <2> QED
    BY <1>7, <1>8, <1>9

\* No matrix writes behind the array or announces more sets than it holds.
LEMMA MatrixBounded ==
    ASSUME cap \in Nat, NEW b \in Buf, NEW r, r.attrs \in Seq(Attr),
           b.num <= cap, b.written \subseteq 1..cap
    PROVE  /\ MatrixReply(b, r) \in Buf
           /\ MatrixReply(b, r).zeroed = b.zeroed
           /\ MatrixReply(b, r).overread = b.overread
           /\ MatrixReply(b, r).num <= cap
           /\ MatrixReply(b, r).written \subseteq 1..cap
<1> DEFINE q == r.attrs
           Good(c) == /\ c \in Buf /\ c.zeroed = b.zeroed
                      /\ c.overread = b.overread /\ c.num <= cap
                      /\ c.written \subseteq 1..cap
<1>1. Len(q) \in Nat /\ \A i \in 1..Len(q) : q[i] \in Attr
  OBVIOUS
<1>2. PICK h : /\ h[0] = b
               /\ \A k \in 1..Len(q) : h[k] = MatrixAttr(h[k - 1], q[k])
               /\ MatrixReply(b, r) = h[Len(q)]
  BY MatrixWalk
<1>3. ASSUME NEW c, Good(c), NEW a \in Attr PROVE Good(MatrixAttr(c, a))
  <2>1. /\ MatrixAttr(c, a) \in Buf
        /\ MatrixAttr(c, a).zeroed = b.zeroed
        /\ MatrixAttr(c, a).overread = b.overread
    BY <1>3, MatrixAttrFacts
  <2>2. c.next \in Nat /\ c.num \in Nat
    BY <1>3 DEF Buf
  <2>3. CASE a.type = "num"
    <3>1. /\ MatrixAttr(c, a).num = Lower(a.val, cap)
          /\ MatrixAttr(c, a).written = c.written
      BY <1>3, <2>3, MatrixAttrFacts
    <3>2. a.val \in Nat
      BY <2>3, PayloadsAssumption DEF Attr, PayloadsAssumption
    <3>3. Lower(a.val, cap) <= cap
      BY <3>2 DEF Lower
    <3>4. QED
      BY <1>3, <2>1, <3>1, <3>3
  <2>4. CASE a.type = "entry" /\ c.next <= c.num
    <3>1. /\ MatrixAttr(c, a).num = c.num
          /\ MatrixAttr(c, a).written = c.written \cup 1..c.next
      BY <1>3, <2>4, MatrixAttrFacts
    <3>2. 1..c.next \subseteq 1..cap
      BY <1>3, <2>2, <2>4
    <3>3. QED
      BY <1>3, <2>1, <3>1, <3>2
  <2>5. CASE a.type # "num" /\ ~(a.type = "entry" /\ c.next <= c.num)
    <3>1. MatrixAttr(c, a) = c
      BY <1>3, <2>5, MatrixAttrFacts
    <3>2. QED
      BY <1>3, <3>1
  <2>6. QED
    BY <2>3, <2>4, <2>5
<1>4. Good(b)
  OBVIOUS
<1> HIDE DEF Good
<1> DEFINE S == {k \in 0..Len(q) : Good(h[k])}
<1>5. 0 \in S
  BY <1>1, <1>2, <1>4
<1>6. \A k \in 1..Len(q) : k - 1 \in S => k \in S
  <2> SUFFICES ASSUME NEW k \in 1..Len(q), k - 1 \in S PROVE k \in S
    OBVIOUS
  <2>1. Good(h[k - 1]) /\ k \in 0..Len(q)
    BY <1>1
  <2>2. h[k] = MatrixAttr(h[k - 1], q[k]) /\ q[k] \in Attr
    BY <1>1, <1>2
  <2>3. Good(h[k])
    BY <1>3, <2>1, <2>2
  <2>4. QED
    BY <2>1, <2>3
<1>7. Len(q) \in S
  <2>1. Len(q) \in 0..Len(q)
    BY <1>1
  <2> HIDE DEF S
  <2>2. QED
    BY <1>1, <1>5, <1>6, <2>1, CountUp
<1>8. QED
  BY <1>2, <1>7 DEF Good

\* A matrix that brings the sets it announces fills all the entries it tells.
LEMMA MatrixComplete ==
    ASSUME cap \in Nat, NEW b \in Buf, NEW r, r.attrs \in Seq(Attr),
           b.next = 1, b.written = {}, WholeMatrix(r)
    PROVE  1..MatrixReply(b, r).num \subseteq MatrixReply(b, r).written
<1> DEFINE q == r.attrs
           N == Lower(q[1].val, cap)
           Good(c, k) == /\ c \in Buf /\ c.num = N
                         /\ c.next = Lower(k, N + 1)
                         /\ 1..(c.next - 1) \subseteq c.written
<1>1. /\ Len(q) \in Nat /\ \A i \in 1..Len(q) : q[i] \in Attr
      /\ q # <<>> /\ q[1].type = "num" /\ Len(q) = q[1].val + 1
      /\ \A i \in 2..Len(q) : q[i].type = "entry"
  BY DEF WholeMatrix
<1>2. Len(q) >= 1 /\ 1 \in 1..Len(q)
  BY <1>1
<1>3. q[1].val \in Nat
  BY <1>1, <1>2, PayloadsAssumption DEF Attr, PayloadsAssumption
<1>4. N \in Nat /\ N <= q[1].val
  BY <1>3 DEF Lower
<1>5. PICK h : /\ h[0] = b
               /\ \A k \in 1..Len(q) : h[k] = MatrixAttr(h[k - 1], q[k])
               /\ MatrixReply(b, r) = h[Len(q)]
  BY MatrixWalk
<1>6. Good(h[1], 1)
  <2>1. h[1] = MatrixAttr(b, q[1]) /\ q[1] \in Attr
    BY <1>1, <1>2, <1>5
  <2>2. /\ h[1] \in Buf /\ h[1].num = N /\ h[1].next = 1
    <3> DEFINE a == q[1]
    <3>1. a \in Attr /\ a.type = "num" /\ h[1] = MatrixAttr(b, a)
          /\ N = Lower(a.val, cap)
      BY <1>1, <2>1
    <3> HIDE DEF a, N
    <3>2. MatrixAttr(b, a) \in Buf
      BY <3>1, MatrixAttrFacts
    <3>3. /\ MatrixAttr(b, a).num = Lower(a.val, cap)
          /\ MatrixAttr(b, a).next = b.next
      BY <3>1, MatrixAttrFacts
    <3>4. QED
      BY <3>1, <3>2, <3>3
  <2>3. Lower(1, N + 1) = 1 /\ 1..(1 - 1) = {}
    BY <1>4 DEF Lower
  <2>4. QED
    BY <2>2, <2>3
<1>7. ASSUME NEW k \in 2..Len(q), Good(h[k - 1], k - 1)
      PROVE  Good(h[k], k)
  <2> DEFINE c == h[k - 1]
             d == h[k]
  <2>1. /\ c \in Buf /\ c.num = N /\ c.next = Lower(k - 1, N + 1)
        /\ 1..(c.next - 1) \subseteq c.written
    BY <1>7
  <2>2. k \in 1..Len(q) /\ k \in Nat /\ k - 1 \in Nat /\ k >= 2
    BY <1>1
  <2>3. d = MatrixAttr(c, q[k]) /\ q[k] \in Attr /\ q[k].type = "entry"
    BY <1>1, <1>5, <2>2
  <2> HIDE DEF c, d, N
  <2>4. c.next \in Nat
    BY <2>1 DEF Buf
  <2>5. CASE c.next <= c.num
    <3>1. /\ d \in Buf /\ d.num = N
          /\ d.written = c.written \cup 1..c.next
          /\ d.next = c.next + 1
      BY <2>1, <2>3, <2>5, MatrixAttrFacts
    <3>2. c.next = k - 1 /\ k - 1 <= N
      BY <1>4, <2>1, <2>2, <2>5 DEF Lower
    <3>3. Lower(k, N + 1) = k
      BY <1>4, <2>2, <3>2 DEF Lower
    <3>4. d.next = k /\ d.next - 1 = c.next
      BY <2>2, <3>1, <3>2
    <3>5. QED
      BY <3>1, <3>3, <3>4 DEF d
  <2>6. CASE ~(c.next <= c.num)
    <3>1. d = c
      BY <2>1, <2>3, <2>6, MatrixAttrFacts
    <3>2. c.next = N + 1 /\ k - 1 >= N + 1
      BY <1>4, <2>1, <2>2, <2>6 DEF Lower
    <3>3. Lower(k, N + 1) = N + 1
      BY <1>4, <2>2, <3>2 DEF Lower
    <3>4. QED
      BY <2>1, <3>1, <3>2, <3>3 DEF d
  <2>7. QED
    BY <2>5, <2>6
<1> HIDE DEF Good
<1> DEFINE S == {k \in 0..Len(q) : k = 0 \/ Good(h[k], k)}
<1>8. 0 \in S
  BY <1>1
<1>9. \A k \in 1..Len(q) : k - 1 \in S => k \in S
  <2> SUFFICES ASSUME NEW k \in 1..Len(q), k - 1 \in S PROVE k \in S
    OBVIOUS
  <2>1. k \in 0..Len(q)
    BY <1>1
  <2>2. CASE k = 1
    BY <1>6, <2>1, <2>2
  <2>3. CASE k # 1
    <3>1. k \in 2..Len(q) /\ k - 1 # 0
      BY <1>1, <2>3
    <3>2. Good(h[k - 1], k - 1)
      BY <3>1
    <3>3. Good(h[k], k)
      BY <1>7, <3>1, <3>2
    <3>4. QED
      BY <2>1, <3>3
  <2>4. QED
    BY <2>2, <2>3
<1>10. Good(h[Len(q)], Len(q))
  <2>1. Len(q) \in 0..Len(q) /\ Len(q) # 0
    BY <1>1, <1>2
  <2>2. Len(q) \in S
    <3> HIDE DEF S
    <3> QED
      BY <1>1, <1>8, <1>9, <2>1, CountUp
  <2>3. QED
    BY <2>1, <2>2
<1>11. Lower(Len(q), N + 1) = N + 1
  BY <1>1, <1>3, <1>4 DEF Lower
<1>12. LET m == h[Len(q)]
       IN  m.num = N /\ m.next = N + 1 /\ 1..(m.next - 1) \subseteq m.written
  BY <1>10, <1>11 DEF Good
<1>13. (N + 1) - 1 = N
  BY <1>4
<1>14. QED
  BY <1>5, <1>12, <1>13

\* The packet fates leave the buffer the driver has filled alone.
LEMMA FateBounded ==
    ASSUME NEW b \in Buf, NEW r, r.attrs \in Seq(Attr)
    PROVE  /\ FateReply(b, r) \in Buf
           /\ FateReply(b, r).zeroed = b.zeroed
           /\ FateReply(b, r).written = b.written
           /\ FateReply(b, r).overread = b.overread
<1> DEFINE q == r.attrs
           Good(c) == /\ c \in Buf /\ c.zeroed = b.zeroed
                      /\ c.written = b.written /\ c.overread = b.overread
<1>1. Len(q) \in Nat /\ \A i \in 1..Len(q) : q[i] \in Attr
  OBVIOUS
<1>2. PICK h : /\ h[0] = b
               /\ \A k \in 1..Len(q) : h[k] = FateAttr(h[k - 1], q[k])
               /\ FateReply(b, r) = h[Len(q)]
  BY FateWalk
<1>3. ASSUME NEW c, Good(c), NEW a \in Attr PROVE Good(FateAttr(c, a))
  BY <1>3, FateAttrFacts
<1>4. Good(b)
  OBVIOUS
<1> HIDE DEF Good
<1> DEFINE S == {k \in 0..Len(q) : Good(h[k])}
<1>5. 0 \in S
  BY <1>1, <1>2, <1>4
<1>6. \A k \in 1..Len(q) : k - 1 \in S => k \in S
  <2> SUFFICES ASSUME NEW k \in 1..Len(q), k - 1 \in S PROVE k \in S
    OBVIOUS
  <2>1. Good(h[k - 1]) /\ k \in 0..Len(q)
    BY <1>1
  <2>2. h[k] = FateAttr(h[k - 1], q[k]) /\ q[k] \in Attr
    BY <1>1, <1>2
  <2>3. Good(h[k])
    BY <1>3, <2>1, <2>2
  <2>4. QED
    BY <2>1, <2>3
<1>7. Len(q) \in S
  <2>1. Len(q) \in 0..Len(q)
    BY <1>1
  <2> HIDE DEF S
  <2>2. QED
    BY <1>1, <1>5, <1>6, <2>1, CountUp
<1>8. QED
  BY <1>2, <1>7 DEF Good

-----------------------------------------------------------------------------
(* What the handlers do to a buffer                                        *)

\* InBounds and CountTrusted, of a buffer b of n entries that a handler of
\* class c leaves behind after payload r.
Fits(c, n, b, r) ==
    /\ \/ b.written \cup b.zeroed \subseteq 1..n
       \/ c = "EPNO" /\ LongSsid(r)
    /\ b.overread => c \in Unchecked \/ (c = "EPNO" /\ LongSsid(r))
Trusted(c, n, b, r) ==
    b.told =>
        \/ b.num <= n /\ 1..b.num \subseteq b.written \cup b.zeroed
        \/ c = "PKT_FATE" /\ b.num > n
        \/ c = "FEATURE_MATRIX" /\ ~WholeMatrix(r) /\ b.num <= n
        \/ c = "FEATURE_SET" /\ r.len < n

\* A buffer the constructor cleared the first n entries of.
LEMMA FreshFacts ==
    ASSUME NEW n \in Nat
    PROVE  /\ Fresh(n) \in Buf /\ Fresh(n).zeroed = 1..n
           /\ Fresh(n).written = {} /\ Fresh(n).next = 1
           /\ Fresh(n).num = 0 /\ Fresh(n).told = FALSE
           /\ Fresh(n).overread = FALSE
  BY DEF Fresh, Buf

\* Nobody has been told of a buffer as the constructor left it.
LEMMA FreshFits ==
    ASSUME NEW c, NEW n \in Nat, NEW r, NEW b \in {Fresh(0), Fresh(n)}
    PROVE  Fits(c, n, b, r) /\ Trusted(c, n, b, r)
<1>1. 0 \in Nat /\ 1..0 = {}
  OBVIOUS
<1>2. /\ b.written = {} /\ b.zeroed \subseteq 1..n
      /\ b.told = FALSE /\ b.overread = FALSE
  BY <1>1, FreshFacts
<1>3. QED
  BY <1>2 DEF Fits, Trusted

\* A handler that stores w entries and tells of m, both within the buffer,
\* where what it tells of was stored or cleared.
LEMMA StoredFits ==
    ASSUME NEW c, NEW n \in Nat, NEW r, NEW b \in Buf, NEW w \in Nat,
           NEW m \in Nat, b.zeroed \subseteq 1..n, b.written \subseteq 1..n,
           b.overread = FALSE, w <= n, m <= n,
           m <= w \/ 1..m \subseteq b.zeroed
    PROVE  /\ Fits(c, n, Tells(Wrote(b, w), m), r)
           /\ Trusted(c, n, Tells(Wrote(b, w), m), r)
           /\ Tells(Wrote(b, w), m) \in Buf
<1> DEFINE d == Wrote(b, w)
           e == Tells(d, m)
<1>1. /\ d \in Buf /\ d.written = b.written \cup 1..w
      /\ d.zeroed = b.zeroed /\ d.overread = FALSE
  BY StoreFacts
<1> HIDE DEF d
<1>2. /\ e \in Buf /\ e.written = d.written /\ e.zeroed = d.zeroed
      /\ e.overread = d.overread /\ e.num = m
  BY <1>1, TellFacts
<1> HIDE DEF e
<1>3. 1..w \subseteq 1..n
  OBVIOUS
<1>4. Fits(c, n, e, r)
  BY <1>1, <1>2, <1>3 DEF Fits
<1>5. 1..m \subseteq b.written \cup 1..w \cup b.zeroed
  OBVIOUS
<1>6. Trusted(c, n, e, r)
  BY <1>1, <1>2, <1>5 DEF Trusted
<1>7. QED
  BY <1>2, <1>4, <1>6 DEF d, e

\* A handler that stores nothing and tells of no entries.
LEMMA ToldNothing ==
    ASSUME NEW c, NEW n \in Nat, NEW r, NEW b \in Buf,
           b.zeroed \subseteq 1..n, b.written \subseteq 1..n,
           b.overread = FALSE
    PROVE  /\ Fits(c, n, Tells(b, 0), r) /\ Trusted(c, n, Tells(b, 0), r)
           /\ Tells(b, 0) \in Buf
<1>1. 0 \in Nat /\ 1..0 = {} /\ 0 <= n
  OBVIOUS
<1>2. /\ Tells(b, 0) \in Buf /\ Tells(b, 0).num = 0
      /\ Tells(b, 0).written = b.written /\ Tells(b, 0).zeroed = b.zeroed
      /\ Tells(b, 0).overread = b.overread
  BY <1>1, TellFacts
<1>3. QED
  BY <1>1, <1>2 DEF Fits, Trusted

\* Reading more than the driver sent changes nothing else, and only the
\* handlers that do not look at the length do it.
LEMMA OverreadFits ==
    ASSUME NEW c, NEW n, NEW r, NEW b \in Buf, NEW o \in BOOLEAN,
           Fits(c, n, b, r), Trusted(c, n, b, r),
           o => c \in Unchecked
    PROVE  /\ Fits(c, n, [b EXCEPT !.overread = o], r)
           /\ Trusted(c, n, [b EXCEPT !.overread = o], r)
<1> DEFINE d == [b EXCEPT !.overread = o]
<1>1. /\ d.written = b.written /\ d.zeroed = b.zeroed /\ d.num = b.num
      /\ d.told = b.told
  BY DEF Buf
<1>2. d.overread = o
  BY DEF Buf
<1> HIDE DEF d
<1>3. Fits(c, n, d, r)
  BY <1>1, <1>2 DEF Fits
<1>4. Trusted(c, n, d, r)
  BY <1>1 DEF Trusted
<1>5. QED
  BY <1>3, <1>4 DEF d

\* The payloads of the driver.
LEMMA PayloadFacts ==
    ASSUME NEW c, NEW r \in Payload(c)
    PROVE  /\ r.len \in Nat /\ r.num \in Nat /\ r.attrs \in Seq(Attr)
<1>1. MaxLen \in Nat /\ MaxNum \in Nat
  BY PayloadsAssumption DEF PayloadsAssumption
<1>2. <<>> \in Seq(Attr)
  OBVIOUS
<1>3. CASE r = NoPayload
  BY <1>2, <1>3 DEF NoPayload
<1>4. CASE r # NoPayload /\ c \in AttrClass
  <2>1. r \in [len : {1}, num : {0},
               attrs : BoundedSeq(Attr, MaxAttrs) \ {<<>>}]
    BY <1>4 DEF Payload
  <2>2. r.len = 1 /\ r.num = 0 /\ r.attrs \in BoundedSeq(Attr, MaxAttrs)
    BY <2>1
  <2>3. r.attrs \in Seq(Attr)
    BY <2>2 DEF BoundedSeq, SeqOf
  <2>4. QED
    BY <2>2, <2>3
<1>5. CASE r # NoPayload /\ c \notin AttrClass
  <2>1. r \in [len : 1..MaxLen,
               num : IF c \in CountClass THEN 0..MaxNum ELSE {0},
               attrs : {<<>>}]
    BY <1>5 DEF Payload
  <2>2. r.len \in 1..MaxLen /\ r.num \in 0..MaxNum /\ r.attrs = <<>>
    BY <1>1, <2>1
  <2>3. QED
    BY <1>1, <1>2, <2>2
<1>6. QED
  BY <1>3, <1>4, <1>5

\* The smaller of two sizes.
LEMMA LowerFacts ==
    ASSUME NEW a \in Nat, NEW b \in Nat
    PROVE  /\ Lower(a, b) \in Nat /\ Lower(a, b) <= a /\ Lower(a, b) <= b
           /\ a >= b => Lower(a, b) = b
  BY DEF Lower

\* The copies of a struct into a buffer the constructor cleared, or of one
\* that is long enough.
LEMMA StructFits ==
    ASSUME cap \in Nat, NEW b \in {Fresh(0), Fresh(cap)}, NEW c, NEW r,
           r.len \in Nat,
           b = Fresh(cap) \/ c = "FEATURE_SET"
    PROVE  /\ Fits(c, cap, StructReply(b, r), r)
           /\ Trusted(c, cap, StructReply(b, r), r)
<1>1. 0 \in Nat /\ 1..0 = {}
  OBVIOUS
<1>2. /\ b \in Buf /\ b.zeroed \subseteq 1..cap /\ b.written = {}
      /\ b.overread = FALSE
  BY <1>1, FreshFacts
<1> DEFINE w == Lower(r.len, cap)
<1>3. w \in Nat /\ w <= cap /\ (r.len >= cap => w = cap)
  BY LowerFacts
<1> HIDE DEF w
<1>4. StructReply(b, r) = Tells(Wrote(b, w), cap)
  BY DEF StructReply, w
<1>5. CASE b = Fresh(cap) \/ r.len >= cap
  <2>1. cap <= w \/ 1..cap \subseteq b.zeroed
    BY <1>3, <1>5, FreshFacts
  <2>2. cap <= cap /\ b.written \subseteq 1..cap
    BY <1>2
  <2>3. /\ Fits(c, cap, Tells(Wrote(b, w), cap), r)
        /\ Trusted(c, cap, Tells(Wrote(b, w), cap), r)
    BY <1>2, <1>3, <2>1, <2>2, StoredFits, Zenon
  <2>4. QED
    BY <1>4, <2>3, Zenon
<1>6. CASE c = "FEATURE_SET" /\ r.len < cap
  <2> DEFINE d == Wrote(b, w)
             e == Tells(d, cap)
  <2>1. /\ d \in Buf /\ d.written = b.written \cup 1..w
        /\ d.zeroed = b.zeroed /\ d.overread = FALSE
    BY <1>2, <1>3, StoreFacts
  <2> HIDE DEF d
  <2>2. /\ e.written = d.written /\ e.zeroed = d.zeroed
        /\ e.overread = d.overread
    BY <2>1, TellFacts
  <2> HIDE DEF e
  <2>3. 1..w \subseteq 1..cap
    BY <1>3
  <2>4. Fits(c, cap, e, r)
    BY <1>2, <2>1, <2>2, <2>3 DEF Fits
  <2>5. Trusted(c, cap, e, r)
    BY <1>6 DEF Trusted
  <2>6. QED
    BY <1>4, <2>4, <2>5 DEF d, e
<1>7. QED
  BY <1>5, <1>6

\* The statuses of the log rings.
LEMMA RingStatusFits ==
    ASSUME cap \in Nat, NEW b, b = Fresh(cap), NEW c \in Unchecked, NEW r,
           r.attrs \in Seq(Attr)
    PROVE  /\ Fits(c, cap, RingStatusReply(b, r), r)
           /\ Trusted(c, cap, RingStatusReply(b, r), r)
<1>1. CASE r.attrs = <<>> \/ r.attrs[1].type # "num"
  <2>1. RingStatusReply(b, r) = b
    BY <1>1 DEF RingStatusReply
  <2>2. QED
    BY <2>1, FreshFits
<1>2. CASE ~(r.attrs = <<>> \/ r.attrs[1].type # "num")
  <2> DEFINE q == {i \in 2..Len(r.attrs) : r.attrs[i].type = "entry"}
             n == Lower(cap, r.attrs[1].val)
             w == Lower(Cardinality(q), n)
             o == \E i \in q : /\ Cardinality({j \in q : j <= i}) <= n
                               /\ r.attrs[i].val < StatusLen
  <2>1. r.attrs[1] \in Attr /\ Len(r.attrs) \in Nat
    BY <1>2
  <2>2. r.attrs[1].val \in Nat
    BY <1>2, <2>1, PayloadsAssumption DEF Attr, PayloadsAssumption
  <2>3. Cardinality(q) \in Nat
    <3>1. 2 \in Int /\ Len(r.attrs) \in Int
      BY <2>1
    <3>2. IsFiniteSet(2..Len(r.attrs))
      BY <3>1, FS_Interval, Zenon
    <3>3. q \subseteq 2..Len(r.attrs)
      OBVIOUS
    <3> HIDE DEF q
    <3>4. IsFiniteSet(q)
      BY <3>2, <3>3, FS_Subset, Zenon
    <3>5. QED
      BY <3>4, FS_CardinalityType, Zenon
  <2>4. RingStatusReply(b, r) = [Tells(Wrote(b, w), n) EXCEPT !.overread = o]
    BY <1>2 DEF RingStatusReply
  <2>5. o \in BOOLEAN
    OBVIOUS
  <2> HIDE DEF o
  <2>6. n \in Nat /\ n <= cap
    BY <2>2, LowerFacts
  <2> HIDE DEF n
  <2>7. w \in Nat /\ w <= n
    BY <2>3, <2>6, LowerFacts
  <2> HIDE DEF w
  <2>8. w <= cap
    BY <2>6, <2>7
  <2>9. 1..n \subseteq 1..cap
    BY <2>6
  <2>10. /\ b \in Buf /\ b.zeroed = 1..cap /\ b.written = {}
        /\ b.overread = FALSE
    BY FreshFacts
  <2>11. b.zeroed \subseteq 1..cap /\ b.written \subseteq 1..cap
    BY <2>10
  <2>12. 1..n \subseteq b.zeroed
    BY <2>9, <2>10
  <2>13. /\ Fits(c, cap, Tells(Wrote(b, w), n), r)
         /\ Trusted(c, cap, Tells(Wrote(b, w), n), r)
         /\ Tells(Wrote(b, w), n) \in Buf
    BY <2>6, <2>7, <2>8, <2>10, <2>11, <2>12, StoredFits, Zenon
  <2> DEFINE e == Tells(Wrote(b, w), n)
  <2> HIDE DEF e
  <2>14. /\ Fits(c, cap, [e EXCEPT !.overread = o], r)
         /\ Trusted(c, cap, [e EXCEPT !.overread = o], r)
    BY <2>13, <2>5, OverreadFits DEF e
  <2>15. QED
    BY <2>4, <2>14 DEF e
<1>3. QED
  BY <1>1, <1>2

\* The concurrency matrix.
LEMMA MatrixFits ==
    ASSUME cap \in Nat, NEW b \in {Fresh(0), Fresh(cap)}, NEW r,
           r.attrs \in Seq(Attr)
    PROVE  /\ Fits("FEATURE_MATRIX", cap, MatrixReply(b, r), r)
           /\ Trusted("FEATURE_MATRIX", cap, MatrixReply(b, r), r)
<1>1. 0 \in Nat /\ 1..0 = {} /\ 0 <= cap
  OBVIOUS
<1>2. /\ b \in Buf /\ b.zeroed \subseteq 1..cap /\ b.written = {}
      /\ b.overread = FALSE /\ b.num = 0 /\ b.next = 1
  BY <1>1, FreshFacts
<1> DEFINE d == MatrixReply(b, r)
<1>3. /\ d.zeroed = b.zeroed /\ d.overread = b.overread
      /\ d.num <= cap /\ d.written \subseteq 1..cap
  BY <1>1, <1>2, MatrixBounded
<1>4. WholeMatrix(r) => 1..d.num \subseteq d.written
  BY <1>2, MatrixComplete
<1> HIDE DEF d
<1>5. Fits("FEATURE_MATRIX", cap, d, r)
  BY <1>2, <1>3 DEF Fits
<1>6. Trusted("FEATURE_MATRIX", cap, d, r)
  BY <1>3, <1>4 DEF Trusted
<1>7. QED
  BY <1>5, <1>6 DEF d

\* The packet fates, once the buffer is cleared.
LEMMA FateFits ==
    ASSUME cap \in Nat, NEW b, b = Fresh(cap), NEW r, r.attrs \in Seq(Attr)
    PROVE  /\ Fits("PKT_FATE", cap, FateReply(b, r), r)
           /\ Trusted("PKT_FATE", cap, FateReply(b, r), r)
<1>1. /\ b \in Buf /\ b.zeroed = 1..cap /\ b.written = {}
      /\ b.overread = FALSE
  BY FreshFacts
<1> DEFINE d == FateReply(b, r)
<1>2. /\ d \in Buf /\ d.zeroed = b.zeroed /\ d.written = b.written
      /\ d.overread = b.overread
  BY <1>1, FateBounded
<1> HIDE DEF d
<1>3. Fits("PKT_FATE", cap, d, r)
  BY <1>1, <1>2 DEF Fits
<1>4. d.num \in Nat
  BY <1>2 DEF Buf
<1>5. d.num > cap \/ (d.num <= cap /\ 1..d.num \subseteq 1..cap)
  BY <1>4
<1>6. Trusted("PKT_FATE", cap, d, r)
  BY <1>1, <1>2, <1>5 DEF Trusted
<1>7. QED
  BY <1>3, <1>6 DEF d

\* handleResponse, whatever the driver answers to a request of any class.
LEMMA ResponseFits ==
    ASSUME cap \in Nat, NEW b \in {Fresh(0), Fresh(cap)},
           ZeroedFirst(cls) \/ cls = "PKT_FATE" => b = Fresh(cap),
           NEW r \in Payload(cls)
    PROVE  /\ Fits(cls, cap, HandleResponse(b, r), r)
           /\ Trusted(cls, cap, HandleResponse(b, r), r)
<1> DEFINE Good(d) == Fits(cls, cap, d, r) /\ Trusted(cls, cap, d, r)
<1>1. r.len \in Nat /\ r.num \in Nat /\ r.attrs \in Seq(Attr)
  BY PayloadFacts
<1>2. Good(b)
  BY FreshFits
<1>3. /\ b \in Buf /\ b.zeroed \subseteq 1..cap /\ b.written \subseteq 1..cap
      /\ b.overread = FALSE
  <2>1. 0 \in Nat /\ 1..0 = {}
    OBVIOUS
  <2>2. QED
    BY <2>1, FreshFacts
<1>4. Good(Tells(Wrote(b, cap), cap)) /\ Tells(Wrote(b, cap), cap) \in Buf
  <2>1. cap <= cap
    OBVIOUS
  <2>2. QED
    BY <1>3, <2>1, StoredFits
<1>5. Good(Tells(b, 0)) /\ Tells(b, 0) \in Buf
  BY <1>3, ToldNothing
<1>6. CASE cls \in {"GET_FW_VER", "GSCAN_CAPABILITIES", "RTT_CAPABILITIES",
                    "RTT_RESPONDER"}
  <2>1. HandleResponse(b, r) = StructReply(b, r)
    BY <1>6 DEF HandleResponse
  <2>2. b = Fresh(cap)
    BY <1>6 DEF ZeroedFirst
  <2>3. QED
    BY <1>1, <2>1, <2>2, StructFits
<1>7. CASE cls = "FEATURE_SET"
  <2>1. HandleResponse(b, r) = FeatureSetReply(b, r)
    BY <1>7 DEF HandleResponse
  <2>2. FeatureSetReply(b, r) \in {b, StructReply(b, r)}
    BY DEF FeatureSetReply
  <2>3. Good(StructReply(b, r))
    BY <1>1, <1>7, StructFits
  <2> HIDE DEF Good
  <2>4. Good(HandleResponse(b, r))
    BY <1>2, <2>1, <2>2, <2>3
  <2>5. QED
    BY <2>4 DEF Good
<1>8. CASE cls = "GET_FEATURE"
  <2> DEFINE d == Tells(Wrote(b, cap), cap)
             o == r.len < cap
  <2>1. HandleResponse(b, r) = [d EXCEPT !.overread = o]
    BY <1>8 DEF HandleResponse, FeatureReply
  <2>2. d \in Buf /\ Good(d) /\ o \in BOOLEAN
    BY <1>4
  <2> HIDE DEF d, o
  <2>3. QED
    BY <1>8, <2>1, <2>2, OverreadFits DEF Unchecked
<1>9. CASE cls = "GET_RING_STATUS"
  <2>1. HandleResponse(b, r) = RingStatusReply(b, r)
    BY <1>9 DEF HandleResponse
  <2>2. b = Fresh(cap)
    BY <1>9 DEF ZeroedFirst
  <2>3. cls \in Unchecked
    BY <1>9 DEF Unchecked
  <2>4. QED
    BY <1>1, <2>1, <2>2, <2>3, RingStatusFits
<1>10. CASE cls = "FEATURE_MATRIX"
  <2>1. HandleResponse(b, r) = MatrixReply(b, r)
    BY <1>10 DEF HandleResponse
  <2>2. QED
    BY <1>1, <1>10, <2>1, MatrixFits
<1>11. CASE cls = "PKT_FATE"
  <2>1. HandleResponse(b, r) = FateReply(b, r)
    BY <1>11 DEF HandleResponse
  <2>2. QED
    BY <1>1, <1>11, <2>1, FateFits
<1>12. CASE cls = "GET_APF_CAPABILITIES"
  <2>1. HandleResponse(b, r) = ApfReply(b, r)
    BY <1>12 DEF HandleResponse
  <2>2. ApfReply(b, r) \in {b, Tells(Wrote(b, cap), cap)}
    BY DEF ApfReply
  <2> HIDE DEF Good
  <2>3. Good(HandleResponse(b, r))
    BY <1>2, <1>4, <2>1, <2>2
  <2>4. QED
    BY <2>3 DEF Good
<1>13. CASE cls = "LINK_STATS"
  <2>1. HandleResponse(b, r) = LinkStatsReply(b, r)
    BY <1>13 DEF HandleResponse
  <2> DEFINE d == Tells(b, 0)
             o == r.len < cap
  <2>2. \/ LinkStatsReply(b, r) = b
        \/ LinkStatsReply(b, r) = [d EXCEPT !.overread = o]
    BY DEF LinkStatsReply
  <2>3. d \in Buf /\ Good(d) /\ o \in BOOLEAN
    BY <1>5
  <2> HIDE DEF d, o
  <2>4. Good([d EXCEPT !.overread = o])
    BY <1>13, <2>3, OverreadFits DEF Unchecked
  <2> HIDE DEF Good
  <2>5. Good(HandleResponse(b, r))
    BY <1>2, <2>1, <2>2, <2>4
  <2>6. QED
    BY <2>5 DEF Good
<1>14. CASE cls \notin {"GET_FW_VER", "GSCAN_CAPABILITIES",
                        "RTT_CAPABILITIES", "RTT_RESPONDER", "FEATURE_SET",
                        "GET_FEATURE", "GET_RING_STATUS", "FEATURE_MATRIX",
                        "PKT_FATE", "GET_APF_CAPABILITIES", "LINK_STATS"}
  <2>1. HandleResponse(b, r) = b
    BY <1>14 DEF HandleResponse
  <2>2. QED
    BY <1>2, <2>1
<1>15. QED
  BY <1>6, <1>7, <1>8, <1>9, <1>10, <1>11, <1>12, <1>13, <1>14

\* A name that fits into an ssid, with its terminator, stays in its entry.
LEMMA SsidWithin ==
    ASSUME NEW i \in Nat, NEW v \in Nat, v < SsidRoom
    PROVE  SsidReaches(i, v) = {i}
<1>1. /\ SsidAt \in Nat /\ EntryLen \in Nat \ {0} /\ SsidRoom \in Nat
      /\ SsidAt + v < EntryLen
  BY PayloadsAssumption DEF PayloadsAssumption
<1> DEFINE a == SsidAt + v
<1>2. a \in Nat /\ a < EntryLen
  BY <1>1
<1> HIDE DEF a
<1>3. a \div EntryLen = 0
  BY <1>1, <1>2
<1>4. QED
  BY <1>3 DEF SsidReaches, a

\* handleEvent, whatever the driver sends with an event of any class.
LEMMA EventFits ==
    ASSUME NEW c \in EventClass, NEW r \in Payload(c)
    PROVE  /\ Fits(c, EventCap(c), HandleEvent(c, r), r)
           /\ Trusted(c, EventCap(c), HandleEvent(c, r), r)
<1> DEFINE n == EventCap(c)
           Good(d) == Fits(c, n, d, r) /\ Trusted(c, n, d, r)
<1>1. r.len \in Nat /\ r.num \in Nat /\ r.attrs \in Seq(Attr)
  BY PayloadFacts
<1>2. MaxResults \in Nat /\ MaxResults >= 1 /\ FixedLen \in Nat
      /\ MaxIeLen \in Nat
  BY PayloadsAssumption DEF PayloadsAssumption
<1>3. n \in Nat
  BY <1>2 DEF EventCap
<1>4. c # "FULL_SCAN" => n = MaxResults
  BY DEF EventCap
<1>5. c = "FULL_SCAN" => n = FixedLen + MaxIeLen
  BY DEF EventCap
<1> HIDE DEF n
<1>6. Good(Fresh(0))
  BY <1>3, FreshFits
<1>7. /\ Fresh(0) \in Buf /\ Fresh(0).zeroed = {} /\ Fresh(0).written = {}
      /\ Fresh(0).overread = FALSE
  <2>1. 0 \in Nat /\ 1..0 = {}
    OBVIOUS
  <2>2. QED
    BY <2>1, FreshFacts
<1>8. Good(Tells(Fresh(0), 0)) /\ Tells(Fresh(0), 0) \in Buf
  BY <1>3, <1>7, ToldNothing
<1>9. ASSUME NEW w \in Nat, w <= n
      PROVE  /\ Good(Tells(Wrote(Fresh(0), w), w))
             /\ Tells(Wrote(Fresh(0), w), w) \in Buf
  <2>1. w <= w /\ {} \subseteq 1..n
    OBVIOUS
  <2>2. QED
    BY <1>3, <1>7, <1>9, <2>1, StoredFits, Zenon
<1>10. CASE c = "SCAN"
  <2>1. HandleEvent(c, r) \in {Fresh(0), Tells(Fresh(0), 0)}
    BY <1>10 DEF HandleEvent, ScanEvent
  <2> HIDE DEF Good
  <2>2. Good(HandleEvent(c, r))
    BY <1>6, <1>8, <2>1
  <2>3. QED
    BY <2>2 DEF Good, n
<1>11. CASE c = "FULL_SCAN"
  <2> DEFINE w == FixedLen + Lower(MaxIeLen, r.num)
             d == Tells(Wrote(Fresh(0), w), w)
             o == w > r.len
  <2>1. HandleEvent(c, r) = FullScanEvent(r)
    BY <1>11 DEF HandleEvent
  <2>2. Lower(MaxIeLen, r.num) \in Nat /\ Lower(MaxIeLen, r.num) <= MaxIeLen
    <3> DEFINE m == MaxIeLen
               k == r.num
    <3>1. m \in Nat /\ k \in Nat
      BY <1>1, <1>2
    <3> HIDE DEF m, k
    <3>2. Lower(m, k) \in Nat /\ Lower(m, k) <= m
      BY <3>1, LowerFacts
    <3>3. QED
      BY <3>2 DEF m, k
  <2>3. w \in Nat /\ w <= n
    BY <1>2, <1>5, <1>11, <2>2
  <2>4. \/ FullScanEvent(r) = Fresh(0)
        \/ FullScanEvent(r) = [d EXCEPT !.overread = o] /\ ~o
    BY DEF FullScanEvent
  <2>5. o \in BOOLEAN
    OBVIOUS
  <2> HIDE DEF w
  <2>6. Good(d) /\ d \in Buf
    BY <1>9, <2>3
  <2> HIDE DEF d, o
  <2>7. ~o => Good([d EXCEPT !.overread = o])
    BY <2>5, <2>6, OverreadFits
  <2> HIDE DEF Good
  <2>8. Good(HandleEvent(c, r))
    BY <1>6, <2>1, <2>4, <2>7
  <2>9. QED
    BY <2>8 DEF Good, n
<1>12. CASE c = "HOTLIST"
  <2> DEFINE w == Lower(MaxResults, r.len)
  <2>1. \/ HandleEvent(c, r) = Fresh(0)
        \/ HandleEvent(c, r) = Tells(Wrote(Fresh(MaxResults), w), w)
    BY <1>12 DEF HandleEvent, HotlistEvent
  <2>2. w \in Nat /\ w <= n /\ w <= w
    <3>1. w \in Nat /\ w <= MaxResults
      BY <1>1, <1>2, LowerFacts
    <3>2. QED
      BY <1>4, <1>12, <3>1
  <2> HIDE DEF w
  <2>3. /\ Fresh(MaxResults) \in Buf /\ Fresh(MaxResults).overread = FALSE
        /\ Fresh(MaxResults).zeroed \subseteq 1..n
        /\ Fresh(MaxResults).written \subseteq 1..n
    BY <1>2, <1>4, <1>12, FreshFacts
  <2>4. Good(Tells(Wrote(Fresh(MaxResults), w), w))
    BY <1>3, <2>2, <2>3, StoredFits, Zenon
  <2> HIDE DEF Good
  <2>5. Good(HandleEvent(c, r))
    BY <1>6, <2>1, <2>4
  <2>6. QED
    BY <2>5 DEF Good, n
<1>13. CASE c = "EPNO"
  <2> DEFINE w == Lower(MaxResults, Len(r.attrs))
             b == Tells(Fresh(MaxResults), w)
             q == {i \in Networks(r) : r.attrs[i].type = "entry"}
             W == UNION {SsidReaches(i, r.attrs[i].val) : i \in q}
             o == LongSsid(r)
             d == [b EXCEPT !.written = W, !.overread = o]
  <2>1. HandleEvent(c, r) = Fresh(0) \/ HandleEvent(c, r) = d
    BY <1>13 DEF HandleEvent, EPNOEvent
  <2>2. w \in Nat /\ w <= n /\ w <= Len(r.attrs) /\ Networks(r) = 1..w
    <3>1. Len(r.attrs) \in Nat
      BY <1>1
    <3>2. w \in Nat /\ w <= MaxResults /\ w <= Len(r.attrs)
      BY <1>2, <3>1, LowerFacts
    <3>3. QED
      BY <1>4, <1>13, <3>2 DEF Networks
  <2>3. ASSUME ~LongSsid(r) PROVE W \subseteq 1..n
    <3>1. ASSUME NEW i \in q PROVE SsidReaches(i, r.attrs[i].val) \subseteq 1..n
      <4>1. i \in 1..w /\ r.attrs[i] \in Attr /\ r.attrs[i].type = "entry"
        BY <1>1, <2>2
      <4>2. r.attrs[i].val \in Nat
        BY <4>1, PayloadsAssumption DEF Attr, PayloadsAssumption
      <4>3. r.attrs[i].val < SsidRoom
        BY <2>3, <3>1, <4>2, PayloadsAssumption DEF LongSsid, PayloadsAssumption
      <4>4. SsidReaches(i, r.attrs[i].val) = {i}
        BY <4>1, <4>2, <4>3, SsidWithin
      <4>5. i \in 1..n
        <5>1. n \in Nat
          BY <1>3
        <5> HIDE DEF n, w
        <5>2. QED
          BY <2>2, <4>1, <5>1
      <4>6. QED
        BY <4>4, <4>5
    <3>2. QED
      BY <3>1
  <2>4. 1..w \subseteq 1..n /\ W \in SUBSET Nat /\ o \in BOOLEAN
    <3>1. ASSUME NEW i \in q PROVE SsidReaches(i, r.attrs[i].val) \subseteq Nat
      <4>1. i \in Nat
        BY <2>2
      <4>2. QED
        BY <4>1 DEF SsidReaches
    <3>2. QED
      BY <1>3, <2>2, <3>1 DEF LongSsid
  <2> HIDE DEF w, W, q
  <2>5. /\ Fresh(MaxResults) \in Buf /\ Fresh(MaxResults).overread = FALSE
        /\ Fresh(MaxResults).zeroed = 1..n
    BY <1>2, <1>4, <1>13, FreshFacts
  <2>6. /\ b \in Buf /\ b.zeroed = 1..n /\ b.num = w
    BY <2>2, <2>5, TellFacts
  <2> HIDE DEF b
  <2>7. d.zeroed = 1..n /\ d.num = w /\ d.overread = o /\ d.written = W
    BY <2>4, <2>6 DEF Buf
  <2> HIDE DEF d
  <2>8. Fits(c, n, d, r)
    BY <1>13, <2>3, <2>7 DEF Fits
  <2>9. Trusted(c, n, d, r)
    BY <2>2, <2>4, <2>7 DEF Trusted
  <2>10. Good(d)
    BY <2>8, <2>9
  <2> HIDE DEF Good
  <2>11. Good(HandleEvent(c, r))
    BY <1>6, <2>1, <2>10
  <2>12. QED
    BY <2>11 DEF Good, n
<1>14. CASE c = "SIG_CHANGE"
  <2> DEFINE w == Lower(MaxResults, r.len)
  <2>1. \/ HandleEvent(c, r) = Fresh(0)
        \/ HandleEvent(c, r) = Tells(Wrote(Fresh(0), w), w)
    BY <1>14 DEF HandleEvent, SigChangeEvent
  <2>2. w \in Nat /\ w <= n
    <3>1. w \in Nat /\ w <= MaxResults
      BY <1>1, <1>2, LowerFacts
    <3>2. QED
      BY <1>4, <1>14, <3>1
  <2> HIDE DEF w, Good
  <2>3. Good(HandleEvent(c, r))
    BY <1>6, <1>9, <2>1, <2>2
  <2>4. QED
    BY <2>3 DEF Good, n
<1>15. CASE c \in {"ANQPO", "RSSI"}
  <2> DEFINE d == Tells(Fresh(0), 0)
             o == IF c = "ANQPO" THEN FixedLen + r.num >= r.len
                  ELSE r.len < EventCap("RSSI")
  <2>1. \/ HandleEvent(c, r) = Fresh(0)
        \/ HandleEvent(c, r) = [d EXCEPT !.overread = o]
    BY <1>15 DEF HandleEvent, AnqpoEvent, RSSIEvent
  <2>2. o \in BOOLEAN
    <3>1. (FixedLen + r.num >= r.len) \in BOOLEAN
      OBVIOUS
    <3>2. (r.len < EventCap("RSSI")) \in BOOLEAN
      OBVIOUS
    <3>3. QED
      BY <3>1, <3>2, Zenon
  <2>3. d \in Buf /\ Good(d)
    BY <1>8
  <2> HIDE DEF d, o
  <2>4. Good([d EXCEPT !.overread = o])
    BY <1>15, <2>2, <2>3, OverreadFits DEF Unchecked
  <2> HIDE DEF Good
  <2>5. Good(HandleEvent(c, r))
    BY <1>6, <2>1, <2>4
  <2>6. QED
    BY <2>5 DEF Good, n
<1>16. CASE c = "RING_DATA"
  <2> DEFINE q == {i \in DOMAIN r.attrs : r.attrs[i].type = "entry"}
             w == Lower(Cardinality(q), 1)
             d == Tells(Wrote(Fresh(1), w), 1)
             o == \E i \in q : r.attrs[i].val < StatusLen
  <2>1. \/ HandleEvent(c, r) = Fresh(0)
        \/ HandleEvent(c, r) = [d EXCEPT !.overread = o]
    BY <1>16 DEF HandleEvent, LogEvent
  <2>2. 1 \in Nat /\ 1 <= n /\ 1..1 \subseteq 1..n
    BY <1>2, <1>4, <1>16
  <2>3. w \in Nat /\ w <= 1
    <3>1. Len(r.attrs) \in Nat /\ DOMAIN r.attrs = 1..Len(r.attrs)
      BY <1>1
    <3>2. 1 \in Int /\ Len(r.attrs) \in Int
      BY <3>1
    <3>3. IsFiniteSet(1..Len(r.attrs))
      BY <3>2, FS_Interval, Zenon
    <3>4. q \subseteq 1..Len(r.attrs)
      BY <3>1
    <3> HIDE DEF q
    <3>5. IsFiniteSet(q)
      BY <3>3, <3>4, FS_Subset, Zenon
    <3>6. Cardinality(q) \in Nat
      BY <3>5, FS_CardinalityType, Zenon
    <3>7. QED
      BY <2>2, <3>6, LowerFacts
  <2>4. o \in BOOLEAN
    OBVIOUS
  <2> HIDE DEF w, o
  <2>5. /\ Fresh(1) \in Buf /\ Fresh(1).zeroed = 1..1
        /\ Fresh(1).written = {} /\ Fresh(1).overread = FALSE
    BY <2>2, FreshFacts
  <2>6. /\ Fresh(1).zeroed \subseteq 1..n /\ Fresh(1).written \subseteq 1..n
        /\ 1..1 \subseteq Fresh(1).zeroed /\ w <= n
    BY <1>3, <2>2, <2>3, <2>5
  <2>7. d \in Buf /\ Good(d)
    BY <1>3, <2>2, <2>3, <2>5, <2>6, StoredFits
  <2> HIDE DEF d
  <2>8. Good([d EXCEPT !.overread = o])
    BY <1>16, <2>4, <2>7, OverreadFits DEF Unchecked
  <2> HIDE DEF Good
  <2>9. Good(HandleEvent(c, r))
    BY <1>6, <2>1, <2>8
  <2>10. QED
    BY <2>9 DEF Good, n
<1>17. QED
  BY <1>10, <1>11, <1>12, <1>13, <1>14, <1>15, <1>16 DEF EventClass

-----------------------------------------------------------------------------
(* One step per operation                                                  *)

\* The two parts of the invariant about the buffer, as Fits and Trusted.
LEMMA BufferParts ==
    /\ InBounds <=> Fits(cls, cap, buf, reply)
    /\ CountTrusted <=> Trusted(cls, cap, buf, reply)
  BY DEF InBounds, CountTrusted, Fits, Trusted

\* The same after a step.
LEMMA BufferPartsNext ==
    /\ Fits(cls', cap', buf', reply') => InBounds'
    /\ Trusted(cls', cap', buf', reply') => CountTrusted'
  BY DEF InBounds, CountTrusted, Fits, Trusted

\* Nothing is called yet.
LEMMA Initially == Init => IInv
<1> SUFFICES ASSUME Init PROVE IInv
  OBVIOUS
<1>1. pc = "idle" /\ heap = {} /\ buf = Fresh(0) /\ cap = 0
  BY DEF Init
<1>2. Fits(cls, cap, buf, reply) /\ Trusted(cls, cap, buf, reply)
  <2>1. cap \in Nat /\ buf \in {Fresh(0), Fresh(cap)}
    BY <1>1
  <2>2. QED
    BY <2>1, FreshFits
<1>3. InBounds /\ CountTrusted
  BY <1>2, BufferParts
<1>4. QED
  BY <1>1, <1>3 DEF IInv

\* The sizes of the callers' buffers.
LEMMA CapFacts == ASSUME NEW n \in Caps PROVE n \in Nat
  BY PayloadsAssumption DEF PayloadsAssumption

\* What there is to build for a request.
LEMMA RequestFacts ==
    ASSUME NEW c \in Class
    PROVE  /\ c = "SET_APF_PROGRAM" =>
                 Request(c) = ApfRequest("SET_APF_PROGRAM")
           /\ c = "PKT_FATE" => Request(c) \in FatesUncleared
           /\ c \notin {"SET_APF_PROGRAM", "PKT_FATE"} =>
                 Request(c) \in Seq({"create", "put"})
<1>1. CASE c = "SET_APF_PROGRAM"
  <2>1. Request(c) = ApfRequest("SET_APF_PROGRAM")
    BY <1>1 DEF Request, DebugClass, FateClass, ApfClass, KeepAliveClass,
                SetterClass
  <2>2. QED
    BY <1>1, <2>1
<1>2. CASE c = "PKT_FATE"
  <2>1. Request(c) = FateRequest(c)
    BY <1>2 DEF Request, DebugClass, FateClass, ApfClass, KeepAliveClass,
                SetterClass
  <2>2. QED
    BY <1>2, <2>1 DEF FatesUncleared, FateRequest
<1>3. CASE c \notin {"SET_APF_PROGRAM", "PKT_FATE"}
  <2>1. /\ <<"create">> \in Seq({"create", "put"})
        /\ <<"create", "put">> \in Seq({"create", "put"})
    OBVIOUS
  <2>2. <<"create", "put", "put", "put", "put", "put">>
            \in Seq({"create", "put"})
    OBVIOUS
  <2>3. <<"create", "put", "put", "put", "put", "put", "put">>
            \in Seq({"create", "put"})
    OBVIOUS
  <2>4. CASE c \in DebugClass
    <3>1. Request(c) = DebugRequest(c)
      BY <2>4 DEF Request, DebugClass, FateClass, ApfClass, KeepAliveClass,
                  SetterClass
    <3>2. DebugRequest(c) \in Seq({"create", "put"})
      BY <2>1, <2>2 DEF DebugRequest
    <3>3. QED
      BY <1>3, <3>1, <3>2
  <2>5. CASE c \in FateClass
    <3>1. Request(c) = FateRequest(c)
      BY <2>5 DEF Request, DebugClass, FateClass, ApfClass, KeepAliveClass,
                  SetterClass
    <3>2. QED
      BY <1>3, <2>1, <3>1 DEF FateRequest
  <2>6. CASE c \in ApfClass
    <3>1. Request(c) = ApfRequest(c)
      BY <2>6 DEF Request, DebugClass, FateClass, ApfClass, KeepAliveClass,
                  SetterClass
    <3>2. QED
      BY <1>3, <2>1, <3>1 DEF ApfRequest
  <2>7. CASE c \in KeepAliveClass
    <3>1. Request(c) = KeepAliveRequest(c)
      BY <2>7 DEF Request, DebugClass, FateClass, ApfClass, KeepAliveClass,
                  SetterClass
    <3>2. KeepAliveRequest(c) \in Seq({"create", "put"})
      BY <2>1, <2>3 DEF KeepAliveRequest
    <3>3. QED
      BY <1>3, <3>1, <3>2
  <2>8. CASE c \in SetterClass
    <3>1. Request(c) = SetterRequest(c)
      BY <2>8 DEF Request, DebugClass, FateClass, ApfClass, KeepAliveClass,
                  SetterClass
    <3>2. SetterRequest(c) \in Seq({"create", "put"})
      BY <2>1 DEF SetterRequest
    <3>3. QED
      BY <1>3, <3>1, <3>2
  <2>9. CASE c \notin DebugClass \cup FateClass \cup ApfClass
                      \cup KeepAliveClass \cup SetterClass
    <3>1. Request(c) = QueryRequest
      BY <2>9 DEF Request
    <3>2. QED
      BY <1>3, <2>1, <3>1 DEF QueryRequest
  <2>10. QED
    BY <2>4, <2>5, <2>6, <2>7, <2>8, <2>9
<1>4. QED
  BY <1>1, <1>2, <1>3

\* A request begins: the constructor clears what it clears.
LEMMA CallStep ==
    ASSUME IInv, NEW c \in Class, NEW n \in Caps, Call(c, n) PROVE IInv'
<1>1. /\ pc' = "build" /\ cls' = c /\ cap' = n /\ todo' = Request(c)
      /\ reply' = NoPayload /\ result' = "SUCCESS"
  BY DEF Call
<1>2. heap' \in {{"cmd"}, {}}
  BY DEF Call
<1>3. buf' = IF ZeroedFirst(c) THEN Fresh(n) ELSE Fresh(0)
  BY DEF Call
<1>4. n \in Nat
  BY CapFacts
<1>5. Fits(c, n, buf', reply') /\ Trusted(c, n, buf', reply')
  BY <1>3, <1>4, FreshFits
<1>6. InBounds' /\ CountTrusted'
  BY <1>1, <1>5, BufferPartsNext
<1>7. "program" \notin heap' /\ heap' \subseteq {"cmd", "program"}
  BY <1>2
<1>8. Building'
  <2>1. cls' \in Class /\ cap' \in Caps
    BY <1>1
  <2>2. /\ cls' = "SET_APF_PROGRAM" =>
             todo' = ApfRequest("SET_APF_PROGRAM")
        /\ cls' = "PKT_FATE" => todo' \in FatesUncleared
        /\ cls' \notin {"SET_APF_PROGRAM", "PKT_FATE"} =>
             todo' \in Seq({"create", "put"})
    BY <1>1, RequestFacts
  <2>3. /\ buf' \in {Fresh(0), Fresh(cap')}
        /\ ZeroedFirst(cls') => buf' = Fresh(cap')
    BY <1>1, <1>3
  <2>4. QED
    BY <1>1, <1>7, <2>1, <2>2, <2>3 DEF Building, ZeroedFirst
<1>9. QED
  BY <1>1, <1>6, <1>7, <1>8 DEF IInv

\* A refused call leaves nothing behind.
LEMMA CallRefusedStep ==
    ASSUME IInv, NEW c \in Class, NEW n \in Caps, NEW e,
           CallRefused(c, n, e)
    PROVE  IInv'
<1>1. /\ pc' = "idle" /\ cap' = n /\ heap' = {} /\ buf' = Fresh(0)
  BY DEF CallRefused
<1>2. n \in Nat
  BY CapFacts
<1>3. Fits(cls', cap', buf', reply') /\ Trusted(cls', cap', buf', reply')
  BY <1>1, <1>2, FreshFits
<1>4. InBounds' /\ CountTrusted'
  BY <1>3, BufferPartsNext
<1>5. QED
  BY <1>1, <1>4 DEF IInv

\* One call of building a request.
LEMMA BuildStep == ASSUME IInv, Build PROVE IInv'
<1>1. pc = "build" /\ todo # <<>> /\ Building /\ InBounds /\ CountTrusted
      /\ heap \subseteq {"cmd", "program"}
  BY DEF IInv, Build
<1>2. /\ todo' = Tail(todo) /\ pc' = "build" /\ cls' = cls /\ cap' = cap
      /\ reply' = reply /\ result' = result
  BY <1>1 DEF Build
<1>3. heap' = CASE Head(todo) = "program" -> heap \cup {"program"}
                [] Head(todo) = "delete" -> heap \ {"program"}
                [] OTHER -> heap
  BY DEF Build
<1>4. buf' = IF Head(todo) = "zero" THEN Fresh(cap) ELSE buf
  BY DEF Build
<1>5. /\ Head(todo) = "program" => heap' = heap \cup {"program"}
      /\ Head(todo) = "delete" => heap' = heap \ {"program"}
      /\ Head(todo) \notin {"program", "delete"} => heap' = heap
  BY <1>3
<1>6. heap' \subseteq {"cmd", "program"}
  BY <1>1, <1>5
<1>7. cap \in Nat /\ cls \in Class /\ cap \in Caps /\ reply = NoPayload
      /\ result = "SUCCESS"
  BY <1>1, CapFacts DEF Building
<1>8. /\ buf' \in {Fresh(0), Fresh(cap)}
      /\ ZeroedFirst(cls) => buf' = Fresh(cap)
      /\ buf = Fresh(cap) => buf' = Fresh(cap)
  BY <1>1, <1>4 DEF Building
<1>9. InBounds' /\ CountTrusted'
  <2>1. Fits(cls, cap, buf', reply') /\ Trusted(cls, cap, buf', reply')
    BY <1>7, <1>8, FreshFits
  <2>2. QED
    BY <1>2, <2>1, BufferPartsNext
<1>10. cls = "SET_APF_PROGRAM" =>
          \/ "program" \in heap' /\ todo' \in ProgramMade
          \/ "program" \notin heap' /\ todo' = <<>>
  <2> SUFFICES ASSUME cls = "SET_APF_PROGRAM"
               PROVE  \/ "program" \in heap' /\ todo' \in ProgramMade
                      \/ "program" \notin heap' /\ todo' = <<>>
    OBVIOUS
  <2>1. \/ "program" \in heap /\ todo \in ProgramMade
        \/ /\ "program" \notin heap
           /\ todo = <<"program", "create", "put", "put", "delete">>
    BY <1>1 DEF Building, ApfRequest
  <2>2. CASE todo = <<"program", "create", "put", "put", "delete">>
    <3>1. Head(todo) = "program"
          /\ Tail(todo) = <<"create", "put", "put", "delete">>
      BY <2>2
    <3>2. QED
      BY <1>2, <1>5, <3>1 DEF ProgramMade
  <2>3. CASE /\ "program" \in heap
             /\ todo = <<"create", "put", "put", "delete">>
    <3>1. Head(todo) = "create" /\ Tail(todo) = <<"put", "put", "delete">>
      BY <2>3
    <3>2. QED
      BY <1>2, <1>5, <2>3, <3>1 DEF ProgramMade
  <2>4. CASE "program" \in heap /\ todo = <<"put", "put", "delete">>
    <3>1. Head(todo) = "put" /\ Tail(todo) = <<"put", "delete">>
      BY <2>4
    <3>2. QED
      BY <1>2, <1>5, <2>4, <3>1 DEF ProgramMade
  <2>5. CASE "program" \in heap /\ todo = <<"put", "delete">>
    <3>1. Head(todo) = "put" /\ Tail(todo) = <<"delete">>
      BY <2>5
    <3>2. QED
      BY <1>2, <1>5, <2>5, <3>1 DEF ProgramMade
  <2>6. CASE todo = <<"delete">>
    <3>1. Head(todo) = "delete" /\ Tail(todo) = <<>>
      BY <2>6
    <3>2. QED
      BY <1>2, <1>5, <3>1
  <2>7. QED
    BY <2>1, <2>2, <2>3, <2>4, <2>5, <2>6 DEF ProgramMade
<1>11. cls = "PKT_FATE" =>
          /\ \/ todo' \in FatesUncleared
             \/ todo' \in FatesCleared /\ buf' = Fresh(cap)
          /\ heap' = heap
  <2> SUFFICES ASSUME cls = "PKT_FATE"
               PROVE  /\ \/ todo' \in FatesUncleared
                         \/ todo' \in FatesCleared /\ buf' = Fresh(cap)
                      /\ heap' = heap
    OBVIOUS
  <2>1. \/ todo \in FatesUncleared
        \/ todo \in FatesCleared /\ buf = Fresh(cap)
    BY <1>1 DEF Building
  <2>2. CASE todo = <<"create", "zero", "put", "put">>
    <3>1. Head(todo) = "create" /\ Tail(todo) = <<"zero", "put", "put">>
      BY <2>2
    <3>2. QED
      BY <1>2, <1>5, <3>1 DEF FatesUncleared
  <2>3. CASE todo = <<"zero", "put", "put">>
    <3>1. Head(todo) = "zero" /\ Tail(todo) = <<"put", "put">>
      BY <2>3
    <3>2. QED
      BY <1>2, <1>4, <1>5, <3>1 DEF FatesCleared
  <2>4. CASE todo = <<"put", "put">> /\ buf = Fresh(cap)
    <3>1. Head(todo) = "put" /\ Tail(todo) = <<"put">>
      BY <2>4
    <3>2. QED
      BY <1>2, <1>5, <1>8, <2>4, <3>1 DEF FatesCleared
  <2>5. CASE todo = <<"put">> /\ buf = Fresh(cap)
    <3>1. Head(todo) = "put" /\ Tail(todo) = <<>>
      BY <2>5
    <3>2. QED
      BY <1>2, <1>5, <1>8, <2>5, <3>1 DEF FatesCleared
  <2>6. QED
    BY <1>1, <2>1, <2>2, <2>3, <2>4, <2>5 DEF FatesUncleared, FatesCleared
<1>12. cls \notin {"SET_APF_PROGRAM", "PKT_FATE"} =>
          todo' \in Seq({"create", "put"}) /\ heap' = heap
  <2>1. ASSUME todo \in Seq({"create", "put"})
        PROVE  Head(todo) \in {"create", "put"}
               /\ Tail(todo) \in Seq({"create", "put"})
    BY <1>1, <2>1
  <2>2. cls \notin {"SET_APF_PROGRAM", "PKT_FATE"} =>
           todo \in Seq({"create", "put"})
    BY <1>1 DEF Building
  <2>3. QED
    BY <1>2, <1>5, <2>1, <2>2
<1>13. cls # "SET_APF_PROGRAM" => "program" \notin heap'
  <2>1. cls # "SET_APF_PROGRAM" => "program" \notin heap
    BY <1>1 DEF Building
  <2>2. QED
    BY <1>11, <1>12, <2>1
<1>14. Building'
  BY <1>2, <1>7, <1>8, <1>10, <1>11, <1>12, <1>13
     DEF Building, ZeroedFirst
<1>15. QED
  BY <1>2, <1>6, <1>9, <1>14 DEF IInv

\* A failed building: only the copy of a program may be lost.
LEMMA BuildFailsStep == ASSUME IInv, BuildFails PROVE IInv'
<1>1. pc = "build" /\ todo # <<>> /\ Building /\ InBounds /\ CountTrusted
      /\ heap \subseteq {"cmd", "program"}
  BY DEF IInv, BuildFails
<1>2. /\ pc' = "return" /\ cls' = cls /\ cap' = cap /\ heap' = heap
      /\ buf' = buf /\ reply' = reply
  BY DEF BuildFails
<1>3. InBounds' /\ CountTrusted'
  <2>1. Fits(cls, cap, buf, reply) /\ Trusted(cls, cap, buf, reply)
    BY <1>1, BufferParts
  <2>2. QED
    BY <1>2, <2>1, BufferPartsNext
<1>4. "program" \in heap =>
         cls = "SET_APF_PROGRAM" /\ todo \in ProgramMade
  BY <1>1 DEF Building
<1>5. todo \in ProgramMade => Head(todo) # "program"
  BY DEF ProgramMade
<1>6. "program" \in heap => result' = "ERROR"
  BY <1>4, <1>5 DEF BuildFails
<1>7. reply = NoPayload
  BY <1>1 DEF Building
<1>8. "program" \in heap' => Lost'
  BY <1>2, <1>4, <1>6, <1>7 DEF Lost
<1>9. QED
  BY <1>1, <1>2, <1>3, <1>8 DEF IInv

\* Once all is built the copy of a program is deleted.
LEMMA BuiltFacts ==
    ASSUME Building, todo = <<>>
    PROVE  /\ "program" \notin heap /\ buf \in {Fresh(0), Fresh(cap)}
           /\ ZeroedFirst(cls) \/ cls = "PKT_FATE" => buf = Fresh(cap)
<1>1. todo \notin ProgramMade /\ todo \notin FatesUncleared
  BY DEF ProgramMade, FatesUncleared
<1>2. "program" \notin heap
  BY <1>1 DEF Building
<1>3. cls = "PKT_FATE" => buf = Fresh(cap)
  BY <1>1 DEF Building
<1>4. QED
  BY <1>2, <1>3 DEF Building

\* The driver refuses or only acknowledges: the buffer is as it was.
LEMMA ExchangeStep == ASSUME IInv, NEW e, Exchange(e) PROVE IInv'
<1>1. pc = "build" /\ todo = <<>> /\ Building /\ InBounds /\ CountTrusted
      /\ heap \subseteq {"cmd", "program"}
  BY DEF IInv, Exchange
<1>2. /\ pc' = "return" /\ cls' = cls /\ cap' = cap /\ heap' = heap
      /\ buf' = buf /\ reply' = reply
  BY DEF Exchange
<1>3. InBounds' /\ CountTrusted'
  <2>1. Fits(cls, cap, buf, reply) /\ Trusted(cls, cap, buf, reply)
    BY <1>1, BufferParts
  <2>2. QED
    BY <1>2, <2>1, BufferPartsNext
<1>4. "program" \notin heap'
  BY <1>1, <1>2, BuiltFacts
<1>5. QED
  BY <1>1, <1>2, <1>3, <1>4 DEF IInv

\* The driver's answer goes into the buffer.
LEMMA ExchangeReplyStep ==
    ASSUME IInv, NEW r \in Payload(cls), ExchangeReply(r) PROVE IInv'
<1>1. pc = "build" /\ todo = <<>> /\ Building
      /\ heap \subseteq {"cmd", "program"}
  BY DEF IInv, ExchangeReply
<1>2. /\ pc' = "return" /\ cls' = cls /\ cap' = cap /\ heap' = heap
      /\ buf' = HandleResponse(buf, r) /\ reply' = r
  BY DEF ExchangeReply
<1>3. cap \in Nat
  BY <1>1, CapFacts DEF Building
<1>4. /\ "program" \notin heap /\ buf \in {Fresh(0), Fresh(cap)}
      /\ ZeroedFirst(cls) \/ cls = "PKT_FATE" => buf = Fresh(cap)
  BY <1>1, BuiltFacts
<1>5. /\ Fits(cls, cap, HandleResponse(buf, r), r)
      /\ Trusted(cls, cap, HandleResponse(buf, r), r)
  BY <1>3, <1>4, ResponseFits
<1>6. InBounds' /\ CountTrusted'
  BY <1>2, <1>5, BufferPartsNext
<1>7. QED
  BY <1>1, <1>2, <1>4, <1>6 DEF IInv

\* The command is released.
LEMMA ReturnStep == ASSUME IInv, Return PROVE IInv'
<1>1. pc = "return" /\ InBounds /\ CountTrusted
      /\ heap \subseteq {"cmd", "program"} /\ ("program" \in heap => Lost)
  BY DEF IInv, Return
<1>2. /\ pc' = "idle" /\ heap' = heap \ {"cmd"} /\ cls' = cls /\ cap' = cap
      /\ buf' = buf /\ reply' = reply /\ result' = result
  BY DEF Return
<1>3. InBounds' /\ CountTrusted'
  <2>1. Fits(cls, cap, buf, reply) /\ Trusted(cls, cap, buf, reply)
    BY <1>1, BufferParts
  <2>2. QED
    BY <1>2, <2>1, BufferPartsNext
<1>4. "program" \in heap' => Lost'
  BY <1>1, <1>2 DEF Lost
<1>5. QED
  BY <1>1, <1>2, <1>3, <1>4 DEF IInv

\* An event: its handler has a buffer of its own and frees what it allocates.
LEMMA EventStep ==
    ASSUME IInv, NEW c \in EventClass, NEW r \in Payload(c), Event(c, r)
    PROVE  IInv'
<1>1. /\ pc' = "idle" /\ cls' = c /\ cap' = EventCap(c) /\ reply' = r
      /\ heap' = {}
      /\ buf' = HandleEvent(c, r) \/ buf' = Fresh(0)
  BY DEF Event
<1>2. EventCap(c) \in Nat
  BY PayloadsAssumption DEF PayloadsAssumption, EventCap
<1>3. Fits(cls', cap', buf', reply') /\ Trusted(cls', cap', buf', reply')
  <2>1. CASE buf' = HandleEvent(c, r)
    BY <1>1, <2>1, EventFits
  <2>2. CASE buf' = Fresh(0)
    BY <1>1, <1>2, <2>2, FreshFits
  <2>3. QED
    BY <1>1, <2>1, <2>2
<1>4. InBounds' /\ CountTrusted'
  BY <1>3, BufferPartsNext
<1>5. QED
  BY <1>1, <1>4 DEF IInv

\* No step breaks the invariant.
LEMMA Inductive == IInv /\ [Next]_vars => IInv'
<1> SUFFICES ASSUME IInv, [Next]_vars PROVE IInv'
  OBVIOUS
<1>1. CASE \E c \in Class, n \in Caps : Call(c, n)
  BY <1>1, CallStep
<1>2. CASE \E c \in Class, n \in Caps,
              e \in {"INVALID_ARGS", "OUT_OF_MEMORY"} : CallRefused(c, n, e)
  BY <1>2, CallRefusedStep
<1>3. CASE Build
  BY <1>3, BuildStep
<1>4. CASE BuildFails
  BY <1>4, BuildFailsStep
<1>5. CASE \E e \in {"SUCCESS", "ERROR"} : Exchange(e)
  BY <1>5, ExchangeStep
<1>6. CASE \E r \in Payload(cls) : ExchangeReply(r)
  BY <1>6, ExchangeReplyStep
<1>7. CASE Return
  BY <1>7, ReturnStep
<1>8. CASE \E c \in EventClass : \E r \in Payload(c) : Event(c, r)
  BY <1>8, EventStep
<1>9. CASE UNCHANGED vars
  <2>1. /\ pc' = pc /\ cls' = cls /\ cap' = cap /\ todo' = todo
        /\ heap' = heap /\ buf' = buf /\ reply' = reply /\ result' = result
    BY <1>9 DEF vars
  <2>2. InBounds' /\ CountTrusted'
    BY <2>1 DEF IInv, InBounds, CountTrusted
  <2>3. Building => Building'
    BY <2>1 DEF Building, ZeroedFirst
  <2>4. Lost => Lost'
    BY <2>1 DEF Lost
  <2>5. QED
    BY <2>1, <2>2, <2>3, <2>4 DEF IInv
<1>10. QED
  BY <1>1, <1>2, <1>3, <1>4, <1>5, <1>6, <1>7, <1>8, <1>9 DEF Next

\* The invariant of the one-shot requests and the event handlers.
THEOREM PayloadsInvariant == Spec => []IInv
  BY Initially, Inductive, PTL DEF Spec

\* Whatever fails while a request is built or answered, only the copy of a
\* packet filter program can be left once it has returned, and only when the
\* message could not be made (createSetPktFilterRequest).
THEOREM NothingLeftAllocated == Spec => []ReleasedOnReturn
<1>1. IInv => ReleasedOnReturn
  BY DEF IInv, ReleasedOnReturn, Lost
<1>2. QED
  BY <1>1, PayloadsInvariant, PTL

\* For every size of the buffers and every payload, of any length and with
\* attributes in any order, no handleResponse or handleEvent stores behind
\* its buffer or reads more than was sent, except that the handlers which do
\* not look at the length of a struct read on, and that the name of a network
\* longer than an ssid is copied beyond its entry.
THEOREM NothingOutOfBounds == Spec => []InBounds
<1>1. IInv => InBounds
  BY DEF IInv
<1>2. QED
  BY <1>1, PayloadsInvariant, PTL

\* The entries a client is told of are there and were cleared or written,
\* with the exceptions the property names.
THEOREM CountsCanBeTrusted == Spec => []CountTrusted
<1>1. IInv => CountTrusted
  BY DEF IInv
<1>2. QED
  BY <1>1, PayloadsInvariant, PTL
=============================================================================
