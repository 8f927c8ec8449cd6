-------------------------- MODULE ScanResultsProofs -------------------------
(***************************************************************************)
(* GetScanResultsCommand, for arrays of any length, any number of requests *)
(* and any replies, however their attributes are ordered: what is stored   *)
(* is what a declarative reading of the replies says.                      *)
(*                                                                         *)
(* The argument walks along the replies, attribute by attribute.  Upto are *)
(* the scans up to a place in them; Holds is kept from each place to the   *)
(* next, and the locals of handleResponse are what the reading says of the *)
(* attributes so far, until the array is full.                             *)
(***************************************************************************)
EXTENDS ScanResults, FiniteSetTheorems, WellFoundedInduction, TLAPS

USE ScanResultsAssumption DEF ScanResultsAssumption

ScanRecord == [id : Nat, num_results : Nat]

\* The locals of handleResponse.
Locals == [id : Nat, num : Nat, scans : Seq(ScanRecord), stop : BOOLEAN]

\* The members it sets.
Members == [scans : Seq(ScanRecord), completed : Nat]

\* The scans up to attribute k of element i.
Upto(P, i, k) == {p \in P : p[1] < i \/ (p[1] = i /\ p[2] <= k)}

\* What an attribute finds in the locals, as the reference reads it.
IdBefore(attrs, k) ==
    IF LastBefore(attrs, "id", k) = 0 THEN 0
    ELSE attrs[LastBefore(attrs, "id", k)].val

-----------------------------------------------------------------------------
(* Walking a reply                                                         *)

\* A set of naturals that is not empty has a least element.
LEMMA LeastExists ==
    ASSUME NEW S \in SUBSET Nat, S # {}
    PROVE  \E x \in S : \A y \in S : x <= y
<1> DEFINE R == {ss \in Nat \X Nat : ss[1] < ss[2]}
<1>1. IsWellFoundedOn(R, Nat)
  BY NatLessThanWellFounded, Zenon DEF OpToRel
<1>2. PICK x \in S : \A y \in S : <<y, x>> \notin R
  <2> HIDE DEF R
  <2> QED
    BY <1>1, WFMin
<1>3. ASSUME NEW y \in S PROVE x <= y
  <2>1. x \in Nat /\ y \in Nat /\ <<y, x>> \in Nat \X Nat
    OBVIOUS
  <2>2. <<y, x>>[1] = y /\ <<y, x>>[2] = x
    OBVIOUS
  <2>3. ~(y < x)
    BY <1>2, <2>1, <2>2
  <2>4. QED
    BY <2>1, <2>3
<1>4. QED
  BY <1>3

\* What holds at the start and passes from each attribute to the next holds
\* for all of the first n.
LEMMA CountUp ==
    ASSUME NEW n \in Nat, NEW S, 0 \in S,
           \A m \in 1..n : m - 1 \in S => m \in S
    PROVE  \A m \in 0..n : m \in S
<1> DEFINE Bad == {m \in 0..n : m \notin S}
<1> SUFFICES ASSUME Bad # {} PROVE FALSE
  OBVIOUS
<1>1. Bad \in SUBSET Nat
  OBVIOUS
<1>2. PICK l \in Bad : \A y \in Bad : l <= y
  BY <1>1, LeastExists
<1>3. l \in 1..n /\ l \notin S
  BY <1>2
<1>4. l - 1 \in 0..n /\ ~(l <= l - 1)
  BY <1>3
<1>5. l - 1 \in S
  BY <1>2, <1>4
<1>6. QED
  BY <1>3, <1>5

\* The last of the first n attributes.
LEMMA MaxIs ==
    ASSUME NEW n \in Nat, NEW s \in SUBSET (1..n), n \in s
    PROVE  Max(s) = n
<1>1. \A x \in s : x \in Nat /\ x <= n
  OBVIOUS
<1>2. \E x \in s : \A y \in s : x >= y
  BY <1>1
<1>3. Max(s) \in s /\ \A y \in s : Max(s) >= y
  BY <1>2 DEF Max
<1>4. Max(s) \in Nat /\ Max(s) <= n /\ Max(s) >= n
  BY <1>1, <1>3
<1>5. QED
  BY <1>4

\* A set of some of the first n attributes has a last one.
LEMMA MaxIn ==
    ASSUME NEW n \in Nat, NEW s \in SUBSET (1..n), s # {}
    PROVE  Max(s) \in s
<1> DEFINE T == {n - x : x \in s}
<1>1. T \in SUBSET Nat /\ T # {}
  OBVIOUS
<1>2. PICK z \in T : \A y \in T : z <= y
  BY <1>1, LeastExists
<1>3. PICK x \in s : z = n - x
  BY <1>2
<1>4. ASSUME NEW y \in s PROVE x >= y
  <2>1. z <= n - y
    BY <1>2
  <2>2. QED
    BY <1>3, <2>1
<1>5. \E w \in s : \A y \in s : w >= y
  BY <1>4
<1>6. QED
  BY <1>5 DEF Max

\* One attribute after the other: g holds what comes of each set of attributes,
\* taken in their order.
FoldsTo(g, b, q, op, n) ==
    \A s \in SUBSET (1..n) :
        g[s] = IF s = {} THEN b ELSE op[<<g[s \ {Max(s)}], q[Max(s)]>>]

\* The walk over the attributes is defined for every payload.
LEMMA FoldExists ==
    ASSUME NEW A, NEW B, NEW b \in B, NEW q \in Seq(A),
           NEW op \in [B \X A -> B], NEW n \in 0..Len(q)
    PROVE  \E g \in [SUBSET (1..n) -> B] : FoldsTo(g, b, q, op, n)
<1> DEFINE Ok(m) == \E g \in [SUBSET (1..m) -> B] : FoldsTo(g, b, q, op, m)
<1>1. Len(q) \in Nat /\ \A i \in 1..Len(q) : q[i] \in A
  OBVIOUS
<1>2. Ok(0)
  <2> DEFINE g == [s \in SUBSET (1..0) |-> b]
  <2>1. 1..0 = {}
    OBVIOUS
  <2>2. g \in [SUBSET (1..0) -> B] /\ FoldsTo(g, b, q, op, 0)
    BY <2>1 DEF FoldsTo
  <2>3. QED
    BY <2>2
<1>3. ASSUME NEW m \in 1..Len(q), Ok(m - 1) PROVE Ok(m)
  <2>1. PICK g \in [SUBSET (1..(m - 1)) -> B] : FoldsTo(g, b, q, op, m - 1)
    BY <1>3
  <2>2. m \in Nat /\ q[m] \in A /\ 1..(m - 1) = (1..m) \ {m} /\ m \in 1..m
    BY <1>1
  <2> DEFINE h == [s \in SUBSET (1..m) |->
                      IF m \in s THEN op[<<g[s \ {m}], q[m]>>] ELSE g[s]]
  <2>3. ASSUME NEW s \in SUBSET (1..m), m \in s
        PROVE  /\ s \ {m} \in SUBSET (1..(m - 1)) /\ Max(s) = m
               /\ h[s] = op[<<g[s \ {m}], q[m]>>] /\ h[s] \in B
               /\ h[s \ {m}] = g[s \ {m}]
    <3>1. s \ {m} \in SUBSET (1..(m - 1))
      BY <2>2
    <3>2. Max(s) = m
      BY <2>2, <2>3, MaxIs
    <3>3. h[s] = op[<<g[s \ {m}], q[m]>>]
      BY <2>3
    <3>4. g[s \ {m}] \in B
      BY <2>1, <3>1
    <3>5. op[<<g[s \ {m}], q[m]>>] \in B
      BY <2>2, <3>4
    <3>6. h[s \ {m}] = g[s \ {m}]
      OBVIOUS
    <3>7. QED
      BY <3>1, <3>2, <3>3, <3>5, <3>6
  <2>4. ASSUME NEW s \in SUBSET (1..m), m \notin s
        PROVE  /\ s \in SUBSET (1..(m - 1)) /\ h[s] = g[s] /\ h[s] \in B
    <3>1. s \in SUBSET (1..(m - 1))
      BY <2>2, <2>4
    <3>2. h[s] = g[s]
      BY <2>4
    <3>3. QED
      BY <2>1, <3>1, <3>2
  <2>5. h \in [SUBSET (1..m) -> B]
    <3>1. \A s \in SUBSET (1..m) : h[s] \in B
      BY <2>3, <2>4
    <3>2. h = [s \in SUBSET (1..m) |-> h[s]]
      OBVIOUS
    <3> HIDE DEF h
    <3>3. QED
      BY <3>1, <3>2
  <2>6. ASSUME NEW s \in SUBSET (1..m)
        PROVE  h[s] = IF s = {} THEN b
                      ELSE op[<<h[s \ {Max(s)}], q[Max(s)]>>]
    <3> HIDE DEF h
    <3>1. CASE m \in s
      <4>1. s # {}
        BY <3>1
      <4>2. QED
        BY <2>3, <3>1, <4>1
    <3>2. CASE m \notin s
      <4>1. s \in SUBSET (1..(m - 1)) /\ h[s] = g[s]
        BY <2>4, <3>2
      <4>2. h[s \ {Max(s)}] = g[s \ {Max(s)}]
        <5>1. s \ {Max(s)} \in SUBSET (1..m) /\ m \notin s \ {Max(s)}
          BY <3>2
        <5>2. QED
          BY <2>4, <5>1
      <4>3. g[s] = IF s = {} THEN b
                   ELSE op[<<g[s \ {Max(s)}], q[Max(s)]>>]
        BY <2>1, <4>1 DEF FoldsTo
      <4>4. QED
        BY <4>1, <4>2, <4>3
    <3>3. QED
      BY <3>1, <3>2
  <2> HIDE DEF h
  <2>7. FoldsTo(h, b, q, op, m)
    BY <2>6 DEF FoldsTo
  <2>8. QED
    BY <2>5, <2>7
<1> HIDE DEF Ok
<1> DEFINE S == {m \in 0..Len(q) : Ok(m)}
<1>4. \A m \in 1..Len(q) : m - 1 \in S => m \in S
  <2> SUFFICES ASSUME NEW m \in 1..Len(q), m - 1 \in S PROVE m \in S
    OBVIOUS
  <2>1. Ok(m)
    BY <1>3
  <2>2. m \in 0..Len(q)
    BY <1>1
  <2>3. QED
    BY <2>1, <2>2
<1>5. 0 \in S
  BY <1>1, <1>2
<1>6. n \in S
  BY <1>1, <1>4, <1>5, CountUp
<1>7. QED
  BY <1>6 DEF Ok

\* The least of a set of naturals.
LEMMA MinFacts ==
    ASSUME NEW S \in SUBSET Nat, S # {}
    PROVE  Min(S) \in S /\ Min(S) \in Nat /\ \A y \in S : Min(S) <= y
<1>1. \E x \in S : \A y \in S : x <= y
  BY LeastExists
<1>2. QED
  BY <1>1 DEF Min

\* What is less than all of a set and in it is its least.
LEMMA MinIs ==
    ASSUME NEW S \in SUBSET Nat, NEW x \in S, \A y \in S : x <= y
    PROVE  Min(S) = x
<1>1. Min(S) \in S /\ Min(S) \in Nat /\ \A y \in S : Min(S) <= y
  BY MinFacts
<1>2. QED
  BY <1>1

\* Adding to a set: the least is that of the old least and what is new.
LEMMA MinOfMore ==
    ASSUME NEW S \in SUBSET Nat, S # {}, NEW a \in Nat, NEW b \in Nat
    PROVE  Min(S \cup {a, b}) = Min({Min(S), a, b})
<1> DEFINE m == Min({Min(S), a, b})
<1>1. Min(S) \in S /\ Min(S) \in Nat /\ \A y \in S : Min(S) <= y
  BY MinFacts
<1>2. /\ m \in {Min(S), a, b} /\ m \in Nat
      /\ m <= Min(S) /\ m <= a /\ m <= b
  BY <1>1, MinFacts
<1> HIDE DEF m
<1>3. m \in S \cup {a, b}
  BY <1>1, <1>2
<1>4. \A y \in S \cup {a, b} : m <= y
  BY <1>1, <1>2
<1>5. S \cup {a, b} \in SUBSET Nat
  OBVIOUS
<1>6. Min(S \cup {a, b}) = m
  BY <1>3, <1>4, <1>5, MinIs
<1>7. QED
  BY <1>6 DEF m

\* The least of two and of three.
LEMMA MinOfFew ==
    /\ \A a, b \in Nat : Min({a, b}) = IF a <= b THEN a ELSE b
    /\ \A a, b, c \in Nat : Min({a, b, c}) \in Nat
    /\ \A b, c \in Nat : Min({0, b, c}) = 0
<1>1. ASSUME NEW a \in Nat, NEW b \in Nat
      PROVE  Min({a, b}) = IF a <= b THEN a ELSE b
  <2>1. Min({a, b}) \in {a, b} /\ Min({a, b}) <= a /\ Min({a, b}) <= b
    BY MinFacts
  <2>2. QED
    BY <2>1
<1>2. ASSUME NEW a \in Nat, NEW b \in Nat, NEW c \in Nat
      PROVE  Min({a, b, c}) \in Nat
  BY MinFacts
<1>3. ASSUME NEW b \in Nat, NEW c \in Nat
      PROVE  Min({0, b, c}) = 0
  BY MinIs
<1>4. QED
  BY <1>1, <1>2, <1>3

-----------------------------------------------------------------------------
(* The reference, attribute by attribute                                   *)

\* The numbers that Announced takes the least of.
Numbers(attrs, n, k) ==
    {attrs[j].val :
         j \in {n} \cup {i \in n..(k - 1) : attrs[i].type = "results"}}
    \cup (IF \E i \in n..(k - 1) : attrs[i].type = "results"
          THEN {MaxAp} ELSE {})

\* The last attribute of a type before the first, and before the next one.
LEMMA LastBeforeStep ==
    ASSUME NEW attrs \in Seq(Attribute), NEW t
    PROVE  /\ LastBefore(attrs, t, 1) = 0
           /\ \A k \in 1..Len(attrs) :
                 LastBefore(attrs, t, k + 1) =
                     IF attrs[k].type = t THEN k ELSE LastBefore(attrs, t, k)
<1> DEFINE B(k) == {j \in 1..(k - 1) : attrs[j].type = t}
<1>1. LastBefore(attrs, t, 1) = 0
  <2>1. B(1) = {}
    OBVIOUS
  <2>2. QED
    BY <2>1 DEF LastBefore
<1>2. ASSUME NEW k \in 1..Len(attrs)
      PROVE  LastBefore(attrs, t, k + 1) =
                 IF attrs[k].type = t THEN k ELSE LastBefore(attrs, t, k)
  <2>1. k \in Nat /\ k \in 1..k /\ (k + 1) - 1 = k /\ 1..k = 1..(k - 1) \cup {k}
    OBVIOUS
  <2>2. B(k + 1) = {j \in 1..k : attrs[j].type = t}
    BY <2>1
  <2>3. CASE attrs[k].type = t
    <3>1. k \in B(k + 1) /\ B(k + 1) \in SUBSET (1..k)
      BY <2>1, <2>2, <2>3
    <3>2. Max(B(k + 1)) = k /\ B(k + 1) # {}
      BY <2>1, <3>1, MaxIs
    <3>3. QED
      BY <2>3, <3>2 DEF LastBefore
  <2>4. CASE attrs[k].type # t
    <3>1. B(k + 1) = B(k)
      BY <2>1, <2>2, <2>4
    <3>2. QED
      BY <2>4, <3>1 DEF LastBefore
  <2>5. QED
    BY <2>3, <2>4
<1>3. QED
  BY <1>1, <1>2

\* It is an attribute of that type, or none.
LEMMA LastBeforeIs ==
    ASSUME NEW attrs \in Seq(Attribute), NEW t, NEW k \in 1..(Len(attrs) + 1)
    PROVE  LET n == LastBefore(attrs, t, k) IN
           \/ n = 0
           \/ n \in 1..(k - 1) /\ n \in 1..Len(attrs) /\ attrs[n].type = t
<1> DEFINE B == {j \in 1..(k - 1) : attrs[j].type = t}
<1>1. Len(attrs) \in Nat /\ k - 1 \in Nat /\ 1..(k - 1) \subseteq 1..Len(attrs)
  OBVIOUS
<1>2. CASE B = {}
  BY <1>2 DEF LastBefore
<1>3. CASE B # {}
  <2>1. B \in SUBSET (1..(k - 1))
    OBVIOUS
  <2>2. Max(B) \in B
    <3> HIDE DEF B
    <3> QED
      BY <1>1, <1>3, <2>1, MaxIn
  <2>3. LastBefore(attrs, t, k) = Max(B)
    BY <1>3 DEF LastBefore
  <2>4. QED
    BY <1>1, <2>2, <2>3
<1>4. QED
  BY <1>2, <1>3

\* The id in force, from attribute to attribute.
LEMMA IdStep ==
    ASSUME NEW attrs \in Seq(Attribute)
    PROVE  /\ IdBefore(attrs, 1) = 0
           /\ \A k \in 1..Len(attrs) :
                 /\ IdBefore(attrs, k) \in Nat
                 /\ IdBefore(attrs, k + 1) =
                       IF attrs[k].type = "id" THEN attrs[k].val
                       ELSE IdBefore(attrs, k)
<1>1. IdBefore(attrs, 1) = 0
  BY LastBeforeStep DEF IdBefore
<1>2. ASSUME NEW k \in 1..Len(attrs)
      PROVE  /\ IdBefore(attrs, k) \in Nat
             /\ IdBefore(attrs, k + 1) =
                   IF attrs[k].type = "id" THEN attrs[k].val
                   ELSE IdBefore(attrs, k)
  <2> DEFINE n == LastBefore(attrs, "id", k)
  <2>1. k \in 1..(Len(attrs) + 1) /\ k # 0
    OBVIOUS
  <2>2. n = 0 \/ n \in 1..Len(attrs)
    BY <2>1, LastBeforeIs
  <2>3. \A i \in 1..Len(attrs) : attrs[i].val \in Nat
    <3>1. \A i \in 1..Len(attrs) : attrs[i] \in Attribute
      OBVIOUS
    <3>2. QED
      BY <3>1 DEF Attribute
  <2>4. IdBefore(attrs, k) \in Nat
    BY <2>2, <2>3 DEF IdBefore
  <2>5. LastBefore(attrs, "id", k + 1) = IF attrs[k].type = "id" THEN k ELSE n
    BY LastBeforeStep
  <2>6. IdBefore(attrs, k + 1) = IF attrs[k].type = "id" THEN attrs[k].val
                                 ELSE IdBefore(attrs, k)
    BY <2>1, <2>5 DEF IdBefore
  <2>7. QED
    BY <2>4, <2>6
<1>3. QED
  BY <1>1, <1>2

\* The numbers of results announced, before the next attribute: a "results"
\* adds its own and the limit.
LEMMA NumbersStep ==
    ASSUME NEW attrs \in Seq(Attribute), NEW k \in 1..Len(attrs), NEW n \in 1..k
    PROVE  /\ Numbers(attrs, n, k) \in SUBSET Nat
           /\ Numbers(attrs, n, k) # {}
           /\ n < k =>
                Numbers(attrs, n, k + 1) =
                  IF attrs[k].type = "results"
                  THEN Numbers(attrs, n, k) \cup {attrs[k].val, MaxAp}
                  ELSE Numbers(attrs, n, k)
           /\ attrs[k].type = "num" => Numbers(attrs, k, k + 1) = {attrs[k].val}
<1> DEFINE R(l) == {i \in n..(l - 1) : attrs[i].type = "results"}
           V(l) == {attrs[j].val : j \in {n} \cup R(l)}
           M(l) == IF R(l) # {} THEN {MaxAp} ELSE {}
<1>1. \A i \in 1..Len(attrs) : attrs[i].val \in Nat
  <2>1. \A i \in 1..Len(attrs) : attrs[i] \in Attribute
    OBVIOUS
  <2>2. QED
    BY <2>1 DEF Attribute
<1>2. \A l : Numbers(attrs, n, l) = V(l) \cup M(l)
  BY DEF Numbers
<1>3. n \in 1..Len(attrs) /\ R(k) \subseteq 1..Len(attrs)
  OBVIOUS
<1>4. V(k) \in SUBSET Nat /\ attrs[n].val \in V(k)
  BY <1>1, <1>3
<1>5. M(k) \in SUBSET Nat
  OBVIOUS
<1>6. Numbers(attrs, n, k) \in SUBSET Nat /\ Numbers(attrs, n, k) # {}
  BY <1>2, <1>4, <1>5
<1>7. ASSUME n < k
      PROVE  Numbers(attrs, n, k + 1) =
                IF attrs[k].type = "results"
                THEN Numbers(attrs, n, k) \cup {attrs[k].val, MaxAp}
                ELSE Numbers(attrs, n, k)
  <2>1. n..((k + 1) - 1) = n..(k - 1) \cup {k}
    BY <1>7
  <2>2. CASE attrs[k].type = "results"
    <3>1. R(k + 1) = R(k) \cup {k}
      BY <2>1, <2>2
    <3> HIDE DEF R
    <3>2. V(k + 1) = V(k) \cup {attrs[k].val} /\ M(k + 1) = {MaxAp}
      BY <3>1
    <3>3. M(k) \subseteq {MaxAp}
      OBVIOUS
    <3> HIDE DEF V, M
    <3>4. QED
      BY <1>2, <2>2, <3>2, <3>3
  <2>3. CASE attrs[k].type # "results"
    <3>1. R(k + 1) = R(k)
      BY <2>1, <2>3
    <3> HIDE DEF R
    <3>2. V(k + 1) = V(k) /\ M(k + 1) = M(k)
      BY <3>1
    <3> HIDE DEF V, M
    <3>3. QED
      BY <1>2, <2>3, <3>2
  <2>4. QED
    BY <2>2, <2>3
<1>8. ASSUME attrs[k].type = "num"
      PROVE  Numbers(attrs, k, k + 1) = {attrs[k].val}
  <2>1. k..((k + 1) - 1) = {k}
    OBVIOUS
  <2>2. \A i \in k..((k + 1) - 1) : attrs[i].type # "results"
    BY <1>8, <2>1
  <2>3. QED
    BY <2>2 DEF Numbers
<1>9. QED
  BY <1>6, <1>7, <1>8

\* The number in force, from attribute to attribute.
LEMMA AnnouncedStep ==
    ASSUME NEW attrs \in Seq(Attribute)
    PROVE  /\ Announced(attrs, 1) = 0
           /\ \A k \in 1..Len(attrs) :
                 /\ Announced(attrs, k) \in Nat
                 /\ Announced(attrs, k + 1) =
                       CASE attrs[k].type = "num" -> attrs[k].val
                         [] attrs[k].type = "id" -> Announced(attrs, k)
                         [] attrs[k].type = "results" ->
                               IF Announced(attrs, k) = 0 THEN 0
                               ELSE Min({Announced(attrs, k), attrs[k].val, MaxAp})
<1>1. Announced(attrs, 1) = 0
  BY LastBeforeStep DEF Announced
<1>2. ASSUME NEW k \in 1..Len(attrs)
      PROVE  /\ Announced(attrs, k) \in Nat
             /\ Announced(attrs, k + 1) =
                   CASE attrs[k].type = "num" -> attrs[k].val
                     [] attrs[k].type = "id" -> Announced(attrs, k)
                     [] attrs[k].type = "results" ->
                           IF Announced(attrs, k) = 0 THEN 0
                           ELSE Min({Announced(attrs, k), attrs[k].val, MaxAp})
  <2> DEFINE n == LastBefore(attrs, "num", k)
             S == Numbers(attrs, n, k)
  <2>1. attrs[k] \in Attribute
    OBVIOUS
  <2>2. attrs[k].val \in Nat /\ attrs[k].type \in {"id", "num", "results"}
    BY <2>1 DEF Attribute
  <2>3. k \in 1..(Len(attrs) + 1) /\ k # 0 /\ k \in 1..k /\ MaxAp \in Nat
    OBVIOUS
  <2>4. n = 0 \/ (n \in 1..k /\ n < k /\ n # 0)
    <3>1. n = 0 \/ n \in 1..(k - 1)
      BY <2>3, LastBeforeIs
    <3>2. QED
      BY <3>1
  <2>5. LastBefore(attrs, "num", k + 1) = IF attrs[k].type = "num" THEN k ELSE n
    BY LastBeforeStep
  <2> HIDE DEF n
  <2>6. /\ Announced(attrs, k) = IF n = 0 THEN 0 ELSE Min(S)
        /\ Announced(attrs, k + 1) =
              IF attrs[k].type = "num" THEN Min(Numbers(attrs, k, k + 1))
              ELSE IF n = 0 THEN 0 ELSE Min(Numbers(attrs, n, k + 1))
    <3>1. Announced(attrs, k) = IF n = 0 THEN 0 ELSE Min(S)
      BY DEF Announced, Numbers, n
    <3>2. CASE attrs[k].type = "num"
      <4>1. LastBefore(attrs, "num", k + 1) = k
        BY <2>5, <3>2
      <4>2. Announced(attrs, k + 1) = Min(Numbers(attrs, k, k + 1))
        BY <2>3, <4>1 DEF Announced, Numbers
      <4>3. QED
        BY <3>1, <3>2, <4>2
    <3>3. CASE attrs[k].type # "num"
      <4>1. LastBefore(attrs, "num", k + 1) = n
        BY <2>5, <3>3
      <4>2. Announced(attrs, k + 1) =
               IF n = 0 THEN 0 ELSE Min(Numbers(attrs, n, k + 1))
        BY <4>1 DEF Announced, Numbers
      <4>3. QED
        BY <3>1, <3>3, <4>2
    <3>4. QED
      BY <3>2, <3>3
  <2>7. n # 0 => S \in SUBSET Nat /\ S # {} /\ Min(S) \in Nat
    BY <2>4, NumbersStep, MinFacts
  <2>8. Announced(attrs, k) \in Nat
    BY <2>6, <2>7
  <2>9. CASE attrs[k].type = "num"
    <3>1. Numbers(attrs, k, k + 1) = {attrs[k].val}
      BY <2>3, <2>9, NumbersStep
    <3>2. Min({attrs[k].val}) = attrs[k].val
      BY <2>2, MinIs
    <3>3. QED
      BY <2>6, <2>8, <2>9, <3>1, <3>2
  <2>10. CASE attrs[k].type = "id"
    <3>1. n # 0 => Numbers(attrs, n, k + 1) = S
      BY <2>4, <2>10, NumbersStep
    <3>2. QED
      BY <2>6, <2>8, <2>10, <3>1
  <2>11. CASE attrs[k].type = "results"
    <3>1. CASE n = 0
      BY <2>6, <2>8, <2>11, <3>1
    <3>2. CASE n # 0
      <4>1. Numbers(attrs, n, k + 1) = S \cup {attrs[k].val, MaxAp}
        BY <2>4, <2>11, <3>2, NumbersStep
      <4>2. Min(S \cup {attrs[k].val, MaxAp})
            = Min({Min(S), attrs[k].val, MaxAp})
        BY <2>2, <2>3, <2>7, <3>2, MinOfMore, ZenonT(60)
      <4>3. Announced(attrs, k + 1)
            = Min({Announced(attrs, k), attrs[k].val, MaxAp})
        BY <2>6, <2>11, <3>2, <4>1, <4>2
      <4>4. Announced(attrs, k) = 0 => Announced(attrs, k + 1) = 0
        BY <2>2, <2>3, <4>3, MinOfFew
      <4>5. QED
        BY <2>8, <2>11, <4>3, <4>4
    <3>3. QED
      BY <3>1, <3>2
  <2>12. QED
    BY <2>2, <2>9, <2>10, <2>11
<1>3. QED
  BY <1>1, <1>2

-----------------------------------------------------------------------------
(* handleResponse                                                          *)

\* What each attribute of a scan does to the locals.
LEMMA AttributeIs ==
    ASSUME NEW s \in Locals, NEW a \in Attribute
    PROVE  LET z == TakeAttribute(s, a) IN
           /\ s.stop => z = s
           /\ ~s.stop /\ a.type = "id" => z = [s EXCEPT !.id = a.val]
           /\ ~s.stop /\ a.type = "num" => z = [s EXCEPT !.num = a.val]
           /\ ~s.stop /\ a.type = "results" =>
                 /\ s.num = 0 => z = s
                 /\ s.num # 0 /\ Len(s.scans) >= mMax =>
                       z = [s EXCEPT !.stop = TRUE]
                 /\ s.num # 0 /\ ~(Len(s.scans) >= mMax) =>
                       z = [s EXCEPT
                              !.num = Min({s.num, a.val, MaxAp}),
                              !.scans = Append(@,
                                 [id |-> s.id,
                                  num_results |-> Min({s.num, a.val, MaxAp})])]
<1>1. s.stop => TakeAttribute(s, a) = s
  BY DEF TakeAttribute
<1>2. ASSUME ~s.stop, a.type = "id"
      PROVE  TakeAttribute(s, a) = [s EXCEPT !.id = a.val]
  BY <1>2 DEF TakeAttribute
<1>3. ASSUME ~s.stop, a.type = "num"
      PROVE  TakeAttribute(s, a) = [s EXCEPT !.num = a.val]
  BY <1>3 DEF TakeAttribute
<1>4. ASSUME ~s.stop, a.type = "results"
      PROVE  TakeAttribute(s, a) =
                IF s.num = 0 THEN s
                ELSE IF Len(s.scans) >= mMax THEN [s EXCEPT !.stop = TRUE]
                ELSE [s EXCEPT
                        !.num = Min({s.num, a.val, MaxAp}),
                        !.scans = Append(@,
                           [id |-> s.id,
                            num_results |-> Min({s.num, a.val, MaxAp})])]
  BY <1>4 DEF TakeAttribute, Excess
<1>5. QED
  BY <1>1, <1>2, <1>3, <1>4

\* The locals keep their types.
LEMMA AttributeTypes ==
    ASSUME NEW s \in Locals, NEW a \in Attribute
    PROVE  TakeAttribute(s, a) \in Locals
<1>1. a.val \in Nat /\ a.type \in {"id", "num", "results"}
  BY DEF Attribute
<1>2. /\ s.id \in Nat /\ s.num \in Nat /\ s.scans \in Seq(ScanRecord)
      /\ s.stop \in BOOLEAN
  BY DEF Locals
<1> DEFINE n == Min({s.num, a.val, MaxAp})
           e == [id |-> s.id, num_results |-> n]
<1>3. n \in Nat
  BY <1>1, <1>2, MinOfFew
<1>4. e \in ScanRecord
  BY <1>2, <1>3 DEF ScanRecord
<1>5. Append(s.scans, e) \in Seq(ScanRecord)
  <2> HIDE DEF e
  <2> QED
    BY <1>2, <1>4
<1>6. /\ [s EXCEPT !.id = a.val] \in Locals
      /\ [s EXCEPT !.num = a.val] \in Locals
      /\ [s EXCEPT !.stop = TRUE] \in Locals
  BY <1>1 DEF Locals
<1>7. [s EXCEPT !.num = n, !.scans = Append(s.scans, e)] \in Locals
  <2> HIDE DEF n, e
  <2> QED
    BY <1>3, <1>5 DEF Locals
<1>8. TakeAttribute(s, a) \in
         {s, [s EXCEPT !.id = a.val], [s EXCEPT !.num = a.val],
          [s EXCEPT !.stop = TRUE],
          [s EXCEPT !.num = n, !.scans = Append(s.scans, e)]}
  <2>1. CASE s.stop
    BY <2>1, AttributeIs
  <2>2. CASE ~s.stop
    BY <1>1, <2>2, AttributeIs
  <2>3. QED
    BY <2>1, <2>2
<1>9. QED
  BY <1>6, <1>7, <1>8

\* The walk over the attributes of a scan as a recursive function on sets of
\* them.
ScanFold(b, q) ==
    CHOOSE g : g = [s \in SUBSET DOMAIN q |->
                       IF s = {} THEN b
                       ELSE TakeAttribute(g[s \ {Max(s)}], q[Max(s)])]

\* It goes through the attributes one by one.
LEMMA ScanWalk ==
    ASSUME NEW b \in Locals, NEW q \in Seq(Attribute)
    PROVE  \E h : /\ h[0] = b
                  /\ \A k \in 1..Len(q) :
                        h[k] = TakeAttribute(h[k - 1], q[k])
                  /\ FoldLeft(TakeAttribute, b, q) = h[Len(q)]
<1> DEFINE D == SUBSET DOMAIN q
           op == [x \in Locals \X Attribute |-> TakeAttribute(x[1], x[2])]
           Step(g) == [s \in D |->
                          IF s = {} THEN b
                          ELSE TakeAttribute(g[s \ {Max(s)}], q[Max(s)])]
           G == ScanFold(b, q)
<1>1. Len(q) \in Nat /\ DOMAIN q = 1..Len(q)
      /\ \A i \in 1..Len(q) : q[i] \in Attribute
  OBVIOUS
<1>2. op \in [Locals \X Attribute -> Locals]
  BY AttributeTypes
<1>3. PICK g \in [SUBSET (1..Len(q)) -> Locals] : FoldsTo(g, b, q, op, Len(q))
  <2>1. Len(q) \in 0..Len(q)
    BY <1>1
  <2> HIDE DEF op
  <2>2. QED
    BY <1>2, <2>1, FoldExists
<1>4. ASSUME NEW s \in D PROVE g[s] = Step(g)[s]
  <2>1. CASE s = {}
    BY <1>1, <1>3, <2>1 DEF FoldsTo
  <2>2. CASE s # {}
    <3>1. Max(s) \in 1..Len(q)
      BY <1>1, <2>2, MaxIn
    <3>2. q[Max(s)] \in Attribute /\ g[s \ {Max(s)}] \in Locals
      BY <1>1, <1>3, <3>1
    <3>3. g[s] = op[<<g[s \ {Max(s)}], q[Max(s)]>>]
      BY <1>1, <1>3, <2>2 DEF FoldsTo
    <3>4. op[<<g[s \ {Max(s)}], q[Max(s)]>>]
              = TakeAttribute(g[s \ {Max(s)}], q[Max(s)])
      BY <3>2
    <3>5. QED
      BY <2>2, <3>3, <3>4
  <2>3. QED
    BY <2>1, <2>2
<1>5. g = Step(g)
  <2>1. g = [s \in D |-> g[s]]
    BY <1>1, <1>3
  <2>2. Step(g) = [s \in D |-> Step(g)[s]]
    OBVIOUS
  <2> HIDE DEF Step
  <2>3. QED
    BY <1>4, <2>1, <2>2
<1>6. G = Step(G)
  BY <1>5 DEF ScanFold
<1> HIDE DEF G
<1> DEFINE h == [k \in 0..Len(q) |-> G[1..k]]
<1>7. h[0] = b
  <2>1. 1..0 = {} /\ {} \in D /\ 0 \in 0..Len(q)
    BY <1>1
  <2>2. G[{}] = b
    BY <1>6, <2>1
  <2>3. QED
    BY <2>1, <2>2
<1>8. ASSUME NEW k \in 1..Len(q) PROVE h[k] = TakeAttribute(h[k - 1], q[k])
  <2>1. /\ k \in Nat /\ k \in 0..Len(q) /\ k - 1 \in 0..Len(q)
        /\ (1..k) \ {k} = 1..(k - 1)
        /\ 1..k \in D /\ 1..k # {} /\ k \in 1..k
    <3>1. k \in Nat /\ k \in 0..Len(q) /\ k - 1 \in 0..Len(q)
      BY <1>1
    <3>2. (1..k) \ {k} = 1..(k - 1)
      BY <3>1
    <3>3. k \in 1..k /\ 1..k \subseteq 1..Len(q)
      BY <1>1, <3>1
    <3>4. QED
      BY <1>1, <3>1, <3>2, <3>3
  <2>2. Max(1..k) = k
    BY <2>1, MaxIs
  <2>3. G[1..k] = TakeAttribute(G[(1..k) \ {Max(1..k)}], q[Max(1..k)])
    BY <1>6, <2>1
  <2>4. QED
    BY <2>1, <2>2, <2>3
<1>9. FoldLeft(TakeAttribute, b, q) = h[Len(q)]
  <2>1. FoldLeft(TakeAttribute, b, q) = G[DOMAIN q]
    BY DEF G, ScanFold, FoldLeft, MapThenFoldSet
  <2>2. QED
    BY <1>1, <2>1
<1>10. QED
  <2> HIDE DEF h
  <2> QED
    BY <1>7, <1>8, <1>9

\* The locals at the start of a scan.
Fresh(scans) == [id |-> 0, num |-> 0, scans |-> scans, stop |-> FALSE]

\* Every attribute finds locals of the right types.
LEMMA ScanWalkTypes ==
    ASSUME NEW scans \in Seq(ScanRecord), NEW q \in Seq(Attribute), NEW h,
           h[0] = Fresh(scans),
           \A k \in 1..Len(q) : h[k] = TakeAttribute(h[k - 1], q[k])
    PROVE  \A k \in 0..Len(q) : h[k] \in Locals
<1> DEFINE S == {k \in 0..Len(q) : h[k] \in Locals}
<1>1. Len(q) \in Nat
  OBVIOUS
<1>2. 0 \in S
  <2>1. Fresh(scans) \in Locals
    BY DEF Locals, Fresh
  <2>2. QED
    BY <1>1, <2>1
<1>3. \A k \in 1..Len(q) : k - 1 \in S => k \in S
  <2> SUFFICES ASSUME NEW k \in 1..Len(q), k - 1 \in S PROVE k \in S
    OBVIOUS
  <2>1. h[k - 1] \in Locals /\ q[k] \in Attribute /\ k \in 0..Len(q)
    OBVIOUS
  <2>2. h[k] \in Locals
    BY <2>1, AttributeTypes
  <2>3. QED
    BY <2>1, <2>2
<1>4. \A k \in 0..Len(q) : k \in S
  <2> HIDE DEF S
  <2> QED
    BY <1>1, <1>2, <1>3, CountUp
<1>5. QED
  BY <1>4

\* The array after a scan.
LEMMA ScanTypes ==
    ASSUME NEW scans \in Seq(ScanRecord), NEW q \in Seq(Attribute)
    PROVE  TakeScan(scans, q) \in Seq(ScanRecord)
<1>1. Fresh(scans) \in Locals
  BY DEF Locals, Fresh
<1>2. PICK h : /\ h[0] = Fresh(scans)
               /\ \A k \in 1..Len(q) : h[k] = TakeAttribute(h[k - 1], q[k])
               /\ FoldLeft(TakeAttribute, Fresh(scans), q) = h[Len(q)]
  BY <1>1, ScanWalk
<1>3. h[Len(q)] \in Locals
  <2>1. Len(q) \in 0..Len(q)
    OBVIOUS
  <2>2. QED
    BY <1>2, <2>1, ScanWalkTypes
<1>4. TakeScan(scans, q) = h[Len(q)].scans
  BY <1>2 DEF TakeScan, Fresh
<1>5. QED
  BY <1>3, <1>4 DEF Locals

\* The two kinds of elements.
LEMMA ElementIs ==
    ASSUME NEW e \in Element
    PROVE  \/ e.type = "complete" /\ e.val \in Nat
           \/ e.type = "scan" /\ e.attrs \in Seq(Attribute)
  BY DEF Element

\* What each element of a reply does to the members.
LEMMA ElementTypes ==
    ASSUME NEW s \in Members, NEW e \in Element
    PROVE  /\ TakeElement(s, e) \in Members
           /\ e.type = "complete" => TakeElement(s, e).scans = s.scans
           /\ e.type = "scan" =>
                 TakeElement(s, e).scans = TakeScan(s.scans, e.attrs)
<1>1. s.scans \in Seq(ScanRecord) /\ s.completed \in Nat
  BY DEF Members
<1>2. CASE e.type = "complete" /\ e.val \in Nat
  BY <1>2 DEF TakeElement, Members
<1>3. CASE e.type = "scan" /\ e.attrs \in Seq(Attribute)
  <2> DEFINE z == TakeScan(s.scans, e.attrs)
  <2>1. z \in Seq(ScanRecord)
    BY <1>1, <1>3, ScanTypes
  <2>2. TakeElement(s, e) = [s EXCEPT !.scans = z]
    BY <1>3 DEF TakeElement
  <2> HIDE DEF z
  <2>3. [s EXCEPT !.scans = z] \in Members /\ [s EXCEPT !.scans = z].scans = z
    BY <2>1 DEF Members
  <2>4. QED
    BY <1>3, <2>2, <2>3 DEF z
<1>4. QED
  BY <1>2, <1>3, ElementIs

\* The walk over a reply as a recursive function on the sets of its elements.
ReplyFold(b, q) ==
    CHOOSE g : g = [s \in SUBSET DOMAIN q |->
                       IF s = {} THEN b
                       ELSE TakeElement(g[s \ {Max(s)}], q[Max(s)])]

\* It goes through the elements one by one.
LEMMA ReplyWalk ==
    ASSUME NEW b \in Members, NEW q \in Seq(Element)
    PROVE  \E h : /\ h[0] = b
                  /\ \A k \in 1..Len(q) :
                        h[k] = TakeElement(h[k - 1], q[k])
                  /\ FoldLeft(TakeElement, b, q) = h[Len(q)]
<1> DEFINE D == SUBSET DOMAIN q
           op == [x \in Members \X Element |-> TakeElement(x[1], x[2])]
           Step(g) == [s \in D |->
                          IF s = {} THEN b
                          ELSE TakeElement(g[s \ {Max(s)}], q[Max(s)])]
           G == ReplyFold(b, q)
<1>1. Len(q) \in Nat /\ DOMAIN q = 1..Len(q)
      /\ \A i \in 1..Len(q) : q[i] \in Element
  OBVIOUS
<1>2. op \in [Members \X Element -> Members]
  BY ElementTypes
<1>3. PICK g \in [SUBSET (1..Len(q)) -> Members] : FoldsTo(g, b, q, op, Len(q))
  <2>1. Len(q) \in 0..Len(q)
    BY <1>1
  <2> HIDE DEF op
  <2>2. QED
    BY <1>2, <2>1, FoldExists
<1>4. ASSUME NEW s \in D PROVE g[s] = Step(g)[s]
  <2>1. CASE s = {}
    BY <1>1, <1>3, <2>1 DEF FoldsTo
  <2>2. CASE s # {}
    <3>1. Max(s) \in 1..Len(q)
      BY <1>1, <2>2, MaxIn
    <3>2. q[Max(s)] \in Element /\ g[s \ {Max(s)}] \in Members
      BY <1>1, <1>3, <3>1
    <3>3. g[s] = op[<<g[s \ {Max(s)}], q[Max(s)]>>]
      BY <1>1, <1>3, <2>2 DEF FoldsTo
    <3>4. op[<<g[s \ {Max(s)}], q[Max(s)]>>]
              = TakeElement(g[s \ {Max(s)}], q[Max(s)])
      BY <3>2
    <3>5. QED
      BY <2>2, <3>3, <3>4
  <2>3. QED
    BY <2>1, <2>2
<1>5. g = Step(g)
  <2>1. g = [s \in D |-> g[s]]
    BY <1>1, <1>3
  <2>2. Step(g) = [s \in D |-> Step(g)[s]]
    OBVIOUS
  <2> HIDE DEF Step
  <2>3. QED
    BY <1>4, <2>1, <2>2
<1>6. G = Step(G)
  BY <1>5 DEF ReplyFold
<1> HIDE DEF G
<1> DEFINE h == [k \in 0..Len(q) |-> G[1..k]]
<1>7. h[0] = b
  <2>1. 1..0 = {} /\ {} \in D /\ 0 \in 0..Len(q)
    BY <1>1
  <2>2. G[{}] = b
    BY <1>6, <2>1
  <2>3. QED
    BY <2>1, <2>2
<1>8. ASSUME NEW k \in 1..Len(q) PROVE h[k] = TakeElement(h[k - 1], q[k])
  <2>1. /\ k \in Nat /\ k \in 0..Len(q) /\ k - 1 \in 0..Len(q)
        /\ (1..k) \ {k} = 1..(k - 1)
        /\ 1..k \in D /\ 1..k # {} /\ k \in 1..k
    <3>1. k \in Nat /\ k \in 0..Len(q) /\ k - 1 \in 0..Len(q)
      BY <1>1
    <3>2. (1..k) \ {k} = 1..(k - 1)
      BY <3>1
    <3>3. k \in 1..k /\ 1..k \subseteq 1..Len(q)
      BY <1>1, <3>1
    <3>4. QED
      BY <1>1, <3>1, <3>2, <3>3
  <2>2. Max(1..k) = k
    BY <2>1, MaxIs
  <2>3. G[1..k] = TakeElement(G[(1..k) \ {Max(1..k)}], q[Max(1..k)])
    BY <1>6, <2>1
  <2>4. QED
    BY <2>1, <2>2, <2>3
<1>9. FoldLeft(TakeElement, b, q) = h[Len(q)]
  <2>1. FoldLeft(TakeElement, b, q) = G[DOMAIN q]
    BY DEF G, ReplyFold, FoldLeft, MapThenFoldSet
  <2>2. QED
    BY <1>1, <2>1
<1>10. QED
  <2> HIDE DEF h
  <2> QED
    BY <1>7, <1>8, <1>9

-----------------------------------------------------------------------------
(* Places in the replies                                                   *)

\* The number of places up to one of them.
LEMMA RankIn ==
    ASSUME NEW P, IsFiniteSet(P), NEW p \in P
    PROVE  Rank(P, p) \in 1..Cardinality(P)
<1> DEFINE Q == {q \in P : q = p \/ Before(q, p)}
<1>1. Q \subseteq P /\ p \in Q
  OBVIOUS
<1> HIDE DEF Q
<1>2. IsFiniteSet(Q) /\ Cardinality(Q) <= Cardinality(P)
  BY <1>1, FS_Subset
<1>3. Cardinality(Q) \in Nat /\ Cardinality(P) \in Nat /\ Cardinality(Q) # 0
  BY <1>1, <1>2, FS_CardinalityType, FS_EmptySet
<1>4. Rank(P, p) = Cardinality(Q)
  BY DEF Rank, Q
<1>5. QED
  BY <1>2, <1>3, <1>4

\* A place behind all others comes last and leaves the others where they were.
LEMMA AddLast ==
    ASSUME NEW P, IsFiniteSet(P), NEW x, x \notin P,
           \A q \in P : Before(q, x) /\ ~Before(x, q)
    PROVE  /\ IsFiniteSet(P \cup {x})
           /\ Cardinality(P) \in Nat
           /\ Cardinality(P \cup {x}) = Cardinality(P) + 1
           /\ Rank(P \cup {x}, x) = Cardinality(P) + 1
           /\ \A p \in P : Rank(P \cup {x}, p) = Rank(P, p)
<1>1. /\ IsFiniteSet(P \cup {x}) /\ Cardinality(P) \in Nat
      /\ Cardinality(P \cup {x}) = Cardinality(P) + 1
  BY FS_AddElement, FS_CardinalityType
<1>2. {q \in P \cup {x} : q = x \/ Before(q, x)} = P \cup {x}
  OBVIOUS
<1>3. \A p \in P : {q \in P \cup {x} : q = p \/ Before(q, p)}
                      = {q \in P : q = p \/ Before(q, p)}
  OBVIOUS
<1>4. QED
  BY <1>1, <1>2, <1>3 DEF Rank

\* A scan with room for it is stored behind the others.
LEMMA HoldsMore ==
    ASSUME NEW scans \in Seq(ScanRecord), NEW P, NEW rep, IsFiniteSet(P),
           Holds(scans, P, rep), NEW x, x \notin P,
           \A q \in P : Before(q, x) /\ ~Before(x, q),
           Len(scans) < mMax, NEW e \in ScanRecord,
           e = Entry(rep[x[1]].attrs, x[2])
    PROVE  Holds(Append(scans, e), P \cup {x}, rep)
<1> DEFINE c == Cardinality(P)
           R == P \cup {x}
           z == Append(scans, e)
<1>1. /\ c \in Nat /\ Cardinality(R) = c + 1 /\ Rank(R, x) = c + 1
      /\ \A p \in P : Rank(R, p) = Rank(P, p)
  BY AddLast
<1>2. \A p \in P : Rank(P, p) \in 1..c
  BY RankIn
<1> HIDE DEF c
<1>3. Len(scans) = Min({mMax, c}) /\ Len(scans) \in Nat
  BY DEF Holds, c
<1>4. Len(scans) = c /\ c + 1 <= mMax
  BY <1>1, <1>3, MinOfFew
<1>5. /\ Len(z) = c + 1 /\ z[c + 1] = e
      /\ \A i \in 1..c : z[i] = scans[i]
  BY <1>4
<1>6. Min({mMax, c + 1}) = c + 1
  BY <1>1, <1>4, MinOfFew
<1>7. \A p \in P : Rank(P, p) <= mMax =>
         scans[Rank(P, p)] = Entry(rep[p[1]].attrs, p[2])
  BY DEF Holds
<1> HIDE DEF z
<1>8. \A p \in R : Rank(R, p) <= mMax =>
         z[Rank(R, p)] = Entry(rep[p[1]].attrs, p[2])
  <2>1. \A p \in P : Rank(R, p) <= mMax =>
           z[Rank(R, p)] = Entry(rep[p[1]].attrs, p[2])
    BY <1>1, <1>2, <1>5, <1>7
  <2>2. z[Rank(R, x)] = Entry(rep[x[1]].attrs, x[2])
    BY <1>1, <1>5
  <2>3. QED
    BY <2>1, <2>2
<1> HIDE DEF R
<1>9. Holds(z, R, rep)
  BY <1>1, <1>5, <1>6, <1>8 DEF Holds
<1>10. QED
  BY <1>9 DEF z, R

\* With the array full, another scan changes nothing.
LEMMA HoldsFull ==
    ASSUME NEW scans \in Seq(ScanRecord), NEW P, NEW rep, IsFiniteSet(P),
           Holds(scans, P, rep), NEW x, x \notin P,
           \A q \in P : Before(q, x) /\ ~Before(x, q),
           Len(scans) >= mMax
    PROVE  Holds(scans, P \cup {x}, rep)
<1> DEFINE c == Cardinality(P)
           R == P \cup {x}
<1>1. /\ c \in Nat /\ Cardinality(R) = c + 1 /\ Rank(R, x) = c + 1
      /\ \A p \in P : Rank(R, p) = Rank(P, p)
  BY AddLast
<1> HIDE DEF c
<1>2. Len(scans) = Min({mMax, c}) /\ Len(scans) \in Nat
  BY DEF Holds, c
<1>3. Len(scans) = mMax /\ mMax <= c
  BY <1>1, <1>2, MinOfFew
<1>4. Min({mMax, c + 1}) = mMax
  BY <1>1, <1>3, MinOfFew
<1>5. ~(Rank(R, x) <= mMax)
  BY <1>1, <1>3
<1>6. \A p \in P : Rank(P, p) <= mMax =>
         scans[Rank(P, p)] = Entry(rep[p[1]].attrs, p[2])
  BY DEF Holds
<1>7. \A p \in R : Rank(R, p) <= mMax =>
         scans[Rank(R, p)] = Entry(rep[p[1]].attrs, p[2])
  BY <1>1, <1>5, <1>6
<1> HIDE DEF R
<1>8. Holds(scans, R, rep)
  BY <1>1, <1>3, <1>4, <1>7 DEF Holds
<1>9. QED
  BY <1>8 DEF R

\* The places of scans are pairs of an element and an attribute of it.
LEMMA PositionsAre ==
    ASSUME NEW rep \in Seq(Element)
    PROVE  /\ \A p \in Positions(rep) :
                 /\ p = <<p[1], p[2]>>
                 /\ p[1] \in 1..Len(rep) /\ p[2] \in EntriesOf(rep[p[1]])
                 /\ p[2] \in Nat \ {0}
           /\ \A i \in 1..Len(rep) : \A k :
                 <<i, k>> \in Positions(rep) <=> k \in EntriesOf(rep[i])
<1>1. DOMAIN rep = 1..Len(rep)
  OBVIOUS
<1>2. \A i \in 1..Len(rep) : \A k \in EntriesOf(rep[i]) : k \in Nat \ {0}
  <2> SUFFICES ASSUME NEW i \in 1..Len(rep), NEW k \in EntriesOf(rep[i])
               PROVE  k \in Nat \ {0}
    OBVIOUS
  <2>1. rep[i] \in Element
    OBVIOUS
  <2>2. rep[i].type = "scan" /\ k \in DOMAIN rep[i].attrs
    BY DEF EntriesOf
  <2>3. rep[i].attrs \in Seq(Attribute)
    BY <2>1, <2>2, ElementIs
  <2>4. DOMAIN rep[i].attrs = 1..Len(rep[i].attrs) /\ Len(rep[i].attrs) \in Nat
    BY <2>3
  <2>5. QED
    BY <2>2, <2>4
<1>3. ASSUME NEW p \in Positions(rep)
      PROVE  \E i \in 1..Len(rep) : \E k \in EntriesOf(rep[i]) : p = <<i, k>>
  BY <1>1, <1>3 DEF Positions
<1>4. ASSUME NEW p \in Positions(rep)
      PROVE  /\ p = <<p[1], p[2]>>
             /\ p[1] \in 1..Len(rep) /\ p[2] \in EntriesOf(rep[p[1]])
             /\ p[2] \in Nat \ {0}
  <2>1. PICK i \in 1..Len(rep) : \E k \in EntriesOf(rep[i]) : p = <<i, k>>
    BY <1>3
  <2>2. PICK k \in EntriesOf(rep[i]) : p = <<i, k>>
    BY <2>1
  <2>3. p[1] = i /\ p[2] = k
    BY <2>2
  <2>4. QED
    BY <1>2, <2>2, <2>3
<1>5. ASSUME NEW i \in 1..Len(rep), NEW k
      PROVE  <<i, k>> \in Positions(rep) <=> k \in EntriesOf(rep[i])
  <2>1. ASSUME <<i, k>> \in Positions(rep) PROVE k \in EntriesOf(rep[i])
    <3>1. PICK p : p = <<i, k>>
      OBVIOUS
    <3>2. p[1] = i /\ p[2] = k /\ p \in Positions(rep)
      BY <2>1, <3>1
    <3>3. QED
      BY <1>4, <3>2
  <2>2. ASSUME k \in EntriesOf(rep[i]) PROVE <<i, k>> \in Positions(rep)
    BY <1>1, <2>2 DEF Positions
  <2>3. QED
    BY <2>1, <2>2
<1>6. QED
  BY <1>4, <1>5

\* From an attribute to the next.
LEMMA UptoStep ==
    ASSUME NEW rep \in Seq(Element), NEW i \in 1..Len(rep), NEW k \in Nat
    PROVE  LET P == Upto(Positions(rep), i, k)
               x == <<i, k + 1>>
           IN  /\ x \notin P
               /\ \A q \in P : Before(q, x) /\ ~Before(x, q)
               /\ x \in Positions(rep) =>
                     Upto(Positions(rep), i, k + 1) = P \cup {x}
               /\ x \notin Positions(rep) => Upto(Positions(rep), i, k + 1) = P
<1> DEFINE A == Positions(rep)
           P == Upto(A, i, k)
           x == <<i, k + 1>>
<1>1. x[1] = i /\ x[2] = k + 1 /\ i \in Nat
  OBVIOUS
<1>2. \A p \in A : p = <<p[1], p[2]>> /\ p[1] \in Nat /\ p[2] \in Nat
  BY PositionsAre
<1>3. \A p \in A : p[1] = i /\ p[2] = k + 1 <=> p = x
  BY <1>1, <1>2
<1> HIDE DEF A, x
<1>4. x \notin P
  BY <1>1 DEF Upto
<1>5. \A q \in P : Before(q, x) /\ ~Before(x, q)
  BY <1>1, <1>2 DEF Upto, Before
<1>6. \A p \in A : (p[1] < i \/ (p[1] = i /\ p[2] <= k + 1)) <=>
                   (p[1] < i \/ (p[1] = i /\ p[2] <= k)) \/ p = x
  BY <1>1, <1>2, <1>3
<1>7. x \in A => Upto(A, i, k + 1) = P \cup {x}
  BY <1>6 DEF Upto
<1>8. x \notin A => Upto(A, i, k + 1) = P
  BY <1>6 DEF Upto
<1>9. QED
  BY <1>4, <1>5, <1>7, <1>8 DEF A, x

\* From an element to the next.
LEMMA UptoNext ==
    ASSUME NEW rep \in Seq(Element), NEW i \in 1..Len(rep)
    PROVE  /\ rep[i].type = "complete" =>
                 Upto(Positions(rep), i + 1, 0) = Upto(Positions(rep), i, 0)
           /\ rep[i].type = "scan" =>
                 Upto(Positions(rep), i + 1, 0)
                    = Upto(Positions(rep), i, Len(rep[i].attrs))
<1> DEFINE A == Positions(rep)
<1>1. \A p \in A : /\ p[1] \in Nat /\ p[2] \in Nat \ {0}
                   /\ p[2] \in EntriesOf(rep[p[1]])
  BY PositionsAre
<1>2. i \in Nat
  OBVIOUS
<1> HIDE DEF A
<1>3. ASSUME rep[i].type = "complete" PROVE Upto(A, i + 1, 0) = Upto(A, i, 0)
  <2>1. EntriesOf(rep[i]) = {}
    BY <1>3 DEF EntriesOf
  <2>2. \A p \in A : p[1] # i
    BY <1>1, <2>1
  <2>3. \A p \in A : (p[1] < i + 1 \/ (p[1] = i + 1 /\ p[2] <= 0)) <=>
                     (p[1] < i \/ (p[1] = i /\ p[2] <= 0))
    BY <1>1, <1>2, <2>2
  <2>4. QED
    BY <2>3 DEF Upto
<1>4. ASSUME rep[i].type = "scan"
      PROVE  Upto(A, i + 1, 0) = Upto(A, i, Len(rep[i].attrs))
  <2>1. rep[i] \in Element
    OBVIOUS
  <2>2. rep[i].attrs \in Seq(Attribute)
    BY <1>4, <2>1, ElementIs
  <2> DEFINE n == Len(rep[i].attrs)
  <2>3. n \in Nat /\ DOMAIN rep[i].attrs = 1..n
    BY <2>2
  <2>4. EntriesOf(rep[i]) \subseteq 1..n
    BY <1>4, <2>3 DEF EntriesOf
  <2> HIDE DEF n
  <2>5. \A p \in A : p[1] = i => p[2] <= n
    BY <1>1, <2>3, <2>4
  <2>6. \A p \in A : (p[1] < i + 1 \/ (p[1] = i + 1 /\ p[2] <= 0)) <=>
                     (p[1] < i \/ (p[1] = i /\ p[2] <= n))
    BY <1>1, <1>2, <2>3, <2>5
  <2>7. Upto(A, i + 1, 0) = Upto(A, i, n)
    BY <2>6 DEF Upto
  <2>8. QED
    BY <2>7 DEF n
<1>5. QED
  BY <1>3, <1>4 DEF A

-----------------------------------------------------------------------------
(* What is stored                                                          *)

\* After attribute k of element i: the scans so far are stored, and either the
\* array is full or the locals are what the reference reads.
Along(s, rep, i, k) ==
    /\ IsFiniteSet(Upto(Positions(rep), i, k))
    /\ Holds(s.scans, Upto(Positions(rep), i, k), rep)
    /\ s.stop => Len(s.scans) >= mMax
    /\ ~s.stop => /\ s.id = IdBefore(rep[i].attrs, k + 1)
                  /\ s.num = Announced(rep[i].attrs, k + 1)

\* One attribute of a scan.
LEMMA AlongStep ==
    ASSUME NEW rep \in Seq(Element), NEW i \in 1..Len(rep),
           rep[i].type = "scan", NEW k \in Nat, k + 1 \in 1..Len(rep[i].attrs),
           NEW s \in Locals, Along(s, rep, i, k)
    PROVE  Along(TakeAttribute(s, rep[i].attrs[k + 1]), rep, i, k + 1)
<1> DEFINE q == rep[i].attrs
           a == q[k + 1]
           P == Upto(Positions(rep), i, k)
           N == Upto(Positions(rep), i, k + 1)
           x == <<i, k + 1>>
           z == TakeAttribute(s, a)
           e == Entry(q, k + 1)
           n == Announced(q, k + 1)
           m == Min({n, a.val, MaxAp})
<1>1. q \in Seq(Attribute) /\ DOMAIN q = 1..Len(q)
  <2>1. rep[i] \in Element
    OBVIOUS
  <2>2. q \in Seq(Attribute)
    BY <2>1, ElementIs
  <2>3. QED
    BY <2>2
<1>2. a \in Attribute /\ a.val \in Nat /\ a.type \in {"id", "num", "results"}
  <2>1. a \in Attribute
    BY <1>1
  <2>2. QED
    BY <2>1 DEF Attribute
<1>3. /\ s.id \in Nat /\ s.num \in Nat /\ s.scans \in Seq(ScanRecord)
      /\ s.stop \in BOOLEAN
  BY DEF Locals
<1>4. /\ IdBefore(q, k + 1) \in Nat
      /\ IdBefore(q, (k + 1) + 1) =
            IF a.type = "id" THEN a.val ELSE IdBefore(q, k + 1)
  BY <1>1, IdStep
<1>5. /\ n \in Nat
      /\ Announced(q, (k + 1) + 1) =
            CASE a.type = "num" -> a.val
              [] a.type = "id" -> n
              [] a.type = "results" -> IF n = 0 THEN 0 ELSE m
  BY <1>1, AnnouncedStep
<1>6. /\ x \notin P /\ \A p \in P : Before(p, x) /\ ~Before(x, p)
      /\ x \in Positions(rep) => N = P \cup {x}
      /\ x \notin Positions(rep) => N = P
  BY UptoStep
<1>7. x \in Positions(rep) <=> a.type = "results" /\ n # 0
  <2>1. x \in Positions(rep) <=> k + 1 \in EntriesOf(rep[i])
    BY PositionsAre
  <2>2. k + 1 \in EntriesOf(rep[i]) <=> a.type = "results" /\ n # 0
    BY <1>1 DEF EntriesOf
  <2>3. QED
    BY <2>1, <2>2
<1>8. /\ e = [id |-> IdBefore(q, k + 1), num_results |-> m]
      /\ e = Entry(rep[x[1]].attrs, x[2]) /\ e \in ScanRecord
  <2>1. x[1] = i /\ x[2] = k + 1
    OBVIOUS
  <2>2. e = [id |-> IdBefore(q, k + 1), num_results |-> m]
    BY DEF Entry, IdBefore
  <2>3. m \in Nat
    BY <1>2, <1>5, MinOfFew
  <2>4. [id |-> IdBefore(q, k + 1), num_results |-> m] \in ScanRecord
    BY <1>4, <2>3 DEF ScanRecord
  <2>5. QED
    BY <2>1, <2>2, <2>4
<1>9. /\ IsFiniteSet(P) /\ Holds(s.scans, P, rep)
      /\ s.stop => Len(s.scans) >= mMax
      /\ ~s.stop => s.id = IdBefore(q, k + 1) /\ s.num = n
  BY DEF Along
<1>10. z \in Locals
  BY <1>2, AttributeTypes
<1>11. IsFiniteSet(N)
  <2>1. IsFiniteSet(P \cup {x})
    BY <1>9, FS_AddElement
  <2>2. QED
    BY <1>6, <1>9, <2>1
<1>12. SUFFICES /\ Holds(z.scans, N, rep)
                /\ z.stop => Len(z.scans) >= mMax
                /\ ~z.stop => /\ z.id = IdBefore(q, (k + 1) + 1)
                              /\ z.num = Announced(q, (k + 1) + 1)
  BY <1>11 DEF Along
<1> HIDE DEF q, a, P, N, x, e, n, m
<1>13. ASSUME Len(s.scans) >= mMax PROVE Holds(s.scans, N, rep)
  <2>1. Holds(s.scans, P \cup {x}, rep)
    BY <1>3, <1>6, <1>9, <1>13, HoldsFull
  <2>2. QED
    BY <1>6, <1>9, <2>1
<1>14. CASE s.stop
  <2>1. z = s
    BY <1>2, <1>14, AttributeIs
  <2>2. QED
    BY <1>9, <1>13, <1>14, <2>1
<1>15. CASE ~s.stop /\ a.type = "id"
  <2>1. z = [s EXCEPT !.id = a.val]
    BY <1>2, <1>15, AttributeIs
  <2> HIDE DEF z
  <2>2. z.id = a.val /\ z.num = s.num /\ z.scans = s.scans /\ z.stop = s.stop
    BY <2>1 DEF Locals
  <2>3. N = P
    BY <1>6, <1>7, <1>15
  <2>4. QED
    BY <1>4, <1>5, <1>9, <1>15, <2>2, <2>3
<1>16. CASE ~s.stop /\ a.type = "num"
  <2>1. z = [s EXCEPT !.num = a.val]
    BY <1>2, <1>16, AttributeIs
  <2> HIDE DEF z
  <2>2. z.id = s.id /\ z.num = a.val /\ z.scans = s.scans /\ z.stop = s.stop
    BY <2>1 DEF Locals
  <2>3. N = P
    BY <1>6, <1>7, <1>16
  <2>4. QED
    BY <1>4, <1>5, <1>9, <1>16, <2>2, <2>3
<1>17. CASE ~s.stop /\ a.type = "results" /\ s.num = 0
  <2>1. z = s
    BY <1>2, <1>17, AttributeIs
  <2>2. n = 0 /\ N = P
    BY <1>6, <1>7, <1>9, <1>17
  <2>3. QED
    BY <1>4, <1>5, <1>9, <1>17, <2>1, <2>2
<1>18. CASE ~s.stop /\ a.type = "results" /\ s.num # 0 /\ Len(s.scans) >= mMax
  <2>1. z = [s EXCEPT !.stop = TRUE]
    BY <1>2, <1>18, AttributeIs
  <2> HIDE DEF z
  <2>2. z.scans = s.scans /\ z.stop
    BY <2>1 DEF Locals
  <2>3. QED
    BY <1>13, <1>18, <2>2
<1>19. CASE /\ ~s.stop /\ a.type = "results"
            /\ s.num # 0 /\ ~(Len(s.scans) >= mMax)
  <2>1. s.id = IdBefore(q, k + 1) /\ s.num = n
    BY <1>9, <1>19
  <2>2. [id |-> s.id, num_results |-> Min({s.num, a.val, MaxAp})] = e
    BY <1>8, <2>1 DEF m
  <2>3. z = [s EXCEPT !.num = Min({s.num, a.val, MaxAp}),
                      !.scans = Append(@,
                         [id |-> s.id,
                          num_results |-> Min({s.num, a.val, MaxAp})])]
    BY <1>2, <1>19, AttributeIs
  <2>4. z = [s EXCEPT !.num = m, !.scans = Append(s.scans, e)]
    BY <2>1, <2>2, <2>3 DEF m
  <2> HIDE DEF z
  <2>5. /\ z.id = s.id /\ z.num = m /\ z.scans = Append(s.scans, e)
        /\ z.stop = s.stop
    BY <2>4 DEF Locals
  <2>6. n # 0 /\ N = P \cup {x}
    BY <1>6, <1>7, <1>19, <2>1
  <2>7. Len(s.scans) < mMax
    BY <1>3, <1>19
  <2>8. Holds(Append(s.scans, e), P \cup {x}, rep)
    BY <1>3, <1>6, <1>8, <1>9, <2>7, HoldsMore
  <2>9. QED
    BY <1>4, <1>5, <1>19, <2>1, <2>5, <2>6, <2>8
<1>20. QED
  BY <1>2, <1>3, <1>14, <1>15, <1>16, <1>17, <1>18, <1>19

\* A scan of a reply.
LEMMA ScanKeeps ==
    ASSUME NEW rep \in Seq(Element), NEW i \in 1..Len(rep),
           rep[i].type = "scan", NEW scans \in Seq(ScanRecord),
           IsFiniteSet(Upto(Positions(rep), i, 0)),
           Holds(scans, Upto(Positions(rep), i, 0), rep)
    PROVE  /\ IsFiniteSet(Upto(Positions(rep), i + 1, 0))
           /\ Holds(TakeScan(scans, rep[i].attrs),
                    Upto(Positions(rep), i + 1, 0), rep)
<1> DEFINE q == rep[i].attrs
           F == Fresh(scans)
<1>1. q \in Seq(Attribute) /\ Len(q) \in Nat
  <2>1. rep[i] \in Element
    OBVIOUS
  <2>2. q \in Seq(Attribute)
    BY <2>1, ElementIs
  <2>3. QED
    BY <2>2
<1>2. F \in Locals /\ F.scans = scans /\ F.id = 0 /\ F.num = 0 /\ ~F.stop
  BY DEF Locals, Fresh
<1> HIDE DEF F
<1>3. PICK h : /\ h[0] = F
               /\ \A k \in 1..Len(q) : h[k] = TakeAttribute(h[k - 1], q[k])
               /\ FoldLeft(TakeAttribute, F, q) = h[Len(q)]
  BY <1>1, <1>2, ScanWalk, ZenonT(60)
<1>4. \A k \in 0..Len(q) : h[k] \in Locals
  BY <1>1, <1>3, ScanWalkTypes DEF F
<1> DEFINE S == {k \in 0..Len(q) : Along(h[k], rep, i, k)}
<1>5. 0 \in S
  <2>1. Along(F, rep, i, 0)
    BY <1>1, <1>2, IdStep, AnnouncedStep DEF Along
  <2>2. QED
    BY <1>1, <1>3, <2>1
<1>6. \A k \in 1..Len(q) : k - 1 \in S => k \in S
  <2> SUFFICES ASSUME NEW k \in 1..Len(q), k - 1 \in S PROVE k \in S
    OBVIOUS
  <2>1. /\ k - 1 \in Nat /\ (k - 1) + 1 = k /\ k \in 0..Len(q)
        /\ k - 1 \in 0..Len(q)
    BY <1>1
  <2>2. h[k - 1] \in Locals /\ Along(h[k - 1], rep, i, k - 1)
    BY <1>4, <2>1
  <2>3. Along(TakeAttribute(h[k - 1], q[(k - 1) + 1]), rep, i, (k - 1) + 1)
    BY <2>1, <2>2, AlongStep
  <2>4. Along(h[k], rep, i, k)
    BY <1>3, <2>1, <2>3
  <2>5. QED
    BY <2>1, <2>4
<1>7. Len(q) \in S
  <2> HIDE DEF S, q
  <2>1. \A k \in 0..Len(q) : k \in S
    BY <1>1, <1>5, <1>6, CountUp
  <2>2. QED
    BY <1>1, <2>1
<1>8. TakeScan(scans, q) = h[Len(q)].scans
  BY <1>3 DEF TakeScan, F, Fresh
<1>9. Upto(Positions(rep), i + 1, 0) = Upto(Positions(rep), i, Len(q))
  BY UptoNext
<1>10. QED
  BY <1>7, <1>8, <1>9 DEF Along

\* The places of what was received before a reply, among all places.
LEMMA EarlierPlaces ==
    ASSUME NEW old \in Seq(Element), NEW r \in Seq(Element), NEW scans
    PROVE  /\ Upto(Positions(old \o r), Len(old) + 1, 0) = Positions(old)
           /\ Upto(Positions(old \o r), Len(old \o r) + 1, 0)
                 = Positions(old \o r)
           /\ Holds(scans, Positions(old), old) =>
                 Holds(scans, Positions(old), old \o r)
<1> DEFINE rep == old \o r
           A == Positions(old)
           B == Positions(rep)
<1>1. /\ rep \in Seq(Element) /\ Len(old) \in Nat /\ Len(rep) \in Nat
      /\ Len(rep) = Len(old) + Len(r) /\ Len(r) \in Nat
      /\ \A j \in 1..Len(old) : rep[j] = old[j]
  OBVIOUS
<1> HIDE DEF rep
<1>2. /\ \A p \in A : p = <<p[1], p[2]>> /\ p[1] \in 1..Len(old)
                      /\ p[2] \in EntriesOf(old[p[1]]) /\ p[2] \in Nat \ {0}
      /\ \A j \in 1..Len(old) : \A k :
            <<j, k>> \in A <=> k \in EntriesOf(old[j])
  BY PositionsAre
<1>3. /\ \A p \in B : p = <<p[1], p[2]>> /\ p[1] \in 1..Len(rep)
                      /\ p[2] \in EntriesOf(rep[p[1]]) /\ p[2] \in Nat \ {0}
      /\ \A j \in 1..Len(rep) : \A k :
            <<j, k>> \in B <=> k \in EntriesOf(rep[j])
  BY <1>1, PositionsAre
<1> HIDE DEF A, B
<1>4. \A p \in A : p \in B /\ p[1] < Len(old) + 1
  <2> SUFFICES ASSUME NEW p \in A PROVE p \in B /\ p[1] < Len(old) + 1
    OBVIOUS
  <2>1. p[1] \in 1..Len(old) /\ p[1] \in 1..Len(rep) /\ p[1] < Len(old) + 1
    BY <1>1, <1>2
  <2>2. p[2] \in EntriesOf(rep[p[1]])
    BY <1>1, <1>2, <2>1
  <2>3. <<p[1], p[2]>> \in B
    BY <1>3, <2>1, <2>2
  <2>4. QED
    BY <1>2, <2>1, <2>3
<1>5. \A p \in B : p[1] < Len(old) + 1 => p \in A
  <2> SUFFICES ASSUME NEW p \in B, p[1] < Len(old) + 1 PROVE p \in A
    OBVIOUS
  <2>1. p[1] \in 1..Len(old)
    BY <1>1, <1>3
  <2>2. p[2] \in EntriesOf(old[p[1]])
    BY <1>1, <1>3, <2>1
  <2>3. <<p[1], p[2]>> \in A
    BY <1>2, <2>1, <2>2
  <2>4. QED
    BY <1>3, <2>3
<1>6. \A p \in B : ~(p[2] <= 0)
  BY <1>3
<1>7. Upto(B, Len(old) + 1, 0) = A
  BY <1>4, <1>5, <1>6 DEF Upto
<1>8. \A p \in B : p[1] < Len(rep) + 1
  BY <1>1, <1>3
<1>9. Upto(B, Len(rep) + 1, 0) = B
  BY <1>8 DEF Upto
<1>10. ASSUME Holds(scans, A, old) PROVE Holds(scans, A, rep)
  <2>1. \A p \in A : rep[p[1]] = old[p[1]]
    BY <1>1, <1>2
  <2>2. QED
    BY <1>10, <2>1 DEF Holds
<1>11. QED
  BY <1>7, <1>9, <1>10 DEF A, B, rep

\* handleResponse stores what the reply holds behind what is there.
LEMMA ReplyKeeps ==
    ASSUME NEW r \in Seq(Element), replied \in Seq(Element),
           mScans \in Seq(ScanRecord), mCompleted \in Nat,
           IsFiniteSet(Positions(replied)), StoredExactly
    PROVE  /\ HandleResponse(r).scans \in Seq(ScanRecord)
           /\ HandleResponse(r).completed \in Nat
           /\ IsFiniteSet(Positions(replied \o r))
           /\ Holds(HandleResponse(r).scans,
                    Positions(replied \o r), replied \o r)
<1> DEFINE rep == replied \o r
           n == Len(replied)
           P(k) == Upto(Positions(rep), n + k + 1, 0)
           b == [scans |-> mScans, completed |-> mCompleted]
<1>1. /\ rep \in Seq(Element) /\ n \in Nat /\ Len(r) \in Nat
      /\ Len(rep) = n + Len(r)
      /\ \A k \in 1..Len(r) : rep[n + k] = r[k]
  OBVIOUS
<1>2. /\ Upto(Positions(rep), n + 1, 0) = Positions(replied)
      /\ Upto(Positions(rep), Len(rep) + 1, 0) = Positions(rep)
      /\ Holds(mScans, Positions(replied), rep)
  BY EarlierPlaces DEF StoredExactly
<1> HIDE DEF rep, n
<1>3. b \in Members /\ b.scans = mScans
  BY DEF Members
<1> HIDE DEF b
<1>4. PICK h : /\ h[0] = b
               /\ \A k \in 1..Len(r) : h[k] = TakeElement(h[k - 1], r[k])
               /\ FoldLeft(TakeElement, b, r) = h[Len(r)]
  BY <1>3, ReplyWalk
<1> DEFINE Ok(k) == /\ h[k] \in Members /\ IsFiniteSet(P(k))
                    /\ Holds(h[k].scans, P(k), rep)
           S == {k \in 0..Len(r) : Ok(k)}
<1>5. 0 \in S
  <2>1. n + 0 + 1 = n + 1
    BY <1>1
  <2>2. P(0) = Positions(replied)
    BY <1>2, <2>1
  <2> HIDE DEF P
  <2>3. Ok(0)
    BY <1>2, <1>3, <1>4, <2>2
  <2>4. QED
    BY <1>1, <2>3
<1>6. \A k \in 1..Len(r) : k - 1 \in S => k \in S
  <2> SUFFICES ASSUME NEW k \in 1..Len(r), k - 1 \in S PROVE k \in S
    OBVIOUS
  <2> DEFINE i == n + k
             s == h[k - 1]
  <2>1. /\ i \in 1..Len(rep) /\ n + (k - 1) + 1 = i /\ n + k + 1 = i + 1
        /\ k \in 0..Len(r) /\ rep[i] = r[k] /\ r[k] \in Element
    BY <1>1
  <2>2. /\ s \in Members /\ IsFiniteSet(Upto(Positions(rep), i, 0))
        /\ Holds(s.scans, Upto(Positions(rep), i, 0), rep)
    BY <2>1
  <2>3. h[k] = TakeElement(s, r[k])
    BY <1>4
  <2> HIDE DEF i, s
  <2>4. /\ h[k] \in Members
        /\ r[k].type = "complete" => h[k].scans = s.scans
        /\ r[k].type = "scan" => h[k].scans = TakeScan(s.scans, r[k].attrs)
    BY <2>1, <2>2, <2>3, ElementTypes, SMTT(40)
  <2>5. s.scans \in Seq(ScanRecord)
    BY <2>2 DEF Members
  <2>6. /\ IsFiniteSet(Upto(Positions(rep), i + 1, 0))
        /\ Holds(h[k].scans, Upto(Positions(rep), i + 1, 0), rep)
    <3>1. CASE r[k].type = "complete"
      <4>1. Upto(Positions(rep), i + 1, 0) = Upto(Positions(rep), i, 0)
        BY <1>1, <2>1, <3>1, UptoNext
      <4>2. QED
        BY <2>2, <2>4, <3>1, <4>1
    <3>2. CASE r[k].type = "scan"
      <4>1. /\ IsFiniteSet(Upto(Positions(rep), i + 1, 0))
            /\ Holds(TakeScan(s.scans, rep[i].attrs),
                     Upto(Positions(rep), i + 1, 0), rep)
        BY <1>1, <2>1, <2>2, <2>5, <3>2, ScanKeeps
      <4>2. QED
        BY <2>1, <2>4, <3>2, <4>1
    <3>3. QED
      BY <2>1, <3>1, <3>2, ElementIs
  <2>7. Ok(k)
    BY <2>1, <2>4, <2>6
  <2>8. QED
    BY <2>1, <2>7
<1> HIDE DEF Ok
<1>7. Len(r) \in S
  <2> HIDE DEF S
  <2>1. \A k \in 0..Len(r) : k \in S
    BY <1>1, <1>5, <1>6, CountUp
  <2>2. QED
    BY <1>1, <2>1
<1>8. /\ h[Len(r)] \in Members /\ IsFiniteSet(P(Len(r)))
      /\ Holds(h[Len(r)].scans, P(Len(r)), rep)
  BY <1>7 DEF Ok
<1>9. P(Len(r)) = Positions(rep)
  <2>1. n + Len(r) + 1 = Len(rep) + 1
    BY <1>1
  <2>2. QED
    BY <1>2, <2>1
<1>10. HandleResponse(r) = h[Len(r)]
  BY <1>4 DEF HandleResponse, b
<1>11. QED
  BY <1>8, <1>9, <1>10 DEF Members, rep

\* A reply that makes the driver's flag true has said so last.
LEMMA ReplySays ==
    ASSUME NEW r \in Seq(Element), replied \in Seq(Element),
           mScans \in Seq(ScanRecord), mCompleted = 0,
           HandleResponse(r).completed # 0
    PROVE  SaidComplete(replied \o r)
<1> DEFINE b == [scans |-> mScans, completed |-> mCompleted]
           rep == replied \o r
           n == Len(replied)
<1>1. b \in Members /\ b.completed = 0
  BY DEF Members
<1>2. PICK h : /\ h[0] = b
               /\ \A k \in 1..Len(r) : h[k] = TakeElement(h[k - 1], r[k])
               /\ FoldLeft(TakeElement, b, r) = h[Len(r)]
  BY <1>1, ReplyWalk
<1>3. HandleResponse(r) = h[Len(r)]
  BY <1>2 DEF HandleResponse
<1> HIDE DEF b
<1> DEFINE Ok(k) ==
               /\ h[k] \in Members
               /\ h[k].completed # 0 =>
                     \E i \in 1..k : /\ r[i].type = "complete" /\ r[i].val # 0
                                     /\ \A j \in (i + 1)..k :
                                           r[j].type # "complete"
           S == {k \in 0..Len(r) : Ok(k)}
<1>4. Len(r) \in Nat /\ 0 \in S
  BY <1>1, <1>2
<1>5. \A k \in 1..Len(r) : k - 1 \in S => k \in S
  <2> SUFFICES ASSUME NEW k \in 1..Len(r), k - 1 \in S PROVE Ok(k)
    BY <1>4
  <2> DEFINE s == h[k - 1]
  <2>1. /\ s \in Members /\ r[k] \in Element
        /\ k \in Nat /\ k - 1 \in Nat
        /\ s.completed # 0 =>
              \E i \in 1..(k - 1) :
                  /\ r[i].type = "complete" /\ r[i].val # 0
                  /\ \A j \in (i + 1)..(k - 1) : r[j].type # "complete"
    BY <1>4
  <2>2. h[k] = TakeElement(s, r[k])
    BY <1>2
  <2> HIDE DEF s
  <2>3. h[k] \in Members
    BY <2>1, <2>2, ElementTypes
  <2>4. CASE r[k].type = "complete"
    <3>1. h[k].completed = r[k].val
      BY <2>1, <2>2, <2>4 DEF TakeElement, Members
    <3>2. k \in 1..k /\ (k + 1)..k = {}
      BY <2>1
    <3>3. QED
      BY <2>3, <2>4, <3>1, <3>2
  <2>5. CASE r[k].type = "scan"
    <3>1. h[k].completed = s.completed
      <4> DEFINE z == TakeScan(s.scans, r[k].attrs)
      <4>1. TakeElement(s, r[k]) = [s EXCEPT !.scans = z]
        BY <2>5 DEF TakeElement
      <4> HIDE DEF z
      <4>2. [s EXCEPT !.scans = z].completed = s.completed
        BY <2>1 DEF Members
      <4>3. QED
        BY <2>2, <4>1, <4>2
    <3>2. ASSUME h[k].completed # 0
          PROVE  \E i \in 1..k : /\ r[i].type = "complete" /\ r[i].val # 0
                                 /\ \A j \in (i + 1)..k :
                                       r[j].type # "complete"
      <4>1. PICK i \in 1..(k - 1) :
                     /\ r[i].type = "complete" /\ r[i].val # 0
                     /\ \A j \in (i + 1)..(k - 1) : r[j].type # "complete"
        BY <2>1, <3>1, <3>2
      <4>2. i \in 1..k /\ \A j \in (i + 1)..k : j = k \/ j \in (i + 1)..(k - 1)
        BY <2>1
      <4>3. \A j \in (i + 1)..k : r[j].type # "complete"
        BY <2>5, <4>1, <4>2
      <4>4. QED
        BY <4>1, <4>2, <4>3
    <3>3. QED
      BY <2>3, <3>2
  <2>6. QED
    BY <2>1, <2>4, <2>5, ElementIs
<1>6. Len(r) \in S
  <2> HIDE DEF S
  <2>1. \A k \in 0..Len(r) : k \in S
    BY <1>4, <1>5, CountUp
  <2>2. QED
    BY <1>4, <2>1
<1>7. PICK i \in 1..Len(r) : /\ r[i].type = "complete" /\ r[i].val # 0
                             /\ \A j \in (i + 1)..Len(r) : r[j].type # "complete"
  BY <1>3, <1>6
<1>8. /\ n \in Nat /\ Len(rep) = n + Len(r) /\ DOMAIN rep = 1..Len(rep)
      /\ \A k \in 1..Len(r) : rep[n + k] = r[k]
  BY <1>4
<1> HIDE DEF rep, n
<1>9. n + i \in DOMAIN rep /\ rep[n + i] = r[i]
  BY <1>4, <1>8
<1>10. ASSUME NEW j \in (n + i + 1)..Len(rep) PROVE rep[j].type # "complete"
  <2>1. j - n \in (i + 1)..Len(r) /\ j - n \in 1..Len(r) /\ n + (j - n) = j
    BY <1>4, <1>8
  <2>2. rep[j] = r[j - n]
    BY <1>8, <2>1
  <2>3. QED
    BY <1>7, <2>1, <2>2
<1>11. SaidComplete(rep)
  BY <1>7, <1>9, <1>10 DEF SaidComplete
<1>12. QED
  BY <1>11 DEF rep

\* A reply that stored nothing, although there was room, brought no scan.
LEMMA ReplyEmpty ==
    ASSUME NEW r \in Seq(Element), replied \in Seq(Element),
           mScans \in Seq(ScanRecord), mCompleted \in Nat,
           IsFiniteSet(Positions(replied)), StoredExactly,
           Len(mScans) < mMax,
           Len(HandleResponse(r).scans) = Len(mScans)
    PROVE  \A p \in Positions(replied \o r) : p[1] <= Len(replied)
<1> DEFINE P == Positions(replied)
           Q == Positions(replied \o r)
<1>1. /\ IsFiniteSet(Q)
      /\ Len(HandleResponse(r).scans) = Min({mMax, Cardinality(Q)})
  BY ReplyKeeps DEF Holds
<1>2. Len(mScans) = Min({mMax, Cardinality(P)})
  BY DEF StoredExactly, Holds
<1>3. Cardinality(P) \in Nat /\ Cardinality(Q) \in Nat
  BY <1>1, FS_CardinalityType
<1>4. Cardinality(P) = Cardinality(Q)
  <2> DEFINE c == Cardinality(P)
             d == Cardinality(Q)
  <2>1. /\ c \in Nat /\ d \in Nat /\ Min({mMax, c}) = Min({mMax, d})
        /\ Min({mMax, c}) < mMax
    BY <1>1, <1>2, <1>3
  <2> HIDE DEF c, d
  <2>2. /\ Min({mMax, c}) = IF mMax <= c THEN mMax ELSE c
        /\ Min({mMax, d}) = IF mMax <= d THEN mMax ELSE d
    BY <2>1, MinOfFew
  <2>3. c = d
    BY <2>1, <2>2
  <2>4. QED
    BY <2>3 DEF c, d
<1>5. Upto(Q, Len(replied) + 1, 0) = P
  BY EarlierPlaces
<1>6. P \subseteq Q
  BY <1>5 DEF Upto
<1> HIDE DEF P, Q
<1>7. P = Q
  BY <1>1, <1>4, <1>6, FS_Subset
<1>8. ASSUME NEW p \in P PROVE p[1] <= Len(replied)
  BY <1>8, PositionsAre DEF P
<1>9. QED
  BY <1>7, <1>8 DEF Q

-----------------------------------------------------------------------------
(* execute                                                                 *)

\* Why the requests have ended.
Ended == mCompleted # 0 \/ BroughtNothing

\* The inductive invariant: what is stored, with what the walks need, how far
\* the call is and why it has ended.
IInv ==
    /\ replied \in Seq(Element)
    /\ mScans \in Seq(ScanRecord)
    /\ mCompleted \in Nat
    /\ round \in 0..MaxRounds
    /\ IsFiniteSet(Positions(replied))
    /\ StoredExactly
    /\ mCompleted # 0 => SaidComplete(replied)
    /\ pc = "loop" => mCompleted = 0
    /\ pc = "report" => Ended
    /\ pc = "returned" =>
          /\ mNum = Len(mScans)
          /\ Ended \/ round = MaxRounds \/ Len(mScans) >= mMax

\* Nothing received, nothing stored.
LEMMA Initially == Init => IInv
<1> SUFFICES ASSUME Init PROVE IInv
  OBVIOUS
<1>1. /\ pc = "loop" /\ round = 0 /\ mScans = <<>> /\ mCompleted = 0
      /\ replied = <<>>
  BY DEF Init
<1>2. Positions(replied) = {}
  BY <1>1 DEF Positions
<1>3. IsFiniteSet({}) /\ Cardinality({}) = 0
  BY FS_EmptySet
<1>4. Min({mMax, 0}) = 0
  BY MinOfFew
<1>5. StoredExactly
  BY <1>1, <1>2, <1>3, <1>4 DEF StoredExactly, Holds
<1>6. /\ replied \in Seq(Element) /\ mScans \in Seq(ScanRecord)
      /\ mCompleted \in Nat /\ round \in 0..MaxRounds
  BY <1>1
<1>7. QED
  BY <1>1, <1>2, <1>3, <1>5, <1>6 DEF IInv

\* A request and its answer.
LEMMA RetrieveStep ==
    ASSUME IInv, NEW r \in Replies, Retrieve(r)
    PROVE  IInv'
<1>1. r \in Seq(Element)
  OBVIOUS
<1>2. /\ mScans' = HandleResponse(r).scans
      /\ mCompleted' = HandleResponse(r).completed
      /\ replied' = replied \o r /\ earlier' = Len(replied)
      /\ pc = "loop" /\ mCompleted = 0 /\ Len(mScans) < mMax
      /\ pc' \in {"report", "loop"} /\ (mCompleted' # 0 => pc' = "report")
      /\ pc' = "report" => Len(mScans') = Len(mScans) \/ mCompleted' # 0
      /\ round \in 0..MaxRounds /\ round < MaxRounds /\ round' = round + 1
  BY DEF Retrieve, IInv
<1>3. /\ mScans' \in Seq(ScanRecord) /\ mCompleted' \in Nat
      /\ IsFiniteSet(Positions(replied'))
      /\ Holds(mScans', Positions(replied'), replied')
  BY <1>1, <1>2, ReplyKeeps DEF IInv
<1>4. replied' \in Seq(Element) /\ round' \in 0..MaxRounds
  BY <1>1, <1>2 DEF IInv
<1>5. StoredExactly'
  BY <1>3 DEF StoredExactly, Holds, Rank, Before
<1>6. (mCompleted # 0 => SaidComplete(replied))'
  <2> SUFFICES ASSUME mCompleted' # 0 PROVE SaidComplete(replied \o r)
    BY <1>2 DEF SaidComplete
  <2> QED
    BY <1>1, <1>2, ReplySays DEF IInv
<1>7. (pc = "report" => Ended)'
  <2>1. CASE Len(mScans') = Len(mScans)
    <3>1. \A p \in Positions(replied \o r) : p[1] <= Len(replied)
      BY <1>1, <1>2, <2>1, ReplyEmpty DEF IInv
    <3>2. QED
      BY <1>2, <3>1 DEF Ended, BroughtNothing
  <2>2. CASE mCompleted' # 0
    BY <2>2 DEF Ended
  <2>3. QED
    BY <1>2, <2>1, <2>2
<1>8. IsFiniteSet(Positions(replied))'
  BY <1>3
<1>9. QED
  BY <1>2, <1>3, <1>4, <1>5, <1>6, <1>7, <1>8 DEF IInv

\* Every step of a call keeps the invariant.
LEMMA Inductive == IInv /\ [Next]_vars => IInv'
<1> SUFFICES ASSUME IInv, [Next]_vars PROVE IInv'
  OBVIOUS
<1>1. ASSUME NEW r \in Replies, Retrieve(r) PROVE IInv'
  BY <1>1, RetrieveStep
<1>2. ASSUME UNCHANGED <<replied, earlier, round, mScans, mCompleted>>
      PROVE  /\ replied' \in Seq(Element) /\ mScans' \in Seq(ScanRecord)
             /\ mCompleted' \in Nat /\ IsFiniteSet(Positions(replied))'
             /\ round' \in 0..MaxRounds
             /\ StoredExactly' /\ (Ended' <=> Ended)
             /\ (mCompleted # 0 => SaidComplete(replied))'
  BY <1>2 DEF IInv, StoredExactly, Ended, BroughtNothing
<1>3. CASE RetrieveFails
  BY <1>2, <1>3 DEF RetrieveFails, IInv
<1>4. CASE Report
  <2>1. /\ UNCHANGED <<replied, earlier, round, mScans, mCompleted>>
        /\ pc' = "returned" /\ mNum' = Len(mScans)
        /\ pc = "report" \/ ~(round < MaxRounds /\ Len(mScans) < mMax)
    BY <1>4 DEF Report
  <2>2. Len(mScans) \in Nat /\ round \in 0..MaxRounds
    BY DEF IInv
  <2>3. Ended \/ round = MaxRounds \/ Len(mScans) >= mMax
    BY <2>1, <2>2 DEF IInv
  <2>4. QED
    BY <1>2, <2>1, <2>3 DEF IInv
<1>5. CASE UNCHANGED vars
  BY <1>2, <1>5 DEF vars, IInv
<1>6. QED
  BY <1>1, <1>3, <1>4, <1>5 DEF Next

\* The invariant holds throughout every call of wifi_get_cached_gscan_results.
THEOREM ScanResultsInvariant == Spec => []IInv
  BY Initially, Inductive, PTL DEF Spec

\* The caller's array holds the first mMax scans of the replies, in order and
\* each as announced, whatever the replies are: nothing is written behind its
\* end, overwritten, doubled or left out.
THEOREM ArrayIsExact == Spec => []StoredExactly
<1>1. IInv => StoredExactly
  BY DEF IInv
<1>2. QED
  BY <1>1, ScanResultsInvariant, PTL

\* A caller who gets fewer scans than there is room for has all that the driver
\* sent, and the driver had no more, a request brought none or the requests
\* were used up: for arrays of any length and any replies.
THEOREM ShortIsAll == Spec => []ShortMeansAll
<1>1. IInv => ShortMeansAll
  <2> SUFFICES ASSUME IInv, pc = "returned", mNum < mMax
               PROVE  /\ mNum = Cardinality(Positions(replied))
                      /\ \/ SaidComplete(replied)
                         \/ BroughtNothing
                         \/ round = MaxRounds
    BY DEF ShortMeansAll
  <2>1. /\ mNum = Len(mScans) /\ Len(mScans) \in Nat
        /\ Ended \/ round = MaxRounds \/ Len(mScans) >= mMax
        /\ Len(mScans) = Min({mMax, Cardinality(Positions(replied))})
    BY DEF IInv, StoredExactly, Holds
  <2>2. Cardinality(Positions(replied)) \in Nat
    BY FS_CardinalityType DEF IInv
  <2>3. mNum = Cardinality(Positions(replied))
    BY <2>1, <2>2, MinOfFew
  <2>4. QED
    BY <2>1, <2>3 DEF IInv, Ended
<1>2. QED
  BY <1>1, ScanResultsInvariant, PTL
=============================================================================
