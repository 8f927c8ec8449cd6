---------------------------- MODULE ScanResults -----------------------------
(***************************************************************************)
(* GetScanResultsCommand (wlan/hal/gscan.cpp): the cached scans are fetched *)
(* from the driver in several requests and stored, one after the other, in *)
(* the caller's array.                                                     *)
(*                                                                         *)
(* A reply is a sequence of attributes.  One of type "complete" carries    *)
(* mCompleted; one of type "scan" nests the attributes of a scan, in any   *)
(* order: "id" (flags and bucket mask are treated like it), "num" and      *)
(* "results", whose value is the number of entries the payload holds.      *)
(* num_of_results is taken to fit into an int, so that it is not negative. *)
(***************************************************************************)
EXTENDS Naturals, Sequences, FiniteSets, SequencesExt

CONSTANTS mMax,        \* length of the caller's array
          MaxAp,       \* MAX_AP_CACHE_PER_SCAN
          MaxRounds,   \* requests of one call, 10 in the code
          Replies,     \* what the driver may answer
          NotWritten   \* what the caller's *num held before

Attribute == [type : {"id", "num", "results"}, val : Nat]
Element == [type : {"complete"}, val : Nat]
           \cup [type : {"scan"}, attrs : Seq(Attribute)]

ASSUME ScanResultsAssumption ==
    /\ mMax \in Nat /\ MaxAp \in Nat /\ MaxRounds \in Nat
    /\ Replies \subseteq Seq(Element)

VARIABLES pc,          \* "loop", "report", "returned", "failed"
          round,       \* i of execute()
          mScans,      \* the entries of the array written so far
          mCompleted,  \* the driver has no more
          mNum,        \* *mNum
          replied,     \* all attributes received, a history
          earlier      \* how many of them before the last request, a history

vars == <<pc, round, mScans, mCompleted, mNum, replied, earlier>>

Init ==
    /\ pc = "loop"
    /\ round = 0
    /\ mScans = <<>>
    /\ mCompleted = 0
    /\ mNum = NotWritten
    /\ replied = <<>>
    /\ earlier = 0

-----------------------------------------------------------------------------
(* handleResponse                                                          *)

\* Mutant of Excess: the array takes one scan too many.
ExcessByOne(scans) == Len(scans) > mMax

\* No room: the rest of the nested attributes is ignored.
Excess(scans) == Len(scans) >= mMax

\* An attribute of a scan: s holds the locals of the loop and the array.
TakeAttribute(s, a) ==
    CASE s.stop -> s
      [] ~s.stop /\ a.type = "id"  -> [s EXCEPT !.id = a.val]
      [] ~s.stop /\ a.type = "num" -> [s EXCEPT !.num = a.val]
      [] ~s.stop /\ a.type = "results" ->
            IF s.num = 0 THEN s
            ELSE IF Excess(s.scans) THEN [s EXCEPT !.stop = TRUE]
            ELSE LET n == Min({s.num, a.val, MaxAp}) IN
                 [s EXCEPT !.num = n,
                           !.scans = Append(@, [id |-> s.id, num_results |-> n])]

TakeScan(scans, attrs) ==
    FoldLeft(TakeAttribute,
             [id |-> 0, num |-> 0, scans |-> scans, stop |-> FALSE], attrs).scans

\* Mutant of TakeElement: that the flag is sent counts, not what it says.
TakeElementPresent(s, e) ==
    IF e.type = "complete"
    THEN [s EXCEPT !.completed = 1]
    ELSE [s EXCEPT !.scans = TakeScan(@, e.attrs)]

\* An attribute of the reply
TakeElement(s, e) ==
    IF e.type = "complete"
    THEN [s EXCEPT !.completed = e.val]
    ELSE [s EXCEPT !.scans = TakeScan(@, e.attrs)]

HandleResponse(r) ==
    FoldLeft(TakeElement, [scans |-> mScans, completed |-> mCompleted], r)

-----------------------------------------------------------------------------
(* execute                                                                 *)

\* One request and its answer; the loop ends early when nothing was stored or
\* the driver says that this was all.
Retrieve(r) ==
    /\ pc = "loop"
    /\ round < MaxRounds
    /\ Len(mScans) < mMax
    /\ mScans' = HandleResponse(r).scans
    /\ mCompleted' = HandleResponse(r).completed
    /\ replied' = replied \o r
    /\ earlier' = Len(replied)
    /\ pc' = IF Len(mScans') = Len(mScans) \/ mCompleted' # 0
             THEN "report" ELSE "loop"
    /\ round' = round + 1
    /\ UNCHANGED mNum

\* The request cannot be built or is refused: *mNum stays as it was.
RetrieveFails ==
    /\ pc = "loop"
    /\ round < MaxRounds
    /\ Len(mScans) < mMax
    /\ pc' = "failed"
    /\ UNCHANGED <<round, mScans, mCompleted, mNum, replied, earlier>>

Report ==
    /\ \/ pc = "report"
       \/ pc = "loop" /\ ~(round < MaxRounds /\ Len(mScans) < mMax)
    /\ mNum' = Len(mScans)
    /\ pc' = "returned"
    /\ UNCHANGED <<round, mScans, mCompleted, replied, earlier>>

Next == (\E r \in Replies : Retrieve(r)) \/ RetrieveFails \/ Report

Spec == Init /\ [][Next]_vars

-----------------------------------------------------------------------------
(* Properties                                                              *)

\* Reference: what a scan's attribute k is worth, if it is its results.  The
\* number is the last one announced before it, and every payload since then
\* has cut it down.
LastBefore(attrs, t, k) ==
    LET before == {j \in 1..(k - 1) : attrs[j].type = t}
    IN  IF before = {} THEN 0 ELSE Max(before)

Announced(attrs, k) ==
    LET n == LastBefore(attrs, "num", k)
    IN  IF n = 0 THEN 0
        ELSE Min({attrs[j].val :
                     j \in {n} \cup {i \in n..(k - 1) : attrs[i].type = "results"}}
                 \cup (IF \E i \in n..(k - 1) : attrs[i].type = "results"
                       THEN {MaxAp} ELSE {}))

Entry(attrs, k) ==
    LET i == LastBefore(attrs, "id", k)
    IN  [id |-> IF i = 0 THEN 0 ELSE attrs[i].val,
         num_results |-> Min({Announced(attrs, k), attrs[k].val, MaxAp})]

\* The scans in the replies are their results that something was announced for
\* (positions k in element i), and they come in this order.
EntriesOf(e) ==
    IF e.type # "scan" THEN {}
    ELSE {k \in DOMAIN e.attrs :
              e.attrs[k].type = "results" /\ Announced(e.attrs, k) # 0}

Positions(rep) == UNION {{<<i, k>> : k \in EntriesOf(rep[i])} : i \in DOMAIN rep}

Before(p, q) == p[1] < q[1] \/ (p[1] = q[1] /\ p[2] < q[2])

Rank(P, p) == Cardinality({q \in P : q = p \/ Before(q, p)})

\* The scans at the positions P are in the array, as far as it goes.
Holds(scans, P, rep) ==
    /\ Len(scans) = Min({mMax, Cardinality(P)})
    /\ \A p \in P : Rank(P, p) <= mMax =>
           scans[Rank(P, p)] = Entry(rep[p[1]].attrs, p[2])

\* The array holds the first mMax scans of the replies, in their order, each
\* with the id and the number that preceded it, over all requests of a call:
\* nothing is written past the end, overwritten, doubled or left out.
StoredExactly == Holds(mScans, Positions(replied), replied)

\* The last word of the replies on it is that there are no more scans.
SaidComplete(rep) ==
    \E i \in DOMAIN rep :
        /\ rep[i].type = "complete" /\ rep[i].val # 0
        /\ \A j \in (i + 1)..Len(rep) : rep[j].type # "complete"

\* The last request brought no scan.
BroughtNothing == \A p \in Positions(replied) : p[1] <= earlier

\* A caller who is given fewer scans than the array takes has all that the
\* driver sent in all requests of the call, and the call ended because the
\* driver's last word was that there are no more, because a whole request
\* brought none, or because all requests were used up (execute of
\* GetScanResultsCommand).
ShortMeansAll ==
    pc = "returned" /\ mNum < mMax =>
        /\ mNum = Cardinality(Positions(replied))
        /\ \/ SaidComplete(replied)
           \/ BroughtNothing
           \/ round = MaxRounds
=============================================================================
