--------------------------- MODULE MCScanResults ----------------------------
(***************************************************************************)
(* ScanResults for TLC: every scan of up to MaxAttrs attributes, alone or  *)
(* behind a well-formed one, with and without the complete flag.           *)
(***************************************************************************)
EXTENDS ScanResults

CONSTANT MaxAttrs

Attr(t, v) == [type |-> t, val |-> v]
Attrs == {Attr("id", 1), Attr("num", 0), Attr("num", 1), Attr("num", 3),
          Attr("results", 0), Attr("results", 2)}
Scan(attrs) == [type |-> "scan", attrs |-> attrs]
Complete(v) == [type |-> "complete", val |-> v]
Normal == Scan(<<Attr("id", 2), Attr("num", 2), Attr("results", 2)>>)

SmallReplies ==
    UNION {{<<Scan(a)>>, <<Complete(1), Normal, Scan(a)>>} :
               a \in BoundedSeq(Attrs, MaxAttrs)}
    \cup {<<>>, <<Normal, Normal, Normal, Complete(1)>>, <<Complete(0)>>,
          <<Normal, Complete(0)>>, <<Complete(1), Normal, Complete(0)>>}
=============================================================================
