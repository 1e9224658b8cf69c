------------------------------- MODULE MCServices -------------------------------
(***************************************************************************)
(* Two values m1, m2 serve as the interchangeable members of every set,    *)
(* and n1, n2 as those of a second one, so that one symmetry serves all.   *)
(***************************************************************************)
EXTENDS Services, TLC

CONSTANTS m1, m2, n1, n2, p1, p2, p3, e1, e2, e3, perpetual

TwoWindows == <<[from |-> 1, until |-> 3], [from |-> 4, until |-> 6]>>
Positions == (e1 :> 1) @@ (e2 :> 2) @@ (e3 :> 3)

Grant(p, power) == [state |-> "APPROVED", subject |-> p, capability |-> power, preparer |-> "x", approver |-> "y"]
FirstGrants == ("g1" :> Grant(p1, "grant.approve")) @@ ("g2" :> Grant(p2, "staff.provision"))
ForNewcomer == [r \in AccessRequests |-> p3]
ByFounder == [r \in AccessRequests |-> {p1}]

Appointments == {[from |-> 1, until |-> 3], [from |-> 2, until |-> 3]}

ToService == ("x1" :> "s1") @@ ("x2" :> "s2") @@ ("x3" :> "s3")
InWard == [x \in Applications |-> "w"]
OfCategory == ("x1" :> "k") @@ ("x2" :> "j") @@ ("x3" :> "k")
Entry(category, priority, from, until, queue) ==
  [ward |-> "w", category |-> category, priority |-> priority, from |-> from, until |-> until, queue |-> queue]
Table == {Entry("", 2, 1, 3, "q1"), Entry("", 2, 1, 2, "q2"), Entry("k", 1, 2, 3, "closed")}
ForService == ("q1" :> "") @@ ("q2" :> "s2") @@ ("closed" :> "")
Central == [s \in {"s1", "s2", "s3"} |-> "q1"]

Symmetric == Permutations({m1, m2}) \cup Permutations({n1, n2})
=================================================================================
