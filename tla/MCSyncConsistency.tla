---- MODULE MCSyncConsistency ----
(* A peer at height 2: ahead of us, agreeing or on the other branch. *)
EXTENDS SyncConsistency

At1 == [height |-> 1, branch |-> "a"]
At2(b) == [height |-> 2, branch |-> b]

MCStart == At1
MCRoots == {At1, At2("a"), At2("b")}
MCReports == {{At2("a")}}
====
