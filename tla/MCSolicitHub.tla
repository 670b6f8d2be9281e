---- MODULE MCSolicitHub ----
(* The calls that can meet at one peer: catch-up fetches blocks or probes a  *)
(* state root, the HTTP probe and the mining loop ask for state roots, the   *)
(* mining loop at the next height.  One reply disagrees with our root.       *)
EXTENDS SolicitHub

Root(h) == [kind |-> "state_root", want |-> h]

MCCalls == {"catchup", "http", "mining"}

MCRequests == {Root(1), Root(2), [kind |-> "blocks", want |-> 1]}

MCAsks == [c \in MCCalls |->
             CASE c = "catchup" -> {Root(1), [kind |-> "blocks", want |-> 1]}
               [] c = "http" -> {Root(1)}
               [] OTHER -> {Root(2)}]

MCReplies ==
    {[kind |-> "state_root", have |-> h, same |-> TRUE] : h \in {1, 2}} \cup
    {[kind |-> "state_root", have |-> 1, same |-> FALSE],
     [kind |-> "blocks", have |-> 1, same |-> TRUE]}
====
