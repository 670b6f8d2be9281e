---- MODULE MCCrossShard ----
(* One transfer asked for twice and two destinations: a committee of both or *)
(* of one, a committee of the source with another member, and no committee.  *)
EXTENDS CrossShard

CONSTANTS s, p, d1, d2

MCSetups ==
    { [from |-> {}, to |-> {d1, d2}, nameless |-> {}],
      [from |-> {}, to |-> {d1}, nameless |-> {d2}],
      [from |-> {s, p}, to |-> {}, nameless |-> {d2}],
      [from |-> {}, to |-> {}, nameless |-> {d2}] }
====
