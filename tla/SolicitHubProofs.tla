-------------------------- MODULE SolicitHubProofs --------------------------
(***************************************************************************)
(* The waiter table, for every number of calls, requests and replies: no   *)
(* waiter is left behind and no future gets another request's answer.      *)
(***************************************************************************)
EXTENDS SolicitHub, TLAPS

Places == Calls \cup {NoCall}
Tables == [primary : Places, parked : [Kinds -> Places]]
CallRecord == [pc : CallStates, req : Requests \cup {Nothing},
               retry : BOOLEAN, result : Replies \cup {Nothing}]

\* A call that waits, or sleeps through its grace, has made a request.
Asking == \A c \in Calls : call[c].pc \in {"wait", "grace"} => call[c].req \in Requests

Inv == TypeOK /\ NoOrphans /\ AnswerFits /\ Asking

\* Table g with, perhaps, some waiters removed, and c among them.
Without(h, g, c) ==
  /\ h \in Tables
  /\ h.primary \in {g.primary, NoCall} /\ h.primary # c
  /\ \A k \in Kinds : h.parked[k] \in {g.parked[k], NoCall} /\ h.parked[k] # c

\* The same with c in one place: the primary one, or that of its kind.
With(h, g, c, k) ==
  /\ h \in Tables
  /\ h.primary \in {g.primary, NoCall, c}
  /\ \A j \in Kinds :
       \/ h.parked[j] \in {g.parked[j], NoCall} /\ h.parked[j] # c
       \/ h.parked[j] = c /\ j = k /\ h.primary # c

-----------------------------------------------------------------------------
(* The operations of the table.                                            *)

LEMMA ArmAdds ==
  ASSUME NEW h, NEW g, NEW c \in Calls, NEW k \in Kinds, Without(h, g, c)
  PROVE  With(Arm(h, c, k), g, c, k)
<1>1. h \in Tables /\ h.parked \in [Kinds -> Places] /\ h.primary \in Places
  BY DEF Without, Tables
<1>2. CASE h.primary # NoCall
  <2>1. /\ Arm(h, c, k).primary = h.primary
        /\ Arm(h, c, k).parked = [h.parked EXCEPT ![k] = c]
        /\ Arm(h, c, k) \in Tables
    BY <1>1, <1>2 DEF Arm, Tables, Places
  <2> QED
    BY <1>1, <2>1 DEF Without, With
<1>3. CASE h.primary = NoCall
  <2>1. /\ Arm(h, c, k).primary = c
        /\ Arm(h, c, k).parked = [h.parked EXCEPT ![k] = NoCall]
        /\ Arm(h, c, k) \in Tables
    BY <1>1, <1>3 DEF Arm, Tables, Places
  <2>2. c # NoCall
    BY SolicitAssumption
  <2> QED
    BY <1>1, <2>1, <2>2 DEF Without, With
<1> QED
  BY <1>2, <1>3

LEMMA TakeRemoves ==
  ASSUME NEW h, NEW g, NEW c \in Calls, NEW k \in Kinds, With(h, g, c, k),
         g.primary # c \/ \A j \in Kinds : g.parked[j] # c
  PROVE  Without(Take(h, c, k), g, c)
<1>1. h \in Tables /\ h.parked \in [Kinds -> Places] /\ h.primary \in Places /\ c # NoCall
  BY SolicitAssumption DEF With, Tables
<1>2. CASE h.parked[k] = c
  <2>1. /\ Take(h, c, k).primary = h.primary
        /\ Take(h, c, k).parked = [h.parked EXCEPT ![k] = NoCall]
        /\ Take(h, c, k) \in Tables
    BY <1>1, <1>2 DEF Take, Tables, Places
  <2> QED
    BY <1>1, <1>2, <2>1 DEF Without, With
<1>3. CASE h.parked[k] # c /\ h.primary = c
  <2>1. /\ Take(h, c, k).primary = NoCall
        /\ Take(h, c, k).parked = h.parked
        /\ Take(h, c, k) \in Tables
    BY <1>1, <1>3 DEF Take, Tables, Places
  <2> QED
    BY <1>1, <1>3, <2>1 DEF Without, With
<1>4. CASE h.parked[k] # c /\ h.primary # c
  <2>1. /\ Take(h, c, k).primary = h.primary
        /\ Take(h, c, k).parked = [j \in Kinds |-> IF h.parked[j] = c THEN NoCall ELSE h.parked[j]]
        /\ Take(h, c, k) \in Tables
    BY <1>1, <1>4 DEF Take, Tables, Places
  <2> QED
    BY <1>1, <1>4, <2>1 DEF Without, With
<1> QED
  BY <1>2, <1>3, <1>4

\* A request that could not be sent leaves no waiter.
LEMMA UnsentRemoves ==
  ASSUME NEW h, NEW g, NEW c \in Calls, NEW k \in Kinds, Without(h, g, c),
         g.primary # c \/ \A j \in Kinds : g.parked[j] # c
  PROVE  Without(Unsent(h, c, k), g, c)
  BY ArmAdds, TakeRemoves DEF Unsent

-----------------------------------------------------------------------------
(* Steps.                                                                  *)

\* In the table a call is in one place.
LEMMA OnePlace ==
  ASSUME Inv, NEW c \in Calls
  PROVE  /\ hub.primary # c \/ \A j \in Kinds : hub.parked[j] # c
         /\ hub \in Tables
         /\ call[c].pc = "wait" => With(hub, hub, c, Kind(c))
         /\ call[c].pc # "wait" => Without(hub, hub, c)
<1>1. c # NoCall /\ hub \in Tables
  BY SolicitAssumption DEF Inv, TypeOK, Tables, Places
<1> QED
  BY <1>1 DEF Inv, NoOrphans, With, Without

\* The call ends and its waiter is gone.
LEMMA FinishStep ==
  ASSUME Inv, NEW c \in Calls, NEW r \in Requests, NEW m \in Replies \cup {Nothing},
         Without(hub', hub, c), Finish(c, r, m),
         fut' \in [Calls -> Replies \cup {Pending, Nothing}],
         \A d \in Calls \ {c} : fut'[d] = fut[d],
         marked' \in BOOLEAN, late' \in Replies \cup {Nothing}
  PROVE  Inv'
<1>1. /\ call' \in [Calls -> CallRecord] /\ call'[c].pc = "done"
      /\ \A d \in Calls \ {c} : call'[d] = call[d]
  BY DEF Inv, TypeOK, Finish, CallRecord, CallStates
<1>2. TypeOK'
  BY <1>1 DEF TypeOK, Without, Tables, Places, CallRecord
<1>3. NoOrphans'
  BY <1>1, SolicitAssumption DEF Inv, TypeOK, NoOrphans, Kind, Without, Tables, Places
<1>4. AnswerFits'
  BY <1>1 DEF Inv, AnswerFits, Kind, IsRoot
<1>5. Asking'
  BY <1>1 DEF Inv, Asking
<1> QED
  BY <1>2, <1>3, <1>4, <1>5 DEF Inv

\* The call waits, its waiter in its place.
LEMMA WaitStep ==
  ASSUME Inv, NEW c \in Calls, NEW r \in Requests, NEW retry \in BOOLEAN,
         With(hub', hub, c, r.kind), Wait(c, r, retry),
         marked' \in BOOLEAN, late' \in Replies \cup {Nothing}
  PROVE  Inv'
<1>1. /\ call' \in [Calls -> CallRecord]
      /\ call'[c].pc = "wait" /\ call'[c].req = r
      /\ \A d \in Calls \ {c} : call'[d] = call[d]
  BY DEF Inv, TypeOK, Wait, CallRecord, CallStates
<1>2. /\ fut' \in [Calls -> Replies \cup {Pending, Nothing}] /\ fut'[c] \notin Replies
      /\ \A d \in Calls \ {c} : fut'[d] = fut[d]
  BY SolicitAssumption DEF Inv, TypeOK, Wait
<1>3. TypeOK'
  BY <1>1, <1>2 DEF TypeOK, With, Tables, Places, CallRecord
<1>4. NoOrphans'
  BY <1>1, SolicitAssumption DEF Inv, TypeOK, NoOrphans, Kind, With, Tables, Places
<1>5. AnswerFits'
  BY <1>1, <1>2 DEF Inv, AnswerFits, Kind, IsRoot
<1>6. Asking'
  BY <1>1 DEF Inv, Asking
<1> QED
  BY <1>3, <1>4, <1>5, <1>6 DEF Inv

LEMMA AttemptStep ==
  ASSUME Inv, NEW c \in Calls, NEW h, NEW r \in Requests, NEW retry \in BOOLEAN,
         Without(h, hub, c), Attempt(c, h, r, retry),
         marked' \in BOOLEAN, late' \in Replies \cup {Nothing}
  PROVE  Inv'
<1>1. r.kind \in Kinds
  BY SolicitAssumption
<1>2. Without(Unsent(h, c, r.kind), hub, c)
  BY <1>1, OnePlace, UnsentRemoves
<1>3. CASE hub' = Arm(h, c, r.kind) /\ Wait(c, r, retry)
  BY <1>1, <1>3, ArmAdds, WaitStep
<1>4. CASE hub' = Arm(Unsent(h, c, r.kind), c, r.kind) /\ Wait(c, r, FALSE)
  <2>1. With(hub', hub, c, r.kind)
    BY <1>1, <1>2, <1>4, ArmAdds
  <2> QED
    BY <1>4, <2>1, WaitStep
<1>5. CASE /\ hub' = Unsent(h, c, r.kind)
           /\ Finish(c, r, Nothing)
           /\ fut' = [fut EXCEPT ![c] = Nothing]
  <2>1. /\ fut' \in [Calls -> Replies \cup {Pending, Nothing}]
        /\ \A d \in Calls \ {c} : fut'[d] = fut[d]
    BY <1>5 DEF Inv, TypeOK
  <2> QED
    BY <1>2, <1>5, <2>1, FinishStep
<1> QED
  BY <1>3, <1>4, <1>5 DEF Attempt

LEMMA NoAnswerStep ==
  ASSUME Inv, NEW c \in Calls, NEW h, Without(h, hub, c), NoAnswer(c, h),
         call[c].pc \in {"wait", "grace"}, marked' \in BOOLEAN
  PROVE  Inv'
<1>1. /\ call[c].req \in Requests /\ call[c].retry \in BOOLEAN
      /\ late \in Replies \cup {Nothing}
  BY DEF Inv, Asking, TypeOK
<1>2. ASSUME fut' = [fut EXCEPT ![c] = Nothing]
      PROVE  /\ fut' \in [Calls -> Replies \cup {Pending, Nothing}]
             /\ \A d \in Calls \ {c} : fut'[d] = fut[d]
  BY <1>2 DEF Inv, TypeOK
<1>3. late' \in Replies \cup {Nothing}
  BY <1>1 DEF NoAnswer
<1>4. CASE IsRoot(c) /\ late # Nothing
  BY <1>1, <1>2, <1>3, <1>4, FinishStep DEF NoAnswer
<1>5. CASE ~(IsRoot(c) /\ late # Nothing) /\ call[c].retry
  <2>1. Attempt(c, h, call[c].req, FALSE)
    BY <1>5 DEF NoAnswer
  <2> QED
    BY <1>1, <1>3, <2>1, AttemptStep
<1>6. CASE ~(IsRoot(c) /\ late # Nothing) /\ ~call[c].retry
  BY <1>1, <1>2, <1>3, <1>6, FinishStep DEF NoAnswer
<1> QED
  BY <1>4, <1>5, <1>6

LEMMA TakenFacts ==
  ASSUME Inv, NEW c \in Calls, call[c].pc = "wait"
  PROVE  Without(Take(hub, c, Kind(c)), hub, c)
<1>1. Kind(c) \in Kinds
  BY SolicitAssumption DEF Inv, Asking, Kind
<1> QED
  BY <1>1, OnePlace, TakeRemoves

LEMMA CallSteps ==
  ASSUME Inv, NEW c \in Calls
  PROVE  /\ \A r \in Requests, retry \in BOOLEAN : Begin(c, r, retry) => Inv'
         /\ Wake(c) => Inv'
         /\ Timeout(c) => Inv'
         /\ GraceEnd(c) => Inv'
<1>0. marked \in BOOLEAN /\ late \in Replies \cup {Nothing}
  BY DEF Inv, TypeOK
<1>1. ASSUME NEW r \in Requests, NEW retry \in BOOLEAN, Begin(c, r, retry) PROVE Inv'
  <2>1. Without(hub, hub, c)
    BY <1>1, OnePlace DEF Begin
  <2>2. CASE r.kind = "state_root" /\ late # Nothing
    <3>1. /\ Finish(c, r, late) /\ UNCHANGED <<hub, fut, marked>> /\ late' = Nothing
      BY <1>1, <2>2 DEF Begin
    <3>2. fut' \in [Calls -> Replies \cup {Pending, Nothing}] /\ Without(hub', hub, c)
      BY <2>1, <3>1 DEF Inv, TypeOK
    <3> QED
      BY <1>0, <3>1, <3>2, FinishStep
  <2>3. CASE ~(r.kind = "state_root" /\ late # Nothing)
    BY <1>0, <1>1, <2>1, <2>3, AttemptStep DEF Begin
  <2> QED
    BY <2>2, <2>3
<1>2. ASSUME Wake(c) PROVE Inv'
  <2>1. call[c].pc = "wait" /\ Without(Take(hub, c, Kind(c)), hub, c) /\ UNCHANGED marked
    BY <1>2, TakenFacts DEF Wake, Resume
  <2>2. CASE fut[c] # Nothing
    <3>1. /\ Finish(c, call[c].req, fut[c]) /\ hub' = Take(hub, c, Kind(c))
          /\ UNCHANGED <<fut, late>>
      BY <1>2, <2>2 DEF Wake, Resume
    <3>2. fut[c] \in Replies /\ call[c].req \in Requests
      BY <1>2, <2>1, <2>2 DEF Wake, Inv, TypeOK, Asking
    <3>3. fut' \in [Calls -> Replies \cup {Pending, Nothing}]
      BY <3>1 DEF Inv, TypeOK
    <3> QED
      BY <1>0, <2>1, <3>1, <3>2, <3>3, FinishStep
  <2>3. CASE fut[c] = Nothing
    BY <1>0, <1>2, <2>1, <2>3, NoAnswerStep DEF Wake, Resume
  <2> QED
    BY <2>2, <2>3
<1>3. ASSUME Timeout(c) PROVE Inv'
  <2>1. call[c].pc = "wait" /\ Without(Take(hub, c, Kind(c)), hub, c)
    BY <1>3, TakenFacts DEF Timeout, TimesOut
  <2>2. CASE IsRoot(c)
    <3>1. /\ call' = [call EXCEPT ![c].pc = "grace"] /\ hub' = Take(hub, c, Kind(c))
          /\ fut' = [fut EXCEPT ![c] = Nothing] /\ marked' = TRUE /\ UNCHANGED late
      BY <1>3, <2>2 DEF Timeout, TimesOut
    <3>2. /\ call' \in [Calls -> CallRecord] /\ call'[c].pc = "grace" /\ call'[c].req = call[c].req
          /\ \A d \in Calls \ {c} : call'[d] = call[d]
      BY <3>1 DEF Inv, TypeOK, CallRecord, CallStates
    <3>3. /\ fut' \in [Calls -> Replies \cup {Pending, Nothing}]
          /\ \A d \in Calls \ {c} : fut'[d] = fut[d]
      BY <3>1 DEF Inv, TypeOK
    <3>4. Without(hub', hub, c)
      BY <2>1, <3>1
    <3>5. TypeOK'
      BY <1>0, <3>1, <3>2, <3>3, <3>4 DEF TypeOK, Without, Tables, Places, CallRecord
    <3>6. NoOrphans'
      BY <3>2, <3>4, SolicitAssumption DEF Inv, TypeOK, NoOrphans, Kind, Without, Tables, Places
    <3>7. AnswerFits' /\ Asking'
      BY <2>1, <3>2, <3>3 DEF Inv, AnswerFits, Asking, Kind, IsRoot
    <3> QED
      BY <3>5, <3>6, <3>7 DEF Inv
  <2>3. CASE ~IsRoot(c)
    BY <1>0, <1>3, <2>1, <2>3, NoAnswerStep DEF Timeout, TimesOut
  <2> QED
    BY <2>2, <2>3
<1>4. ASSUME GraceEnd(c) PROVE Inv'
  BY <1>0, <1>4, OnePlace, NoAnswerStep DEF GraceEnd
<1> QED
  BY <1>1, <1>2, <1>3, <1>4

\* What settles a future fits the request of its call.
LEMMA SettledFits ==
  ASSUME NEW c \in Calls, NEW m \in Replies, call[c].req \in Requests,
         m.kind = Kind(c), Settled(c, m) # Nothing
  PROVE  /\ Settled(c, m) = m
         /\ Kind(c) \in {"blocks", "block"} => m.have = call[c].req.want
         /\ IsRoot(c) => /\ m.have <= call[c].req.want
                         /\ m.have = call[c].req.want => m.same
<1>1. Settled(c, m) = m /\ Verdict(call[c].req, m) = "answer"
  BY DEF Settled
<1>2. m.have \in Nat /\ call[c].req.want \in Nat
  BY SolicitAssumption
<1>3. CASE IsRoot(c)
  BY <1>1, <1>2, <1>3 DEF Verdict, IsRoot, Kind
<1>4. CASE Kind(c) \in {"blocks", "block"}
  BY <1>1, <1>2, <1>4 DEF Verdict, IsRoot, Kind
<1> QED
  BY <1>1, <1>3, <1>4

LEMMA ReplyStep ==
  ASSUME Inv, NEW m \in Replies, NEW W \in SUBSET Calls,
         \A c \in W : Kind(c) = m.kind /\ call[c].pc = "wait",
         fut' = [c \in Calls |-> IF c \in W THEN Settled(c, m) ELSE fut[c]],
         UNCHANGED <<hub, call, marked>>, late' \in Replies \cup {Nothing}
  PROVE  Inv'
<1>1. \A c \in Calls : Settled(c, m) \in Replies \cup {Nothing}
  BY DEF Settled
<1>2. TypeOK'
  BY <1>1 DEF Inv, TypeOK
<1>3. NoOrphans' /\ Asking'
  BY DEF Inv, NoOrphans, Asking, Kind
<1>4. AnswerFits'
  <2> SUFFICES ASSUME NEW c \in Calls, call[c].pc = "wait", fut'[c] \in Replies
               PROVE  /\ fut'[c].kind = Kind(c)
                      /\ Kind(c) \in {"blocks", "block"} => fut'[c].have = call[c].req.want
                      /\ IsRoot(c) => /\ fut'[c].have <= call[c].req.want
                                      /\ fut'[c].have = call[c].req.want => fut'[c].same
    BY DEF AnswerFits, Kind, IsRoot
  <2>1. CASE c \in W
    <3>1. fut'[c] = Settled(c, m) /\ Settled(c, m) # Nothing /\ call[c].req \in Requests
      BY <2>1, SolicitAssumption DEF Inv, Asking
    <3> QED
      BY <2>1, <3>1, SettledFits
  <2>2. CASE c \notin W
    BY <2>2 DEF Inv, AnswerFits
  <2> QED
    BY <2>1, <2>2
<1> QED
  BY <1>2, <1>3, <1>4 DEF Inv

LEMMA ReceiveSteps ==
  ASSUME Inv, NEW m \in Replies, ReceiveStateRoot(m) \/ ReceiveOther(m)
  PROVE  Inv'
<1>0. late \in Replies \cup {Nothing} /\ hub \in Tables /\ fut \in [Calls -> Replies \cup {Pending, Nothing}]
  BY DEF Inv, TypeOK, Tables, Places
<1>1. CASE ReceiveStateRoot(m)
  <2> DEFINE W == {c \in RootWaiters : fut[c] = Pending}
  <2>1. \A c \in RootWaiters : c \in Calls /\ Kind(c) = "state_root" /\ call[c].pc = "wait"
    BY <1>0 DEF RootWaiters, IsRoot, Inv, NoOrphans, Tables, Places, Kinds
  <2>2. fut' = [c \in Calls |-> IF c \in W THEN Settled(c, m) ELSE fut[c]]
    BY <1>1 DEF ReceiveStateRoot
  <2>3. late' \in Replies \cup {Nothing}
    BY <1>0, <1>1 DEF ReceiveStateRoot, Stash
  <2>4. W \in SUBSET Calls /\ \A c \in W : Kind(c) = m.kind /\ call[c].pc = "wait"
    BY <1>1, <2>1 DEF ReceiveStateRoot
  <2>5. UNCHANGED <<hub, call, marked>>
    BY <1>1 DEF ReceiveStateRoot
  <2> HIDE DEF W
  <2> QED
    BY <2>2, <2>3, <2>4, <2>5, ReplyStep
<1>2. CASE ReceiveOther(m)
  <2> DEFINE w == KindWaiter(m.kind)
  <2>1. m.kind \in Kinds
    BY SolicitAssumption
  <2>2. w \in Calls /\ Kind(w) = m.kind /\ call[w].pc = "wait"
    BY <1>0, <1>2, <2>1 DEF ReceiveOther, KindWaiter, Inv, NoOrphans, Tables, Places
  <2>3. fut' = [c \in Calls |-> IF c \in {w} THEN Settled(c, m) ELSE fut[c]]
    BY <1>0, <1>2 DEF ReceiveOther
  <2>4. UNCHANGED <<hub, call, marked, late>>
    BY <1>2 DEF ReceiveOther
  <2> HIDE DEF w
  <2>5. {w} \in SUBSET Calls /\ \A c \in {w} : Kind(c) = m.kind /\ call[c].pc = "wait"
    BY <2>2
  <2>6. UNCHANGED <<hub, call, marked>> /\ late' \in Replies \cup {Nothing}
    BY <1>0, <2>4
  <2> QED
    BY <2>3, <2>5, <2>6, ReplyStep
<1> QED
  BY <1>1, <1>2

LEMMA InvInit == Init => Inv
<1> SUFFICES ASSUME Init PROVE Inv
  OBVIOUS
<1>1. TypeOK
  BY DEF Init, TypeOK, CallStates
<1>2. NoOrphans /\ AnswerFits /\ Asking
  BY DEF Init, NoOrphans, AnswerFits, Asking
<1> QED
  BY <1>1, <1>2 DEF Inv

LEMMA InvStep == Inv /\ [Next]_vars => Inv'
<1> SUFFICES ASSUME Inv, [Next]_vars PROVE Inv'
  OBVIOUS
<1>1. CASE MarkExpires \/ LateExpires \/ UNCHANGED vars
  <2>1. UNCHANGED <<hub, call, fut>>
    BY <1>1 DEF MarkExpires, LateExpires, vars
  <2>2. marked' \in BOOLEAN /\ late' \in Replies \cup {Nothing}
    BY <1>1 DEF MarkExpires, LateExpires, vars, Inv, TypeOK
  <2> QED
    BY <2>1, <2>2 DEF Inv, TypeOK, NoOrphans, AnswerFits, Asking, Kind, IsRoot
<1> QED
  BY <1>1, CallSteps, ReceiveSteps DEF Next

LEMMA InvAlways == Spec => []Inv
  BY InvInit, InvStep, PTL DEF Spec

\* What _wait_peer_response returns is a reply or nothing, and the hub's
\* tables keep their shape.
THEOREM HubTyped == Spec => []TypeOK
  BY InvAlways, PTL DEF Inv

\* No time-out, failed send or retry leaves a waiter in the hub whose call is
\* gone, and no call is in two places or under another kind.
THEOREM HubClean == Spec => []NoOrphans
  BY InvAlways, PTL DEF Inv

\* fulfill_or_reject settles a future only with what its own call asked for.
THEOREM AnswersFit == Spec => []AnswerFits
  BY InvAlways, PTL DEF Inv

-----------------------------------------------------------------------------
(* Who leaves the table, and why.                                          *)

\* Table h has all of g's waiters but, perhaps, d and the one parked under k.
Spares(h, g, d, k) ==
  /\ g.primary \notin {NoCall, d} => h.primary = g.primary
  /\ \A j \in Kinds \ {k} : g.parked[j] \notin {NoCall, d} => h.parked[j] = g.parked[j]

SparesAll(h, g, d) ==
  /\ g.primary \notin {NoCall, d} => h.primary = g.primary
  /\ \A j \in Kinds : g.parked[j] \notin {NoCall, d} => h.parked[j] = g.parked[j]

LEMMA TakeSpares ==
  ASSUME NEW h \in Tables, NEW d \in Calls, NEW k \in Kinds
  PROVE  Take(h, d, k) \in Tables /\ SparesAll(Take(h, d, k), h, d)
<1>1. h.parked \in [Kinds -> Places] /\ h.primary \in Places
  BY DEF Tables
<1>2. CASE h.parked[k] = d
  <2>1. /\ Take(h, d, k).primary = h.primary
        /\ Take(h, d, k).parked = [h.parked EXCEPT ![k] = NoCall]
        /\ Take(h, d, k) \in Tables
    BY <1>1, <1>2 DEF Take, Tables, Places
  <2> QED
    BY <1>1, <1>2, <2>1 DEF SparesAll
<1>3. CASE h.parked[k] # d /\ h.primary = d
  <2>1. /\ Take(h, d, k).primary = NoCall
        /\ Take(h, d, k).parked = h.parked
        /\ Take(h, d, k) \in Tables
    BY <1>1, <1>3 DEF Take, Tables, Places
  <2> QED
    BY <1>1, <1>3, <2>1 DEF SparesAll
<1>4. CASE h.parked[k] # d /\ h.primary # d
  <2>1. /\ Take(h, d, k).primary = h.primary
        /\ Take(h, d, k).parked = [j \in Kinds |-> IF h.parked[j] = d THEN NoCall ELSE h.parked[j]]
        /\ Take(h, d, k) \in Tables
    BY <1>1, <1>4 DEF Take, Tables, Places
  <2> QED
    BY <1>1, <1>4, <2>1 DEF SparesAll
<1> QED
  BY <1>2, <1>3, <1>4

LEMMA ArmSpares ==
  ASSUME NEW h \in Tables, NEW d \in Calls, NEW k \in Kinds
  PROVE  Arm(h, d, k) \in Tables /\ Spares(Arm(h, d, k), h, d, k)
<1>1. h.parked \in [Kinds -> Places] /\ h.primary \in Places
  BY DEF Tables
<1>2. CASE h.primary # NoCall
  <2>1. /\ Arm(h, d, k).primary = h.primary
        /\ Arm(h, d, k).parked = [h.parked EXCEPT ![k] = d]
        /\ Arm(h, d, k) \in Tables
    BY <1>1, <1>2 DEF Arm, Tables, Places
  <2> QED
    BY <1>1, <2>1 DEF Spares
<1>3. CASE h.primary = NoCall
  <2>1. /\ Arm(h, d, k).primary = d
        /\ Arm(h, d, k).parked = [h.parked EXCEPT ![k] = NoCall]
        /\ Arm(h, d, k) \in Tables
    BY <1>1, <1>3 DEF Arm, Tables, Places
  <2> QED
    BY <1>1, <1>3, <2>1 DEF Spares
<1> QED
  BY <1>2, <1>3

\* A request that is sent, or could not be, costs at most the waiter parked
\* under its kind.
LEMMA AttemptSpares ==
  ASSUME Inv, NEW d \in Calls, NEW h \in Tables, NEW r \in Requests, NEW retry \in BOOLEAN,
         SparesAll(h, hub, d), Attempt(d, h, r, retry)
  PROVE  Spares(hub', hub, d, r.kind) /\ call'[d].req = r /\ call'[d].pc \in {"wait", "done"}
         /\ (retry = FALSE => call'[d].retry = FALSE)
<1>1. r.kind \in Kinds
  BY SolicitAssumption
<1>2. Arm(h, d, r.kind) \in Tables /\ Spares(Arm(h, d, r.kind), hub, d, r.kind)
  BY <1>1, ArmSpares DEF Spares, SparesAll
<1>3. Unsent(h, d, r.kind) \in Tables /\ Spares(Unsent(h, d, r.kind), hub, d, r.kind)
  BY <1>1, <1>2, TakeSpares DEF Unsent, Spares, SparesAll
<1>4. Spares(Arm(Unsent(h, d, r.kind), d, r.kind), hub, d, r.kind)
  BY <1>1, <1>3, ArmSpares DEF Spares
<1>5. Spares(hub', hub, d, r.kind)
  BY <1>2, <1>3, <1>4 DEF Attempt
<1>6. call'[d].req = r /\ call'[d].pc \in {"wait", "done"} /\ (retry = FALSE => call'[d].retry = FALSE)
  BY DEF Attempt, Wait, Finish, Inv, TypeOK
<1> QED
  BY <1>5, <1>6

\* What a step of call d does to the others' waiters.
Displaces(d) ==
  /\ call[d].pc = "idle" \/ call[d].retry
  /\ call'[d] # call[d]
  /\ Spares(hub', hub, d, call'[d].req.kind)
Lets(d) == SparesAll(hub', hub, d)

LEMMA NoAnswerSpares ==
  ASSUME Inv, NEW d \in Calls, NEW h \in Tables, SparesAll(h, hub, d), NoAnswer(d, h),
         call[d].pc \in {"wait", "grace"}
  PROVE  (Displaces(d) \/ Lets(d)) /\ call'[d] # call[d]
<1>1. call[d].req \in Requests /\ call \in [Calls -> CallRecord]
  BY DEF Inv, Asking, TypeOK, CallRecord
<1>2. CASE ~(IsRoot(d) /\ late # Nothing) /\ call[d].retry
  <2>1. Attempt(d, h, call[d].req, FALSE)
    BY <1>2 DEF NoAnswer
  <2>2. /\ Spares(hub', hub, d, call[d].req.kind) /\ call'[d].req = call[d].req
        /\ call'[d].retry = FALSE
    BY <1>1, <2>1, AttemptSpares
  <2> QED
    BY <1>2, <2>2 DEF Displaces
<1>3. CASE hub' = h /\ \E m : Finish(d, call[d].req, m)
  BY <1>1, <1>3 DEF Finish, Lets
<1> QED
  BY <1>2, <1>3 DEF NoAnswer

LEMMA CallSpares ==
  ASSUME Inv, NEW d \in Calls,
         (\E r \in Requests, retry \in BOOLEAN : Begin(d, r, retry)) \/ Wake(d) \/ Timeout(d) \/ GraceEnd(d)
  PROVE  (Displaces(d) \/ Lets(d)) /\ call'[d] # call[d]
<1>1. /\ hub \in Tables /\ SparesAll(hub, hub, d) /\ call \in [Calls -> CallRecord]
  BY DEF Inv, TypeOK, Tables, Places, SparesAll, CallRecord
<1>2. ASSUME call[d].pc = "wait"
      PROVE  Take(hub, d, Kind(d)) \in Tables /\ SparesAll(Take(hub, d, Kind(d)), hub, d)
  <2>1. Kind(d) \in Kinds
    BY <1>2, SolicitAssumption DEF Inv, Asking, Kind
  <2> QED
    BY <1>1, <2>1, TakeSpares
<1>3. ASSUME NEW r \in Requests, NEW retry \in BOOLEAN, Begin(d, r, retry)
      PROVE  (Displaces(d) \/ Lets(d)) /\ call'[d] # call[d]
  <2>1. call[d].pc = "idle"
    BY <1>3 DEF Begin
  <2>2. CASE Finish(d, r, late) /\ UNCHANGED hub
    BY <1>1, <2>1, <2>2 DEF Finish, Lets
  <2>3. CASE Attempt(d, hub, r, retry)
    BY <1>1, <2>1, <2>3, AttemptSpares DEF Displaces
  <2> QED
    BY <1>3, <2>2, <2>3 DEF Begin
<1>4. ASSUME Wake(d) PROVE (Displaces(d) \/ Lets(d)) /\ call'[d] # call[d]
  <2>1. call[d].pc = "wait"
    BY <1>4 DEF Wake, Resume
  <2>2. CASE fut[d] # Nothing
    BY <1>1, <1>2, <1>4, <2>1, <2>2 DEF Wake, Resume, Finish, Lets
  <2>3. CASE fut[d] = Nothing
    BY <1>2, <1>4, <2>1, <2>3, NoAnswerSpares DEF Wake, Resume
  <2> QED
    BY <2>2, <2>3
<1>5. ASSUME Timeout(d) PROVE (Displaces(d) \/ Lets(d)) /\ call'[d] # call[d]
  <2>1. call[d].pc = "wait"
    BY <1>5 DEF Timeout, TimesOut
  <2>2. CASE IsRoot(d)
    <3>1. call' = [call EXCEPT ![d].pc = "grace"] /\ hub' = Take(hub, d, Kind(d))
      BY <1>5, <2>2 DEF Timeout, TimesOut
    <3>2. call'[d].pc = "grace"
      BY <1>1, <3>1 DEF CallRecord
    <3> QED
      BY <1>2, <2>1, <3>1, <3>2 DEF Lets
  <2>3. CASE ~IsRoot(d)
    BY <1>2, <1>5, <2>1, <2>3, NoAnswerSpares DEF Timeout, TimesOut
  <2> QED
    BY <2>2, <2>3
<1>6. ASSUME GraceEnd(d) PROVE (Displaces(d) \/ Lets(d)) /\ call'[d] # call[d]
  BY <1>1, <1>6, NoAnswerSpares DEF GraceEnd
<1> QED
  BY <1>3, <1>4, <1>5, <1>6

LEMMA LeaveStep ==
  ASSUME Inv, [Next]_vars, NEW c \in Calls, Armed(c), ~Armed(c)'
  PROVE  MayLeave(c)
<1>1. c # NoCall
  BY SolicitAssumption
<1>2. hub' # hub
  BY DEF Armed
<1>3. PICK d \in Calls : (\E r \in Requests, retry \in BOOLEAN : Begin(d, r, retry))
                         \/ Wake(d) \/ Timeout(d) \/ GraceEnd(d)
  BY <1>2 DEF Next, MarkExpires, LateExpires, ReceiveStateRoot, ReceiveOther, vars
<1>4. (Displaces(d) \/ Lets(d)) /\ call'[d] # call[d]
  BY <1>3, CallSpares
<1>5. CASE d = c
  BY <1>4, <1>5 DEF MayLeave
<1>6. CASE d # c /\ Lets(d)
  BY <1>1, <1>6 DEF Lets, SparesAll, Armed
<1>7. CASE d # c /\ Displaces(d)
  <2> DEFINE k == call'[d].req.kind
  <2>1. k \in Kinds /\ hub.parked[k] = c
    BY <1>1, <1>7 DEF Displaces, Spares, Armed
  <2>2. Kind(c) = k
    BY <1>1, <2>1 DEF Inv, NoOrphans
  <2> QED
    BY <1>7, <2>2 DEF Displaces, MayLeave
<1> QED
  BY <1>4, <1>5, <1>6, <1>7

\* A time-out, a failed send or a reply of one call never takes the waiter of
\* another: only a call of the same kind, when it arms its own, displaces one
\* (timeout(fut=...) removes by future).
THEOREM WaitersSafe == Spec => NobodyStealsAWaiter
<1>1. Inv /\ [Next]_vars => [\A c \in Calls : Armed(c) /\ ~Armed(c)' => MayLeave(c)]_vars
  BY LeaveStep
<1> QED
  BY <1>1, InvAlways, PTL DEF Spec, NobodyStealsAWaiter
=============================================================================
