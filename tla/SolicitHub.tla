----------------------------- MODULE SolicitHub -----------------------------
(***************************************************************************)
(* The solicitation hub (sync/solicit.py) and the calls that wait on it    *)
(* (network/p2p_node.py): a call registers a future, sends its request and *)
(* waits; replies carry no request number, so the hub decides from the     *)
(* kind of a message whose future it settles.                              *)
(*                                                                         *)
(* Every table is keyed by peer, so this is one peer's part.  Everything   *)
(* runs on the event loop: a step is what happens between two awaits.      *)
(* peer.send only enqueues, so a call is registered and sent in one step.  *)
(***************************************************************************)
EXTENDS Naturals

CONSTANTS
    Calls,        \* calls that may be made, each once
    Requests,     \* a kind, and the height (or block) wanted
    Asks,         \* the requests a call may make
    Replies,      \* what the peer may send: kind, height, same root as ours
    NoCall, Pending, Nothing

VARIABLES
    hub,          \* _waiters[pid] and _kind_waiters[(pid, kind)]
    call,         \* the calls: where they are, request, may ask again, result
    fut,          \* the future of a call
    marked,       \* _state_root_timeout_at is at most 2 s old
    late          \* _state_root_late: a reply stashed at most 2 s ago

vars == <<hub, call, fut, marked, late>>

Kinds == {"state_root", "blocks", "block", "mempool", "peers"}

ASSUME SolicitAssumption ==
    /\ Requests \subseteq [kind : Kinds, want : Nat]
    /\ Asks \in [Calls -> SUBSET Requests]
    /\ Replies \subseteq [kind : Kinds, have : Nat, same : BOOLEAN]
    /\ NoCall \notin Calls
    /\ Pending \notin Replies /\ Nothing \notin Replies /\ Pending # Nothing

Init ==
    /\ hub = [primary |-> NoCall, parked |-> [k \in Kinds |-> NoCall]]
    /\ call = [c \in Calls |->
                 [pc |-> "idle", req |-> Nothing, retry |-> FALSE, result |-> Nothing]]
    /\ fut = [c \in Calls |-> Nothing]
    /\ marked = FALSE
    /\ late = Nothing

Kind(c) == call[c].req.kind
IsRoot(c) == Kind(c) = "state_root"

-----------------------------------------------------------------------------
(* The waiter table.                                                       *)

\* A peer that has a waiter gets the next one parked under its kind, over
\* whatever was parked there; otherwise the waiter becomes the primary one
\* and a parked one of its kind is forgotten.
Arm(h, c, k) ==
    IF h.primary # NoCall
    THEN [h EXCEPT !.parked[k] = c]
    ELSE [primary |-> c, parked |-> [h.parked EXCEPT ![k] = NoCall]]

\* Removal of what is found first, as when the future is not passed.
TakeByKind(h, c, k) ==
    IF h.parked[k] # NoCall THEN [h EXCEPT !.parked[k] = NoCall]
    ELSE [h EXCEPT !.primary = NoCall]

\* No removal, as when the clean-up is forgotten.
TakeNever(h, c, k) == h

\* Removal by future: one's own parked entry, else one's own primary entry,
\* else one's own entry under another kind.
Take(h, c, k) ==
    IF h.parked[k] = c THEN [h EXCEPT !.parked[k] = NoCall]
    ELSE IF h.primary = c THEN [h EXCEPT !.primary = NoCall]
    ELSE [h EXCEPT !.parked = [j \in Kinds |-> IF h.parked[j] = c THEN NoCall ELSE h.parked[j]]]

Armed(c) == hub.primary = c \/ \E k \in Kinds : hub.parked[k] = c

\* A reply taken without comparing heights.
VerdictAnyHeight(r, m) ==
    IF r.kind = "state_root" /\ ~m.same THEN "refuse" ELSE "answer"

\* What a reply means for a request.  A state root below the height asked
\* for is a lagging peer's answer; a root of the right height that is not
\* ours is refused without a strike that counts.
Verdict(r, m) ==
    CASE r.kind = "state_root" ->
            IF m.have = r.want THEN IF m.same THEN "answer" ELSE "refuse"
            ELSE IF 0 < m.have /\ m.have < r.want THEN "answer" ELSE "strike"
      [] r.kind \in {"blocks", "block"} -> IF m.have = r.want THEN "answer" ELSE "strike"
      [] OTHER -> "answer"

Settled(c, m) == IF Verdict(call[c].req, m) = "answer" THEN m ELSE Nothing

\* Both waiters for a state root, the parked one and the primary one.
RootWaiters ==
    {c \in {hub.parked["state_root"], hub.primary} : c # NoCall /\ IsRoot(c)}

\* For another kind the parked waiter hides the primary one.
KindWaiter(k) ==
    IF hub.parked[k] # NoCall THEN hub.parked[k]
    ELSE IF hub.primary # NoCall /\ Kind(hub.primary) = k THEN hub.primary
    ELSE NoCall

-----------------------------------------------------------------------------
(* A call: _wait_peer_response and request_peer_state_root around it.      *)

Finish(c, r, m) ==
    call' = [call EXCEPT ![c] = [pc |-> "done", req |-> r, retry |-> FALSE, result |-> m]]

Wait(c, r, retry) ==
    /\ call' = [call EXCEPT ![c] = [pc |-> "wait", req |-> r, retry |-> retry, result |-> Nothing]]
    /\ fut' = [fut EXCEPT ![c] = Pending]

\* A send that is refused (queue full), or a connection replaced meanwhile,
\* removes the waiter again.
Unsent(h, c, k) == Take(Arm(h, c, k), c, k)

\* Arm and send, starting from table h; with retry there is a second attempt.
Attempt(c, h, r, retry) ==
    \/ /\ hub' = Arm(h, c, r.kind)
       /\ Wait(c, r, retry)
    \/ /\ retry
       /\ hub' = Arm(Unsent(h, c, r.kind), c, r.kind)
       /\ Wait(c, r, FALSE)
    \/ /\ hub' = Unsent(h, c, r.kind)
       /\ Finish(c, r, Nothing)
       /\ fut' = [fut EXCEPT ![c] = Nothing]

\* request_peer_state_root takes a stashed reply before it asks.
Begin(c, r, retry) ==
    /\ call[c].pc = "idle"
    /\ r \in Asks[c]
    /\ retry => r.kind = "state_root"
    /\ IF r.kind = "state_root" /\ late # Nothing
       THEN /\ Finish(c, r, late)
            /\ late' = Nothing
            /\ UNCHANGED <<hub, fut>>
       ELSE /\ Attempt(c, hub, r, retry)
            /\ UNCHANGED late
    /\ UNCHANGED marked

\* Nothing came: a state-root call takes a stashed reply or asks again.
NoAnswer(c, h) ==
    IF IsRoot(c) /\ late # Nothing
    THEN /\ Finish(c, call[c].req, late)
         /\ late' = Nothing
         /\ hub' = h
         /\ fut' = [fut EXCEPT ![c] = Nothing]
    ELSE /\ UNCHANGED late
         /\ IF call[c].retry
            THEN Attempt(c, h, call[c].req, FALSE)
            ELSE /\ Finish(c, call[c].req, Nothing)
                 /\ hub' = h
                 /\ fut' = [fut EXCEPT ![c] = Nothing]

\* The awaiting coroutine resumes with the result of its future.
Resume(c) ==
    /\ call[c].pc = "wait"
    /\ LET h == Take(hub, c, Kind(c)) IN
       IF fut[c] # Nothing
       THEN /\ Finish(c, call[c].req, fut[c])
            /\ hub' = h
            /\ UNCHANGED <<fut, late>>
       ELSE NoAnswer(c, h)
    /\ UNCHANGED marked

\* A wait that ends while the future is still open.
WakeEarly(c) == Resume(c)

Wake(c) ==
    /\ fut[c] # Pending
    /\ Resume(c)

\* wait_for gives up, perhaps in the turn in which the future was settled.
\* A state-root call leaves a mark and sleeps for its 0.4 s of grace.
TimesOut(c) ==
    /\ call[c].pc = "wait"
    /\ LET h == Take(hub, c, Kind(c)) IN
       IF IsRoot(c)
       THEN /\ call' = [call EXCEPT ![c].pc = "grace"]
            /\ hub' = h
            /\ fut' = [fut EXCEPT ![c] = Nothing]
            /\ marked' = TRUE
            /\ UNCHANGED late
       ELSE /\ NoAnswer(c, h)
            /\ UNCHANGED marked

\* A time-out left to the hub, which only knows the waiters it holds.
TimeoutArmed(c) ==
    /\ Armed(c)
    /\ TimesOut(c)

Timeout(c) == TimesOut(c)

GraceEnd(c) ==
    /\ call[c].pc = "grace"
    /\ NoAnswer(c, hub)
    /\ UNCHANGED marked

\* The mark and the stash age.  Grace is shorter than the life of a mark.
MarkExpires ==
    /\ marked
    /\ \A c \in Calls : call[c].pc # "grace"
    /\ marked' = FALSE
    /\ UNCHANGED <<hub, call, fut, late>>

LateExpires ==
    /\ late # Nothing
    /\ late' = Nothing
    /\ UNCHANGED <<hub, call, fut, marked>>

-----------------------------------------------------------------------------
(* A message of the peer, which may send anything at any time.             *)

Stash(m) == late' = IF marked THEN m ELSE late

\* Both waiters are settled.  When nobody waits, or the waiter looked at
\* last was settled before, the reply is stashed.
ReceiveStateRoot(m) ==
    LET last == IF hub.primary \in RootWaiters THEN hub.primary
                ELSE hub.parked["state_root"] IN
    /\ m.kind = "state_root"
    /\ fut' = [c \in Calls |->
                 IF c \in RootWaiters /\ fut[c] = Pending THEN Settled(c, m) ELSE fut[c]]
    /\ IF RootWaiters = {} \/ fut[last] # Pending THEN Stash(m) ELSE UNCHANGED late
    /\ UNCHANGED <<hub, call, marked>>

\* Without a waiter, or when its future is settled, the message goes on to
\* the dispatcher and leaves the hub alone.
ReceiveOther(m) ==
    LET c == KindWaiter(m.kind) IN
    /\ m.kind # "state_root"
    /\ c # NoCall
    /\ fut[c] = Pending
    /\ fut' = [fut EXCEPT ![c] = Settled(c, m)]
    /\ UNCHANGED <<hub, call, marked, late>>

Next ==
    \/ \E c \in Calls, r \in Requests, retry \in BOOLEAN : Begin(c, r, retry)
    \/ \E c \in Calls : Wake(c)
    \/ \E c \in Calls : Timeout(c)
    \/ \E c \in Calls : GraceEnd(c)
    \/ MarkExpires
    \/ LateExpires
    \/ \E m \in Replies : ReceiveStateRoot(m)
    \/ \E m \in Replies : ReceiveOther(m)

Spec == Init /\ [][Next]_vars

\* The event loop runs timers and resumes coroutines.
FairSpec ==
    /\ Spec
    /\ \A c \in Calls : WF_vars(Timeout(c)) /\ WF_vars(Wake(c)) /\ WF_vars(GraceEnd(c))

-----------------------------------------------------------------------------
(* Properties.                                                             *)

CallStates == {"idle", "wait", "grace", "done"}

\* The hub and the calls have their shape; what a call returns is a reply or
\* nothing, never an open future (_wait_peer_response).
TypeOK ==
    /\ hub \in [primary : Calls \cup {NoCall}, parked : [Kinds -> Calls \cup {NoCall}]]
    /\ call \in [Calls -> [pc : CallStates, req : Requests \cup {Nothing},
                          retry : BOOLEAN, result : Replies \cup {Nothing}]]
    /\ fut \in [Calls -> Replies \cup {Pending, Nothing}]
    /\ marked \in BOOLEAN
    /\ late \in Replies \cup {Nothing}

\* The table holds only calls that still wait, each under its own kind and
\* in one place: neither a time-out, nor a failed send, nor a retry leaves a
\* waiter behind that would swallow the reply to a later call.
NoOrphans ==
    /\ hub.primary # NoCall => call[hub.primary].pc = "wait"
    /\ \A k \in Kinds : LET c == hub.parked[k] IN
         c # NoCall => call[c].pc = "wait" /\ Kind(c) = k /\ hub.primary # c

\* The hub settles a future only with what its call asked for, whoever else
\* waits: the kind, the blocks, and a state root of the height asked for
\* (then equal to ours) or of a lower one from a lagging peer.  Nothing is
\* said of a stashed reply, which no request is compared with.
AnswerFits ==
    \A c \in Calls :
        call[c].pc = "wait" /\ fut[c] \in Replies =>
            /\ fut[c].kind = Kind(c)
            /\ Kind(c) \in {"blocks", "block"} => fut[c].have = call[c].req.want
            /\ IsRoot(c) => /\ fut[c].have <= call[c].req.want
                            /\ fut[c].have = call[c].req.want => fut[c].same

\* A waiter leaves the table only because its own call goes on, or because
\* a call of the same kind asks, or asks again: a time-out, a clear or a reply of one call
\* never takes another call's waiter (timeout(fut=...), "cannot steal a
\* parked same-kind catch-up waiter").
MayLeave(c) ==
    \/ call'[c] # call[c]
    \/ \E d \in Calls \ {c} : /\ call[d].pc = "idle" \/ call[d].retry
                             /\ call'[d] # call[d]
                             /\ call'[d].req.kind = Kind(c)
NobodyStealsAWaiter == [][\A c \in Calls : Armed(c) /\ ~Armed(c)' => MayLeave(c)]_vars

\* Every call returns, also one whose waiter was displaced by a later arm.
EveryCallReturns ==
    \A c \in Calls : call[c].pc = "wait" ~> call[c].pc = "done"

=============================================================================
