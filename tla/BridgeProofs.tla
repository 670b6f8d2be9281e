---------------------------- MODULE BridgeProofs ----------------------------
(***************************************************************************)
(* The bridge makes no money, keeps its shape and its relayer drops no     *)
(* entry that was not dealt with, for every number of threads, locks,      *)
(* claims and faults and for all amounts.                                  *)
(***************************************************************************)
EXTENDS Bridge, FiniteSetTheorems, SequenceTheorems, WellFoundedInduction,
        TLAPS

\* The store alone: whatever a request holds in its hands when it writes, the
\* writes check for themselves what the balance depends on.
Inv ==
  /\ bal \in Nat /\ burned \in Nat
  /\ lock \in [LockHashes -> {"none", "pending", "confirmed", "refunded"}]
  /\ IsFiniteSet(credited)
  /\ Covered

LEMMA AmountFacts ==
  /\ Funds \in Nat /\ Amount \in Nat /\ Net \in Nat /\ Burn \in Nat /\ Credit \in Nat
  /\ Net + Burn <= Amount
  BY BridgeAssumption

LEMMA PendingFinite ==
  /\ IsFiniteSet(Pending) /\ Cardinality(Pending) \in Nat
  /\ IsFiniteSet(Pending') /\ Cardinality(Pending') \in Nat
<1>1. Pending \in SUBSET LockHashes /\ Pending' \in SUBSET LockHashes
  BY DEF Pending
<1>2. IsFiniteSet(Pending) /\ IsFiniteSet(Pending')
  BY <1>1, BridgeAssumption, FS_Subset
<1> QED
  BY <1>2, FS_CardinalityType

\* Net goes with every pending lock.
LEMMA Multiples ==
  ASSUME NEW a \in Nat, NEW n \in Nat, NEW k \in Nat
  PROVE  /\ a * n \in Nat /\ a * (n + 1) = a * n + a
         /\ k <= n => a * k <= a * n
<1>1. a * n \in Nat /\ a * (n + 1) = a * n + a
  OBVIOUS
<1>2. ASSUME k <= n PROVE a * k <= a * n
  <2>1. n - k \in Nat /\ a * (n - k) \in Nat /\ a * n = a * k + a * (n - k)
    BY <1>2
  <2>2. a * k \in Nat
    OBVIOUS
  <2> QED
    BY <2>1, <2>2
<1> QED
  BY <1>1, <1>2

LEMMA QuietStore ==
  ASSUME Inv, UNCHANGED <<bal, burned, lock, credited>>
  PROVE  Inv'
  BY DEF Inv, Covered, Pending

LEMMA DebitStep ==
  ASSUME Inv, NEW t, DebitAndCreateLock(t)
  PROVE  Inv'
<1>1. CASE bal >= Amount
  <2>1. /\ bal' = bal - Amount /\ burned' = burned + Burn /\ credited' = credited
        /\ lock' = [lock EXCEPT ![th[t].id] = "pending"]
    BY <1>1 DEF DebitAndCreateLock
  <2>2. /\ bal' \in Nat /\ burned' \in Nat /\ IsFiniteSet(credited')
        /\ lock' \in [LockHashes -> {"none", "pending", "confirmed", "refunded"}]
    <3>1. bal' \in Nat /\ burned' \in Nat
      BY <1>1, <2>1, AmountFacts DEF Inv
    <3>2. IsFiniteSet(credited')
      BY <2>1 DEF Inv
    <3>3. lock' \in [LockHashes -> {"none", "pending", "confirmed", "refunded"}]
      BY <2>1 DEF Inv
    <3> QED
      BY <3>1, <3>2, <3>3
  <2>3. Pending' \subseteq Pending \cup {th[t].id}
    BY <2>1 DEF Inv, Pending
  <2>4. Cardinality(Pending') <= Cardinality(Pending) + 1
    <3>1. /\ IsFiniteSet(Pending \cup {th[t].id})
          /\ Cardinality(Pending \cup {th[t].id}) <= Cardinality(Pending) + 1
      BY PendingFinite, FS_AddElement
    <3>2. Cardinality(Pending') <= Cardinality(Pending \cup {th[t].id})
      BY <2>3, <3>1, FS_Subset
    <3>3. Cardinality(Pending \cup {th[t].id}) \in Nat
      BY <3>1, FS_CardinalityType
    <3> QED
      BY <3>1, <3>2, <3>3, PendingFinite
  <2>5. Net * Cardinality(Pending') <= Net * Cardinality(Pending) + Net
    <3>1. Cardinality(Pending) + 1 \in Nat
      BY PendingFinite
    <3>2. /\ Net * Cardinality(Pending') <= Net * (Cardinality(Pending) + 1)
          /\ Net * (Cardinality(Pending) + 1) = Net * Cardinality(Pending) + Net
      BY <2>4, <3>1, PendingFinite, AmountFacts, Multiples
    <3> QED
      BY <3>2
  <2>6. Covered'
    <3> DEFINE x == Net * Cardinality(Pending)
               y == Net * Cardinality(Pending')
               z == Credit * Cardinality(credited)
    <3>1. x \in Nat /\ y \in Nat /\ z \in Nat
      BY PendingFinite, AmountFacts, Multiples, FS_CardinalityType DEF Inv
    <3>2. bal + burned + x <= Funds + z /\ y <= x + Net
      BY <2>5 DEF Inv, Covered
    <3>3. bal' + burned' + y <= Funds + z
      <4> HIDE DEF x, y, z
      <4> QED
        BY <1>1, <2>1, <3>1, <3>2, AmountFacts DEF Inv
    <3> QED
      BY <2>1, <3>3 DEF Covered
  <2> QED
    BY <2>2, <2>6 DEF Inv
<1>2. CASE ~(bal >= Amount)
  BY <1>2, QuietStore DEF DebitAndCreateLock
<1> QED
  BY <1>1, <1>2

\* A lock that is no longer pending, refunded or not.
LEMMA LessPending ==
  ASSUME Inv, Pending' \subseteq Pending
  PROVE  /\ Net * Cardinality(Pending') <= Net * Cardinality(Pending)
         /\ Net * Cardinality(Pending') \in Nat /\ Net * Cardinality(Pending) \in Nat
<1>1. Cardinality(Pending') <= Cardinality(Pending)
  BY PendingFinite, FS_Subset
<1> QED
  BY <1>1, PendingFinite, AmountFacts, Multiples

LEMMA RefundStep ==
  ASSUME Inv, Refund
  PROVE  Inv'
<1>1. PICK h \in LockHashes : /\ lock[h] = "pending"
                              /\ lock' = [lock EXCEPT ![h] = "refunded"]
                              /\ bal' = bal + Net
  BY DEF Refund
<1>2. Pending' = Pending \ {h} /\ h \in Pending
  BY <1>1 DEF Inv, Pending
<1>3. Cardinality(Pending) = Cardinality(Pending') + 1
  BY <1>2, PendingFinite, FS_RemoveElement
<1>4. Net * Cardinality(Pending) = Net * Cardinality(Pending') + Net
  BY <1>3, PendingFinite, AmountFacts, Multiples
<1>5. UNCHANGED <<burned, credited>>
  BY DEF Refund
<1>6. Covered'
  <2> DEFINE x == Net * Cardinality(Pending)
             y == Net * Cardinality(Pending')
             z == Credit * Cardinality(credited)
  <2>1. x \in Nat /\ y \in Nat /\ z \in Nat
    BY PendingFinite, AmountFacts, Multiples, FS_CardinalityType DEF Inv
  <2>2. bal + burned + x <= Funds + z /\ x = y + Net
    BY <1>4 DEF Inv, Covered
  <2>3. bal' + burned + y <= Funds + z
    <3> HIDE DEF x, y, z
    <3> QED
      BY <1>1, <2>1, <2>2, AmountFacts DEF Inv
  <2> QED
    BY <1>5, <2>3 DEF Covered
<1>7. /\ bal' \in Nat /\ burned' \in Nat /\ IsFiniteSet(credited')
      /\ lock' \in [LockHashes -> {"none", "pending", "confirmed", "refunded"}]
  BY <1>1, <1>5, AmountFacts DEF Inv
<1> QED
  BY <1>6, <1>7 DEF Inv

LEMMA ConfirmedFacts ==
  ASSUME Inv, NEW h, Confirmed(h)
  PROVE  /\ lock' \in [LockHashes -> {"none", "pending", "confirmed", "refunded"}]
         /\ Pending' \subseteq Pending
  BY DEF Inv, Confirmed, Pending

LEMMA ClaimStep ==
  ASSUME Inv, NEW t, ClaimAndCredit(t)
  PROVE  Inv'
<1> DEFINE key == Key(th[t].id, th[t].l1)
<1>1. CASE key \in credited
  BY <1>1, QuietStore DEF ClaimAndCredit, store
<1>2. CASE key \notin credited
  <2>1. /\ credited' = credited \cup {key} /\ bal' = bal + Credit
        /\ Confirmed(th[t].id) /\ UNCHANGED burned
    BY <1>2 DEF ClaimAndCredit
  <2>2. /\ IsFiniteSet(credited') /\ Cardinality(credited') = Cardinality(credited) + 1
        /\ Cardinality(credited) \in Nat
    BY <1>2, <2>1, FS_AddElement, FS_CardinalityType DEF Inv
  <2>3. Credit * Cardinality(credited') = Credit * Cardinality(credited) + Credit
    BY <2>2, AmountFacts, Multiples
  <2>4. Covered'
    <3> DEFINE x == Net * Cardinality(Pending)
               y == Net * Cardinality(Pending')
               z == Credit * Cardinality(credited)
    <3>1. x \in Nat /\ y \in Nat /\ z \in Nat /\ y <= x
      BY <2>1, <2>2, ConfirmedFacts, LessPending, AmountFacts, Multiples
    <3>2. bal + burned + x <= Funds + z
      BY DEF Inv, Covered
    <3>3. bal' + burned' + y <= Funds + (z + Credit)
      <4> HIDE DEF x, y, z
      <4> QED
        BY <2>1, <3>1, <3>2, AmountFacts DEF Inv
    <3> QED
      BY <2>3, <3>3 DEF Covered
  <2> QED
    BY <2>1, <2>2, <2>4, ConfirmedFacts, AmountFacts DEF Inv
<1> QED
  BY <1>1, <1>2

LEMMA ConfirmStep ==
  ASSUME Inv, NEW t, ConfirmBridgeLock(t)
  PROVE  Inv'
<1>1. Confirmed(th[t].id) /\ UNCHANGED <<bal, burned, credited>>
  BY DEF ConfirmBridgeLock
<1>2. Covered'
  <2> DEFINE x == Net * Cardinality(Pending)
             y == Net * Cardinality(Pending')
             z == Credit * Cardinality(credited)
  <2>1. x \in Nat /\ y \in Nat /\ z \in Nat /\ y <= x
    BY <1>1, ConfirmedFacts, LessPending, AmountFacts, Multiples, FS_CardinalityType DEF Inv
  <2>2. bal + burned + x <= Funds + z
    BY DEF Inv, Covered
  <2>3. bal + burned + y <= Funds + z
    <3> HIDE DEF x, y, z
    <3> QED
      BY <2>1, <2>2, AmountFacts DEF Inv
  <2> QED
    BY <1>1, <2>3 DEF Covered
<1> QED
  BY <1>1, <1>2, ConfirmedFacts DEF Inv

LEMMA InvInit == Init => Inv
<1> SUFFICES ASSUME Init PROVE Inv
  OBVIOUS
<1>1. Pending = {} /\ Cardinality(Pending) = 0 /\ Cardinality(credited) = 0 /\ IsFiniteSet(credited)
  BY FS_EmptySet DEF Init, Pending
<1>2. Covered
  BY <1>1, AmountFacts DEF Init, Covered
<1> QED
  BY <1>1, <1>2, AmountFacts DEF Init, Inv

LEMMA InvStep == Inv /\ [Next]_vars => Inv'
<1> SUFFICES ASSUME Inv, [Next]_vars PROVE Inv'
  OBVIOUS
<1>1. ASSUME NEW t \in Threads, LockAndBridge(t) \/ ConfirmIncoming(t) \/ ConfirmLock(t) \/ L1Register(t)
      PROVE  Inv'
  BY <1>1, QuietStore DEF LockAndBridge, ConfirmIncoming, ConfirmLock, L1Register, store
<1>2. ASSUME NEW t \in Threads, Steps(t) PROVE Inv'
  <2>1. CASE LoadL1Queue(t) \/ SaveL1Queue(t) \/ RustFails(t) \/ RustOk(t)
    BY <2>1, QuietStore DEF LoadL1Queue, SaveL1Queue, RustFails, RustOk, store
  <2> QED
    BY <1>2, <2>1, DebitStep, ClaimStep, ConfirmStep DEF Steps
<1>3. CASE Cycle \/ L1Mines \/ OraclePostFails \/ Crash \/ UNCHANGED vars
  <2>1. UNCHANGED store
    BY <1>3 DEF Cycle, FetchL1Queue, KeepUnconfirmed, OraclePost, ReadAnswer, PersistL1Queue,
                L1Mines, OraclePostFails, Crash, vars
  <2> QED
    BY <2>1, QuietStore DEF store
<1> QED
  BY <1>1, <1>2, <1>3, RefundStep DEF Next

-----------------------------------------------------------------------------
(* The shape of the state.  The file is only ever written from what a      *)
(* request or the relayer holds, so their records are typed with it.       *)

\* A nonempty set of naturals has a least element.
LEMMA LeastNat ==
  ASSUME NEW T \in SUBSET Nat, T # {}
  PROVE  \E x \in T : \A y \in T : x <= y
<1> DEFINE R == OpToRel(<, Nat)
<1>1. IsWellFoundedOn(R, Nat)
  BY NatLessThanWellFounded
<1>2. \A y \in Nat, x \in Nat : y < x => <<y, x>> \in R
  BY DEF OpToRel
<1> HIDE DEF R
<1>3. PICK x \in T : \A y \in T : ~ (<<y, x>> \in R)
  BY <1>1, WFMin
<1>4. ASSUME NEW y \in T PROVE x <= y
  <2>1. x \in Nat /\ y \in Nat /\ ~ (<<y, x>> \in R)
    BY <1>3
  <2>2. ~ (y < x)
    BY <1>2, <2>1
  <2> QED
    BY <2>1, <2>2
<1> QED
  BY <1>4

\* The j-th of a finite set of naturals.
LEMMA NthExists ==
  ASSUME NEW n \in Nat, NEW K \in SUBSET (1 .. n), NEW j \in 1 .. Cardinality(K)
  PROVE  \E i \in K : Cardinality({k \in K : k <= i}) = j
<1> DEFINE Upto(i) == {k \in K : k <= i}
           T == {i \in Nat : Cardinality(Upto(i)) >= j}
<1>0. \A k \in K : k \in Nat /\ k >= 1 /\ k <= n
  OBVIOUS
<1>1. IsFiniteSet(K) /\ Cardinality(K) \in Nat /\ j \in Nat /\ j >= 1
  <2>1. IsFiniteSet(1 .. n)
    BY FS_Interval
  <2>2. IsFiniteSet(K) /\ Cardinality(K) \in Nat
    BY <2>1, FS_Subset, FS_CardinalityType
  <2> QED
    BY <2>2
<1>2. ASSUME NEW i PROVE IsFiniteSet(Upto(i)) /\ Cardinality(Upto(i)) \in Nat
  <2>1. Upto(i) \in SUBSET K
    OBVIOUS
  <2> HIDE DEF Upto
  <2> QED
    BY <1>1, <2>1, FS_Subset, FS_CardinalityType
<1>3. n \in T
  <2>1. Upto(n) = K
    BY <1>0
  <2> QED
    BY <1>1, <2>1
<1>4. PICK i \in T : \A y \in T : i <= y
  <2>1. T \in SUBSET Nat /\ T # {}
    BY <1>3
  <2> HIDE DEF T
  <2> QED
    BY <2>1, LeastNat
<1>5. i # 0
  <2>1. Upto(0) = {}
    <3>1. \A k \in K : ~ (k <= 0)
      BY <1>0
    <3> QED
      BY <3>1
  <2>2. Cardinality(Upto(0)) = 0
    BY <2>1, FS_EmptySet
  <2>3. i = 0 => Cardinality(Upto(0)) >= j
    BY <1>4
  <2> QED
    BY <1>1, <2>2, <2>3
<1>6. i - 1 \in Nat /\ Cardinality(Upto(i - 1)) < j
  <2>1. i \in Nat /\ i - 1 \in Nat /\ ~ (i <= i - 1)
    BY <1>4, <1>5
  <2>2. i - 1 \notin T
    BY <1>4, <2>1
  <2>3. ~ (Cardinality(Upto(i - 1)) >= j)
    BY <2>1, <2>2
  <2>4. Cardinality(Upto(i - 1)) \in Nat
    BY <1>2
  <2> HIDE DEF Upto
  <2> QED
    BY <1>1, <2>1, <2>3, <2>4
<1>7. i \in K
  <2>1. ASSUME i \notin K PROVE FALSE
    <3>1. \A k \in K : k <= i <=> k <= i - 1
      BY <1>0, <1>4, <1>6, <2>1
    <3>3. Upto(i) = Upto(i - 1)
      BY <3>1
    <3>2. Cardinality(Upto(i)) >= j
      BY <1>4
    <3> HIDE DEF Upto
    <3> QED
      BY <1>1, <1>2, <1>6, <3>2, <3>3
  <2> QED
    BY <2>1
<1>8. Cardinality(Upto(i)) = Cardinality(Upto(i - 1)) + 1
  <2>0. /\ \A k \in K : k <= i <=> (k <= i - 1 \/ k = i)
        /\ i <= i /\ ~ (i <= i - 1)
    BY <1>0, <1>4, <1>6
  <2>1. Upto(i) = Upto(i - 1) \cup {i} /\ i \notin Upto(i - 1)
    BY <1>7, <2>0
  <2> HIDE DEF Upto
  <2> QED
    BY <1>2, <2>1, FS_AddElement
<1>9. Cardinality(Upto(i)) = j
  <2>1. Cardinality(Upto(i)) >= j
    BY <1>4
  <2> HIDE DEF Upto
  <2> QED
    BY <1>1, <1>2, <1>6, <1>8, <2>1
<1> QED
  BY <1>7, <1>9

\* What a save keeps of a queue is a queue of the same entries.
LEMMA WithoutType ==
  ASSUME NEW S, NEW s \in Seq(S), NEW drop
  PROVE  Without(s, drop) \in Seq(S)
<1> DEFINE kept == {i \in DOMAIN s : s[i] \notin drop}
           Nth(j) == CHOOSE i \in kept : Cardinality({k \in kept : k <= i}) = j
<1>1. Len(s) \in Nat /\ DOMAIN s = 1 .. Len(s) /\ s \in [1 .. Len(s) -> S]
  BY LenProperties
<1>2. kept \in SUBSET (1 .. Len(s))
  BY <1>1
<1>3. Cardinality(kept) \in Nat
  <2> HIDE DEF kept
  <2>1. IsFiniteSet(1 .. Len(s))
    BY <1>1, FS_Interval
  <2> QED
    BY <1>2, <2>1, FS_Subset, FS_CardinalityType
<1>4. ASSUME NEW j \in 1 .. Cardinality(kept) PROVE s[Nth(j)] \in S
  <2>1. \E i \in kept : Cardinality({k \in kept : k <= i}) = j
    <3> HIDE DEF kept
    <3> QED
      BY <1>1, <1>2, NthExists
  <2>2. Nth(j) \in kept
    <3> HIDE DEF kept
    <3> QED
      BY <2>1
  <2> QED
    BY <1>1, <1>2, <2>2
<1>5. Without(s, drop) = [j \in 1 .. Cardinality(kept) |-> s[Nth(j)]]
  BY DEF Without
<1>6. Without(s, drop) \in [1 .. Cardinality(kept) -> S]
  <2> HIDE DEF kept, Nth
  <2> QED
    BY <1>4, <1>5
<1> HIDE DEF kept
<1> QED
  BY <1>3, <1>6, SeqDef

LEMMA NewestType ==
  ASSUME NEW S, NEW s \in Seq(S), NEW e \in S
  PROVE  Newest(Append(s, e)) \in Seq(S)
<1>1. Append(s, e) \in Seq(S) /\ Append(s, e) # <<>>
  BY AppendProperties
<1>2. Tail(Append(s, e)) \in Seq(S)
  BY <1>1, HeadTailProperties
<1> QED
  BY <1>1, <1>2 DEF Newest

AnyRequest ==
  [pc : {"idle", "load", "save", "rust", "write"},
   op : {"none", "lock", "incoming", "confirm", "register_in", "register_out"},
   id : Hashes \cup {NoL1}, l1 : Hashes \cup {NoL1}, copy : Queues,
   asker : {"caller", "relayer"}]

\* What a request names fits what it is about to write with it.
Fits(r) ==
  /\ r.op \in {"lock", "confirm", "register_out"} => r.id \in LockHashes
  /\ r.op \in {"incoming", "register_in"} =>
      /\ r.id \in Hashes
      /\ r.l1 # NoL1 => [id |-> r.id, l1 |-> r.l1] \in Entries
  /\ r.pc \in {"load", "save"} => r.op \notin {"none", "confirm"} /\ r.l1 # NoL1

Requests == {r \in AnyRequest : Fits(r)}

Relayers ==
  [pc : {"idle", "walk", "wait"}, seen : Queues, todo : Queues, rest : Queues,
   answer : {"none", "yes", "no"}]

Typed ==
  /\ TypeOK
  /\ th \in [Threads -> Requests]
  /\ relayer \in Relayers

LEMMA EmptyQueue == NoQueue \in Queues /\ Free \in Requests /\ Asleep \in Relayers
<1>1. NoQueue \in Queues
  BY EmptySeq DEF NoQueue, Queues
<1> HIDE DEF Queues, NoQueue
<1>2. Free \in Requests
  BY <1>1 DEF Free, Request, Requests, AnyRequest, Fits
<1>3. Asleep \in Relayers
  BY <1>1 DEF Asleep, Relayers
<1> QED
  BY <1>1, <1>2, <1>3

\* The parts of TypeOK that the records of the requests and the relayer give.
LEMMA TypedParts ==
  ASSUME mode \in Modes, bal \in Nat, burned \in Nat,
         lock \in [LockHashes -> {"none", "pending", "confirmed", "refunded"}],
         credited \subseteq Hashes, settled \subseteq LockHashes, queue \in Queues,
         mined \subseteq L1Hashes, th \in [Threads -> Requests], relayer \in Relayers
  PROVE  Typed
<1>1. ASSUME NEW t \in Threads
      PROVE  /\ th[t].pc \in {"idle", "load", "save", "rust", "write"}
             /\ th[t].op \in {"none", "lock", "incoming", "confirm",
                               "register_in", "register_out"}
             /\ th[t].copy \in Queues
  BY DEF Requests, AnyRequest
<1>2. /\ {relayer.seen, relayer.todo, relayer.rest} \subseteq Queues
      /\ relayer.answer \in {"none", "yes", "no"}
  BY DEF Relayers
<1> QED
  BY <1>1, <1>2 DEF Typed, TypeOK

\* The same of the next state.
LEMMA TypedNext ==
  ASSUME mode' \in Modes, bal' \in Nat, burned' \in Nat,
         lock' \in [LockHashes -> {"none", "pending", "confirmed", "refunded"}],
         credited' \subseteq Hashes, settled' \subseteq LockHashes, queue' \in Queues,
         mined' \subseteq L1Hashes, th' \in [Threads -> Requests], relayer' \in Relayers
  PROVE  Typed'
<1>1. ASSUME NEW t \in Threads
      PROVE  /\ th'[t].pc \in {"idle", "load", "save", "rust", "write"}
             /\ th'[t].op \in {"none", "lock", "incoming", "confirm",
                               "register_in", "register_out"}
             /\ th'[t].copy \in Queues
  BY DEF Requests, AnyRequest
<1>2. /\ {relayer'.seen, relayer'.todo, relayer'.rest} \subseteq Queues
      /\ relayer'.answer \in {"none", "yes", "no"}
  BY DEF Relayers
<1> QED
  BY <1>1, <1>2 DEF Typed, TypeOK

LEMMA EndTyped ==
  ASSUME Typed, NEW t \in Threads, NEW a \in {"yes", "no"}, End(t, a)
  PROVE  th' \in [Threads -> Requests] /\ relayer' \in Relayers
<1>1. th' \in [Threads -> Requests]
  BY EmptyQueue DEF End, Typed
<1>2. relayer' \in Relayers
  BY DEF End, Typed, Relayers
<1> QED
  BY <1>1, <1>2

\* A thread takes what a handler did not answer at once.
LEMMA BeginTyped ==
  ASSUME Typed, NEW t \in Threads, NEW r, Begin(t, r),
         r.pc \notin {"yes", "no"} => r \in Requests
  PROVE  th' \in [Threads -> Requests]
  BY DEF Begin, Typed

LEMMA EntryFacts ==
  ASSUME NEW c \in Claims
  PROVE  /\ c.id \in Hashes /\ c.l1 \in Hashes \cup {NoL1}
         /\ c.l1 # NoL1 => [id |-> c.id, l1 |-> c.l1] \in Entries
  BY BridgeAssumption DEF Hashes, Entries

LEMMA IncomingTyped ==
  ASSUME NEW c \in Claims, NEW l1 \in {c.l1, NoL1}, NEW asker \in {"caller", "relayer"},
         Incoming(c.id, l1, asker).pc \notin {"yes", "no"}
  PROVE  Incoming(c.id, l1, asker) \in Requests
<1> DEFINE r == Incoming(c.id, l1, asker)
<1>1. /\ r.pc \in {"yes", "no", "load", "rust"}
      /\ r.pc = "load" => l1 # NoL1
      /\ r = [pc |-> r.pc, op |-> "incoming", id |-> c.id, l1 |-> l1, copy |-> NoQueue,
              asker |-> asker]
  BY DEF Incoming, Request
<1>2. r.pc \in {"load", "rust"}
  BY <1>1
<1> HIDE DEF r
<1>3. r \in AnyRequest
  <2>1. c.id \in Hashes /\ l1 \in Hashes \cup {NoL1}
    BY EntryFacts
  <2> QED
    BY <1>1, <1>2, <2>1, EmptyQueue DEF AnyRequest
<1>4. /\ r.op = "incoming" /\ r.id = c.id /\ r.l1 = l1
  BY <1>1
<1>5. Fits(r)
  BY <1>1, <1>2, <1>4, EntryFacts DEF Fits
<1> QED
  BY <1>3, <1>5 DEF Requests, r

LEMMA ConfirmationTyped ==
  ASSUME NEW h \in LockHashes, NEW named \in BOOLEAN, NEW asker \in {"caller", "relayer"},
         Confirmation(h, named, asker).pc \notin {"yes", "no"}
  PROVE  Confirmation(h, named, asker) \in Requests
<1> DEFINE r == Confirmation(h, named, asker)
<1>1. /\ r.pc \in {"no", "rust"}
      /\ r = [pc |-> r.pc, op |-> "confirm", id |-> h, l1 |-> NoL1, copy |-> NoQueue,
              asker |-> asker]
  BY DEF Confirmation, Request
<1>2. r.pc = "rust"
  BY <1>1
<1> HIDE DEF r
<1>3. h \in Hashes
  BY BridgeAssumption DEF Hashes
<1>4. r \in AnyRequest
  BY <1>1, <1>2, <1>3, EmptyQueue DEF AnyRequest
<1>5. r.op = "confirm" /\ r.id = h
  BY <1>1
<1>6. Fits(r)
  BY <1>2, <1>5 DEF Fits
<1> QED
  BY <1>4, <1>6 DEF Requests, r

LEMMA EnqueuedType ==
  ASSUME NEW q \in Queues, NEW op, NEW id, NEW l1,
         op \in {"lock", "register_out"} => id \in LockHashes,
         op \notin {"lock", "register_out"} => [id |-> id, l1 |-> l1] \in Entries
  PROVE  Enqueued(q, op, id, l1) \in Queues
<1>1. q.out \in Seq(LockHashes) /\ q.in \in Seq(Entries)
  BY DEF Queues
<1>2. CASE op \in {"lock", "register_out"}
  <2>1. Newest(Append(Without(q.out, {id}), id)) \in Seq(LockHashes)
    BY <1>1, <1>2, WithoutType, NewestType
  <2> QED
    BY <1>1, <1>2, <2>1 DEF Enqueued, Queues
<1>3. CASE op \notin {"lock", "register_out"}
  <2> DEFINE drop == {c \in Entries : c.l1 = l1 \/ c.id = id}
  <2>1. Without(q.in, drop) \in Seq(Entries)
    <3> HIDE DEF drop
    <3> QED
      BY <1>1, WithoutType
  <2>2. Newest(Append(Without(q.in, drop), [id |-> id, l1 |-> l1])) \in Seq(Entries)
    <3> HIDE DEF drop
    <3> QED
      BY <1>3, <2>1, NewestType
  <2> QED
    BY <1>1, <1>3, <2>2 DEF Enqueued, Queues
<1> QED
  BY <1>2, <1>3

LEMMA TypedInit == Init => Typed
<1> SUFFICES ASSUME Init PROVE Typed
  OBVIOUS
<1>1. th \in [Threads -> Requests] /\ relayer \in Relayers /\ queue \in Queues
  BY EmptyQueue DEF Init
<1>2. /\ mode \in Modes /\ bal \in Nat /\ burned \in Nat
      /\ lock \in [LockHashes -> {"none", "pending", "confirmed", "refunded"}]
      /\ credited \subseteq Hashes /\ settled \subseteq LockHashes /\ mined \subseteq L1Hashes
  BY AmountFacts DEF Init
<1> QED
  BY <1>1, <1>2, TypedParts

\* Steps that leave the store, the queue and L1 alone.
LEMMA TypedQuiet ==
  ASSUME Typed, UNCHANGED <<mode, store, queue, mined>>,
         th' \in [Threads -> Requests], relayer' \in Relayers
  PROVE  Typed'
  BY TypedNext DEF Typed, TypeOK, store

LEMMA TypedCalls ==
  ASSUME Typed, NEW t \in Threads,
         LockAndBridge(t) \/ ConfirmIncoming(t) \/ ConfirmLock(t) \/ L1Register(t)
  PROVE  Typed'
<1>0. UNCHANGED <<mode, store, queue, mined>> /\ relayer' = relayer /\ relayer \in Relayers
  BY DEF LockAndBridge, ConfirmIncoming, ConfirmLock, L1Register, Typed
<1>1. CASE LockAndBridge(t)
  <2>1. PICK h \in LockHashes :
          Begin(t, Request("rust", "lock", h, IF h \in Minted THEN NoL1 ELSE h, "caller"))
    BY <1>1 DEF LockAndBridge
  <2> DEFINE r == Request("rust", "lock", h, IF h \in Minted THEN NoL1 ELSE h, "caller")
  <2>2. h \in Hashes
    BY BridgeAssumption DEF Hashes
  <2>3. r \in AnyRequest /\ Fits(r)
    BY <2>2, EmptyQueue DEF Request, AnyRequest, Fits
  <2>4. r \in Requests
    BY <2>3 DEF Requests
  <2>5. th' \in [Threads -> Requests]
    BY <2>1, <2>4, BeginTyped
  <2> QED
    BY <1>0, <2>5, TypedQuiet
<1>2. CASE ConfirmIncoming(t)
  <2>1. PICK c \in Claims : Begin(t, Incoming(c.id, c.l1, "caller"))
    BY <1>2 DEF ConfirmIncoming
  <2>2. Incoming(c.id, c.l1, "caller").pc \notin {"yes", "no"}
          => Incoming(c.id, c.l1, "caller") \in Requests
    BY IncomingTyped
  <2>3. th' \in [Threads -> Requests]
    BY <2>1, <2>2, BeginTyped
  <2> QED
    BY <1>0, <2>3, TypedQuiet
<1>3. CASE ConfirmLock(t)
  <2>1. PICK h \in LockHashes, named \in BOOLEAN : Begin(t, Confirmation(h, named, "caller"))
    BY <1>3 DEF ConfirmLock
  <2>2. Confirmation(h, named, "caller").pc \notin {"yes", "no"}
          => Confirmation(h, named, "caller") \in Requests
    BY ConfirmationTyped
  <2>3. th' \in [Threads -> Requests]
    BY <2>1, <2>2, BeginTyped
  <2> QED
    BY <1>0, <2>3, TypedQuiet
<1>4. CASE L1Register(t)
  <2>1. PICK r \in Requests : th' = [th EXCEPT ![t] = r]
    <3>1. ASSUME NEW c \in Entries
          PROVE  Request("load", "register_in", c.id, c.l1, "caller") \in Requests
      <4> DEFINE r == Request("load", "register_in", c.id, c.l1, "caller")
      <4>1. c \in Claims /\ c.l1 # NoL1
        BY DEF Entries
      <4>2. r \in AnyRequest
        BY <4>1, EntryFacts, EmptyQueue DEF Request, AnyRequest
      <4>3. Fits(r)
        BY <4>1, EntryFacts DEF Request, Fits
      <4> QED
        BY <4>2, <4>3 DEF Requests
    <3>2. ASSUME NEW h \in LockHashes
          PROVE  Request("load", "register_out", h, h, "caller") \in Requests
      <4> DEFINE r == Request("load", "register_out", h, h, "caller")
      <4>1. h \in Hashes /\ h # NoL1
        BY BridgeAssumption DEF Hashes
      <4>2. r \in AnyRequest
        BY <4>1, EmptyQueue DEF Request, AnyRequest
      <4>3. Fits(r)
        BY <4>1 DEF Request, Fits
      <4> QED
        BY <4>2, <4>3 DEF Requests
    <3> QED
      BY <1>4, <3>1, <3>2 DEF L1Register
  <2>2. th' \in [Threads -> Requests]
    BY <2>1 DEF Typed
  <2> QED
    BY <1>0, <2>2, TypedQuiet
<1> QED
  BY <1>1, <1>2, <1>3, <1>4

\* A thread's request moves on, and may take the queue with it.
LEMMA MovedTyped ==
  ASSUME NEW r \in Requests, NEW pc \in {"load", "save", "rust", "write"}, NEW q \in Queues,
         pc \in {"load", "save"} => r.op \notin {"none", "confirm"} /\ r.l1 # NoL1
  PROVE  /\ [r EXCEPT !.pc = pc] \in Requests
         /\ [r EXCEPT !.pc = pc, !.copy = q] \in Requests
<1>1. r \in AnyRequest /\ Fits(r)
  BY DEF Requests
<1>2. [r EXCEPT !.pc = pc] \in AnyRequest /\ [r EXCEPT !.pc = pc, !.copy = q] \in AnyRequest
  BY <1>1 DEF AnyRequest
<1>3. Fits([r EXCEPT !.pc = pc]) /\ Fits([r EXCEPT !.pc = pc, !.copy = q])
  BY <1>1 DEF AnyRequest, Fits
<1> QED
  BY <1>2, <1>3 DEF Requests

LEMMA TypedSteps ==
  ASSUME Typed, NEW t \in Threads, Steps(t)
  PROVE  Typed'
<1>0. /\ th[t] \in Requests /\ th[t] \in AnyRequest /\ Fits(th[t])
      /\ th \in [Threads -> Requests] /\ relayer \in Relayers /\ queue \in Queues
      /\ mode \in Modes /\ bal \in Nat /\ burned \in Nat
      /\ lock \in [LockHashes -> {"none", "pending", "confirmed", "refunded"}]
      /\ credited \subseteq Hashes /\ settled \subseteq LockHashes /\ mined \subseteq L1Hashes
  BY DEF Typed, TypeOK, Requests
<1>1. CASE LoadL1Queue(t)
  <2>1. /\ th' = [th EXCEPT ![t] = [th[t] EXCEPT !.pc = "save", !.copy = queue]]
        /\ th[t].pc = "load" /\ UNCHANGED <<mode, store, queue, mined, relayer>>
    BY <1>1 DEF LoadL1Queue
  <2>2. [th[t] EXCEPT !.pc = "save", !.copy = queue] \in Requests
    <3>1. th[t].op \notin {"none", "confirm"} /\ th[t].l1 # NoL1
      BY <1>0, <2>1 DEF Fits
    <3> QED
      BY <1>0, <3>1, MovedTyped
  <2>3. th' \in [Threads -> Requests]
    BY <1>0, <2>1, <2>2
  <2> QED
    BY <1>0, <2>1, <2>3, TypedQuiet
<1>2. CASE SaveL1Queue(t)
  <2>0. th[t].pc = "save" /\ th[t].op \notin {"none", "confirm"} /\ th[t].l1 # NoL1
    BY <1>0, <1>2 DEF SaveL1Queue, Fits
  <2>1. th[t].op \in {"lock", "incoming", "register_in", "register_out"} /\ th[t].copy \in Queues
    BY <1>0, <2>0 DEF AnyRequest
  <2>2. queue' \in Queues
    <3>1. /\ th[t].op \in {"lock", "register_out"} => th[t].id \in LockHashes
          /\ th[t].op \notin {"lock", "register_out"}
                => [id |-> th[t].id, l1 |-> th[t].l1] \in Entries
      BY <1>0, <2>0, <2>1 DEF Fits
    <3>2. Enqueued(th[t].copy, th[t].op, th[t].id, th[t].l1) \in Queues
      BY <2>1, <3>1, EnqueuedType
    <3> QED
      BY <1>2, <3>2 DEF SaveL1Queue
  <2>3. th' \in [Threads -> Requests] /\ relayer' \in Relayers
    <3>1. CASE th[t].op = "incoming"
      <4>1. /\ th' = [th EXCEPT ![t] = [th[t] EXCEPT !.pc = "rust", !.copy = NoQueue]]
            /\ relayer' = relayer
        BY <1>2, <3>1 DEF SaveL1Queue
      <4>2. [th[t] EXCEPT !.pc = "rust", !.copy = NoQueue] \in Requests
        BY <1>0, MovedTyped, EmptyQueue
      <4> QED
        BY <1>0, <4>1, <4>2
    <3>2. CASE th[t].op # "incoming"
      BY <1>2, <3>2, EndTyped DEF SaveL1Queue
    <3> QED
      BY <3>1, <3>2
  <2>4. UNCHANGED <<mode, bal, burned, lock, credited, settled, mined>>
    BY <1>2 DEF SaveL1Queue, store
  <2> QED
    BY <1>0, <2>2, <2>3, <2>4, TypedNext
<1>3. CASE RustFails(t)
  <2>1. th' \in [Threads -> Requests] /\ relayer' \in Relayers
    BY <1>3, EndTyped DEF RustFails
  <2> QED
    BY <1>3, <2>1, TypedQuiet DEF RustFails
<1>4. CASE RustOk(t)
  <2>1. th' = [th EXCEPT ![t] = [th[t] EXCEPT !.pc = "write"]]
    BY <1>4 DEF RustOk, Go
  <2>2. [th[t] EXCEPT !.pc = "write"] \in Requests
    BY <1>0, MovedTyped
  <2>3. th' \in [Threads -> Requests]
    BY <1>0, <2>1, <2>2
  <2> QED
    BY <1>0, <1>4, <2>3, TypedQuiet DEF RustOk
<1>5. CASE DebitAndCreateLock(t)
  <2>1. bal' \in Nat /\ burned' \in Nat
    BY <1>0, <1>5, AmountFacts DEF DebitAndCreateLock
  <2>2. lock' \in [LockHashes -> {"none", "pending", "confirmed", "refunded"}]
    BY <1>0, <1>5 DEF DebitAndCreateLock
  <2>3. th' \in [Threads -> Requests] /\ relayer' \in Relayers
    <3>1. CASE Go(t, "load") /\ UNCHANGED relayer /\ th[t].l1 # NoL1
      <4>1. th' = [th EXCEPT ![t] = [th[t] EXCEPT !.pc = "load"]]
        BY <3>1 DEF Go
      <4>2. [th[t] EXCEPT !.pc = "load"] \in Requests
        <5>1. th[t].op = "lock" /\ th[t].l1 # NoL1
          BY <1>5, <3>1 DEF DebitAndCreateLock
        <5> QED
          BY <1>0, <5>1, MovedTyped
      <4> QED
        BY <1>0, <3>1, <4>1, <4>2
    <3>2. CASE End(t, "yes") \/ End(t, "no")
      BY <3>2, EndTyped
    <3> QED
      BY <1>5, <3>1, <3>2 DEF DebitAndCreateLock
  <2>4. UNCHANGED <<mode, credited, settled, queue, mined>>
    BY <1>5 DEF DebitAndCreateLock
  <2> QED
    BY <1>0, <2>1, <2>2, <2>3, <2>4, TypedNext
<1>6. CASE ClaimAndCredit(t)
  <2> DEFINE key == Key(th[t].id, th[t].l1)
  <2>1. key \in Hashes
    <3>1. th[t].id \in Hashes /\ th[t].l1 \in Hashes \cup {NoL1}
      BY <1>0, <1>6 DEF ClaimAndCredit, Fits, AnyRequest
    <3> QED
      BY <3>1 DEF Key
  <2>2. credited' \subseteq Hashes /\ bal' \in Nat /\ burned' = burned /\ settled' = settled
    BY <1>0, <1>6, <2>1, AmountFacts DEF ClaimAndCredit, store
  <2>3. lock' \in [LockHashes -> {"none", "pending", "confirmed", "refunded"}]
    BY <1>0, <1>6 DEF ClaimAndCredit, Confirmed, store
  <2>4. th' \in [Threads -> Requests] /\ relayer' \in Relayers
    BY <1>6, EndTyped DEF ClaimAndCredit
  <2>5. UNCHANGED <<mode, queue, mined>>
    BY <1>6 DEF ClaimAndCredit
  <2> QED
    BY <1>0, <2>2, <2>3, <2>4, <2>5, TypedNext
<1>7. CASE ConfirmBridgeLock(t)
  <2>1. settled' \subseteq LockHashes
    BY <1>0, <1>7 DEF ConfirmBridgeLock, Fits
  <2>2. lock' \in [LockHashes -> {"none", "pending", "confirmed", "refunded"}]
    BY <1>0, <1>7 DEF ConfirmBridgeLock, Confirmed
  <2>3. th' \in [Threads -> Requests] /\ relayer' \in Relayers
    BY <1>7, EndTyped DEF ConfirmBridgeLock
  <2>4. UNCHANGED <<mode, bal, burned, credited, queue, mined>>
    BY <1>7 DEF ConfirmBridgeLock
  <2> QED
    BY <1>0, <2>1, <2>2, <2>3, <2>4, TypedNext
<1> QED
  BY <1>1, <1>2, <1>3, <1>4, <1>5, <1>6, <1>7 DEF Steps

-----------------------------------------------------------------------------
(* The relayer drops nothing.                                              *)

\* The entry the relayer has posted was dealt with.
HeadDone ==
  IF relayer.todo.out # <<>>
  THEN Head(relayer.todo.out) \in settled
  ELSE Head(relayer.todo.in).id \in credited

\* The request r asks for the entry the relayer waits for.
AsksForHead(r) ==
  IF relayer.todo.out # <<>>
  THEN r.op = "confirm" /\ r.id = Head(relayer.todo.out)
  ELSE r.op = "incoming" /\ r.id = Head(relayer.todo.in).id /\ r.l1 = NoL1

\* What the relayer hears is about the entry at the head of its list: one
\* request at most runs for it, that one names the head, and no other
\* request writes the answer.
HeardRight ==
  /\ relayer.pc = "wait" => relayer.todo # NoQueue
  /\ relayer.pc = "wait" /\ relayer.answer = "yes" => HeadDone
  /\ \A t \in Threads : th[t].asker = "relayer" =>
      /\ relayer.pc = "wait" /\ relayer.answer = "none" /\ AsksForHead(th[t])
      /\ \A u \in Threads : th[u].asker = "relayer" => u = t

RelayInv == Typed /\ HeardRight /\ NothingDropped

\* Moving past the head of a list loses nothing but the head.
LEMMA PastHead ==
  ASSUME NEW S, NEW s \in Seq(S), s # <<>>, NEW k \in Seq(S)
  PROVE  /\ ToSet(s) \subseteq ToSet(Tail(s)) \cup {Head(s)}
         /\ ToSet(Append(k, Head(s))) = ToSet(k) \cup {Head(s)}
         /\ Head(s) \in S /\ Tail(s) \in Seq(S) /\ Append(k, Head(s)) \in Seq(S)
<1>1. /\ Len(s) \in Nat /\ DOMAIN s = 1 .. Len(s) /\ Len(k) \in Nat /\ DOMAIN k = 1 .. Len(k)
  BY LenProperties
<1>2. /\ Head(s) \in S /\ Tail(s) \in Seq(S) /\ Len(Tail(s)) = Len(s) - 1
      /\ \A i \in 1 .. Len(Tail(s)) : Tail(s)[i] = s[i + 1]
  BY HeadTailProperties
<1>3. DOMAIN Tail(s) = 1 .. Len(s) - 1
  BY <1>2, LenProperties
<1>4. ASSUME NEW i \in 1 .. Len(s) PROVE s[i] \in ToSet(Tail(s)) \cup {Head(s)}
  <2>1. CASE i = 1
    BY <2>1
  <2>2. CASE i # 1
    <3>1. i - 1 \in 1 .. Len(s) - 1 /\ (i - 1) + 1 = i
      BY <1>1, <2>2
    <3>2. Tail(s)[i - 1] = s[i]
      BY <1>2, <3>1
    <3> QED
      BY <1>3, <3>1, <3>2 DEF ToSet
  <2> QED
    BY <2>1, <2>2
<1>5. ToSet(s) \subseteq ToSet(Tail(s)) \cup {Head(s)}
  BY <1>1, <1>4 DEF ToSet
<1>6. /\ Append(k, Head(s)) \in Seq(S)
      /\ Len(Append(k, Head(s))) = Len(k) + 1
      /\ \A i \in 1 .. Len(k) : Append(k, Head(s))[i] = k[i]
      /\ Append(k, Head(s))[Len(k) + 1] = Head(s)
  BY <1>2, AppendProperties
<1>7. ToSet(Append(k, Head(s))) = ToSet(k) \cup {Head(s)}
  <2> DEFINE a == Append(k, Head(s))
  <2>1. DOMAIN a = 1 .. Len(k) + 1
    BY <1>6, LenProperties
  <2>2. \A i \in 1 .. Len(k) + 1 : i \in 1 .. Len(k) \/ i = Len(k) + 1
    BY <1>1
  <2>3. \A i \in 1 .. Len(k) : i \in 1 .. Len(k) + 1
    BY <1>1
  <2>4. Len(k) + 1 \in 1 .. Len(k) + 1
    BY <1>1
  <2> HIDE DEF a
  <2>5. /\ \A i \in 1 .. Len(k) : a[i] = k[i]
        /\ a[Len(k) + 1] = Head(s)
    BY <1>6 DEF a
  <2>6. ToSet(a) \subseteq ToSet(k) \cup {Head(s)}
    BY <1>1, <2>1, <2>2, <2>5 DEF ToSet
  <2>7. ToSet(k) \cup {Head(s)} \subseteq ToSet(a)
    <3>1. Head(s) \in ToSet(a)
      BY <2>1, <2>4, <2>5 DEF ToSet
    <3>2. ASSUME NEW i \in 1 .. Len(k) PROVE k[i] \in ToSet(a)
      BY <2>1, <2>3, <2>5 DEF ToSet
    <3> QED
      BY <1>1, <3>1, <3>2 DEF ToSet
  <2>8. ToSet(a) = ToSet(k) \cup {Head(s)}
    BY <2>6, <2>7
  <2> QED
    BY <2>8 DEF a
<1> QED
  BY <1>2, <1>5, <1>6, <1>7

\* The lists of a relayer that has something to do.
LEMMA TodoFacts ==
  ASSUME Typed, relayer.todo # NoQueue
  PROVE  /\ relayer.todo.out \in Seq(LockHashes) /\ relayer.todo.in \in Seq(Entries)
         /\ relayer.rest.out \in Seq(LockHashes) /\ relayer.rest.in \in Seq(Entries)
         /\ relayer.todo.out = <<>> => relayer.todo.in # <<>>
         /\ relayer.todo \in [out : Seq(LockHashes), in : Seq(Entries)]
         /\ relayer.rest \in [out : Seq(LockHashes), in : Seq(Entries)]
  BY DEF Typed, Relayers, Queues, NoQueue

LEMMA PastTyped ==
  ASSUME Typed, relayer.todo # NoQueue, NEW keep \in BOOLEAN
  PROVE  /\ Past(keep) \in Relayers
         /\ Past(keep).pc = "walk" /\ Past(keep).answer = "none"
         /\ Past(keep).seen = relayer.seen
<1>0. relayer \in Relayers
  BY DEF Typed
<1>1. CASE relayer.todo.out # <<>>
  <2>1. Tail(relayer.todo.out) \in Seq(LockHashes)
        /\ Append(relayer.rest.out, Head(relayer.todo.out)) \in Seq(LockHashes)
    BY <1>1, TodoFacts, PastHead
  <2>2. /\ PastOut(keep) \in Relayers /\ PastOut(keep).pc = "walk"
        /\ PastOut(keep).answer = "none" /\ PastOut(keep).seen = relayer.seen
    BY <1>0, <2>1, TodoFacts DEF PastOut, Relayers, Queues
  <2> QED
    BY <1>1, <2>2 DEF Past
<1>2. CASE relayer.todo.out = <<>>
  <2>1. /\ Tail(relayer.todo.in) \in Seq(Entries)
        /\ Append(relayer.rest.in, Head(relayer.todo.in)) \in Seq(Entries)
    BY <1>2, TodoFacts, PastHead
  <2>2. /\ PastIn(keep) \in Relayers /\ PastIn(keep).pc = "walk"
        /\ PastIn(keep).answer = "none" /\ PastIn(keep).seen = relayer.seen
    BY <1>0, <2>1, TodoFacts DEF PastIn, Relayers, Queues
  <2> QED
    BY <1>2, <2>2 DEF Past
<1> QED
  BY <1>1, <1>2

\* Going past an entry that is kept, or that was dealt with.
LEMMA PastSafe ==
  ASSUME Typed, NothingDropped, relayer.pc # "idle", relayer.todo # NoQueue,
         NEW keep \in BOOLEAN, keep \/ HeadDone,
         relayer' = Past(keep), settled' = settled, credited' = credited
  PROVE  NothingDropped'
<1>0. relayer \in Relayers
  BY DEF Typed
<1>1. /\ \A h \in ToSet(relayer.seen.out) :
          h \in ToSet(relayer.todo.out) \cup ToSet(relayer.rest.out) \cup settled
      /\ \A c \in ToSet(relayer.seen.in) :
          \/ c \in ToSet(relayer.todo.in) \cup ToSet(relayer.rest.in)
          \/ c.id \in credited
  BY DEF NothingDropped
<1>2. relayer'.seen = relayer.seen
  BY PastTyped
<1>3. CASE relayer.todo.out # <<>>
  <2> DEFINE h0 == Head(relayer.todo.out)
  <2>1. /\ ToSet(relayer.todo.out) \subseteq ToSet(Tail(relayer.todo.out)) \cup {h0}
        /\ ToSet(Append(relayer.rest.out, h0)) = ToSet(relayer.rest.out) \cup {h0}
    BY <1>3, TodoFacts, PastHead
  <2>2. /\ relayer'.todo.out = Tail(relayer.todo.out) /\ relayer'.todo.in = relayer.todo.in
        /\ relayer'.rest.out = IF keep THEN Append(relayer.rest.out, h0) ELSE relayer.rest.out
        /\ relayer'.rest.in = relayer.rest.in
    BY <1>0, <1>3, TodoFacts DEF Past, PastOut, Relayers
  <2>3. keep \/ h0 \in settled
    BY <1>3 DEF HeadDone
  <2> HIDE DEF h0
  <2>4. \A h \in ToSet(relayer.seen.out) :
          h \in ToSet(relayer'.todo.out) \cup ToSet(relayer'.rest.out) \cup settled
    BY <1>1, <2>1, <2>2, <2>3
  <2> QED
    BY <1>1, <1>2, <2>2, <2>4 DEF NothingDropped
<1>4. CASE relayer.todo.out = <<>>
  <2> DEFINE c0 == Head(relayer.todo.in)
  <2>1. /\ ToSet(relayer.todo.in) \subseteq ToSet(Tail(relayer.todo.in)) \cup {c0}
        /\ ToSet(Append(relayer.rest.in, c0)) = ToSet(relayer.rest.in) \cup {c0}
    BY <1>4, TodoFacts, PastHead
  <2>2. /\ relayer'.todo.in = Tail(relayer.todo.in) /\ relayer'.todo.out = relayer.todo.out
        /\ relayer'.rest.in = IF keep THEN Append(relayer.rest.in, c0) ELSE relayer.rest.in
        /\ relayer'.rest.out = relayer.rest.out
    BY <1>0, <1>4, TodoFacts DEF Past, PastIn, Relayers
  <2>3. keep \/ c0.id \in credited
    BY <1>4 DEF HeadDone
  <2> HIDE DEF c0
  <2>4. \A c \in ToSet(relayer.seen.in) :
          \/ c \in ToSet(relayer'.todo.in) \cup ToSet(relayer'.rest.in)
          \/ c.id \in credited
    BY <1>1, <2>1, <2>2, <2>3
  <2> QED
    BY <1>1, <1>2, <2>2, <2>4 DEF NothingDropped
<1> QED
  BY <1>3, <1>4

\* What the relayer posts: a confirmation of the lock or the report at the
\* head of its list, with the id alone.
Posted ==
  IF relayer.todo.out # <<>>
  THEN Confirmation(Head(relayer.todo.out), FALSE, "relayer")
  ELSE Incoming(Head(relayer.todo.in).id, NoL1, "relayer")

LEMMA PostedFacts ==
  ASSUME Typed, relayer.todo # NoQueue
  PROVE  /\ Posted.pc \in {"yes", "no", "rust"}
         /\ Posted.pc = "rust" => Posted \in Requests
         /\ Posted.asker = "relayer" /\ AsksForHead(Posted)
         /\ Posted.pc = "yes" => HeadDone
<1>1. CASE relayer.todo.out # <<>>
  <2>1. Head(relayer.todo.out) \in LockHashes
    BY <1>1, TodoFacts, PastHead
  <2>2. Posted = Confirmation(Head(relayer.todo.out), FALSE, "relayer")
    BY <1>1 DEF Posted
  <2>3. /\ Posted.pc \in {"no", "rust"} /\ Posted.asker = "relayer"
        /\ Posted.op = "confirm" /\ Posted.id = Head(relayer.todo.out)
    BY <2>2 DEF Confirmation, Request
  <2>4. Posted.pc = "rust" => Posted \in Requests
    BY <2>1, <2>2, ConfirmationTyped
  <2> QED
    BY <1>1, <2>3, <2>4 DEF AsksForHead
<1>2. CASE relayer.todo.out = <<>>
  <2> DEFINE c == Head(relayer.todo.in)
  <2>1. c \in Claims
    <3>1. c \in Entries
      BY <1>2, TodoFacts, PastHead
    <3> QED
      BY <3>1 DEF Entries
  <2>2. Posted = Incoming(c.id, NoL1, "relayer")
    BY <1>2 DEF Posted
  <2>3. /\ Posted.pc \in {"yes", "no", "rust"} /\ Posted.asker = "relayer"
        /\ Posted.op = "incoming" /\ Posted.id = c.id /\ Posted.l1 = NoL1
        /\ Posted.pc = "yes" => c.id \in credited
    BY <2>2 DEF Incoming, Request, Key
  <2>4. Posted.pc = "rust" => Posted \in Requests
    BY <2>1, <2>2, IncomingTyped
  <2> QED
    BY <1>2, <2>3, <2>4 DEF AsksForHead, HeadDone
<1> QED
  BY <1>1, <1>2

\* Given up requests are requests that answer nobody.
LEMMA OrphanedTyped ==
  ASSUME Typed
  PROVE  /\ Orphaned(th) \in [Threads -> Requests]
         /\ \A t \in Threads : Orphaned(th)[t].asker = "caller"
<1>1. ASSUME NEW t \in Threads
      PROVE  [th[t] EXCEPT !.asker = "caller"] \in Requests
             /\ [th[t] EXCEPT !.asker = "caller"].asker = "caller"
  <2>1. th[t] \in AnyRequest /\ Fits(th[t])
    BY DEF Typed, Requests
  <2>2. [th[t] EXCEPT !.asker = "caller"] \in AnyRequest
        /\ [th[t] EXCEPT !.asker = "caller"].asker = "caller"
    BY <2>1 DEF AnyRequest
  <2>3. Fits([th[t] EXCEPT !.asker = "caller"])
    BY <2>1 DEF AnyRequest, Fits
  <2> QED
    BY <2>2, <2>3 DEF Requests
<1> QED
  BY <1>1 DEF Orphaned

\* The relayer's steps and the faults.  None of them writes the store.
LEMMA RelayerStep ==
  ASSUME RelayInv, Cycle \/ OraclePostFails \/ Crash
  PROVE  RelayInv'
<1>0. /\ Typed /\ HeardRight /\ NothingDropped /\ relayer \in Relayers
      /\ th \in [Threads -> Requests] /\ queue \in Queues
  BY DEF RelayInv, Typed, TypeOK
<1>1. UNCHANGED <<mode, store, mined>> /\ settled' = settled /\ credited' = credited
  BY DEF Cycle, FetchL1Queue, KeepUnconfirmed, OraclePost, ReadAnswer, PersistL1Queue,
         OraclePostFails, Crash, store
<1>2. ASSUME queue' \in Queues, th' \in [Threads -> Requests], relayer' \in Relayers
      PROVE  Typed'
  BY <1>0, <1>1, <1>2, TypedNext DEF Typed, TypeOK, store
<1>3. CASE FetchL1Queue
  <2>1. /\ relayer' = [Asleep EXCEPT !.pc = "walk", !.seen = queue, !.todo = queue]
        /\ queue' = queue /\ th' = th /\ relayer.pc = "idle"
    BY <1>3 DEF FetchL1Queue
  <2>2. /\ relayer' \in Relayers /\ relayer'.pc = "walk"
        /\ relayer'.seen = queue /\ relayer'.todo = queue
    BY <1>0, <2>1, EmptyQueue DEF Relayers, Asleep
  <2>3. HeardRight'
    BY <1>0, <2>1, <2>2 DEF HeardRight
  <2>4. NothingDropped'
    BY <2>2 DEF NothingDropped
  <2> QED
    BY <1>0, <1>2, <2>1, <2>2, <2>3, <2>4 DEF RelayInv
<1>4. CASE KeepUnconfirmed
  <2>1. /\ relayer' = Past(TRUE) /\ queue' = queue /\ th' = th
        /\ relayer.pc = "walk" /\ relayer.todo # NoQueue
    BY <1>4 DEF KeepUnconfirmed, Walking
  <2>2. relayer' \in Relayers /\ relayer'.pc = "walk"
    BY <1>0, <2>1, PastTyped
  <2>3. HeardRight'
    BY <1>0, <2>1, <2>2 DEF HeardRight
  <2>4. NothingDropped'
    BY <1>0, <1>1, <2>1, PastSafe
  <2> QED
    BY <1>0, <1>2, <2>1, <2>2, <2>3, <2>4 DEF RelayInv
<1>5. ASSUME NEW t \in Threads, OraclePost(t) PROVE RelayInv'
  <2>1. /\ relayer.pc = "walk" /\ relayer.todo # NoQueue /\ queue' = queue
        /\ Begin(t, Posted)
        /\ relayer' = [relayer EXCEPT !.pc = "wait",
                         !.answer = IF Posted.pc = "rust" THEN "none" ELSE Posted.pc]
    BY <1>5 DEF OraclePost, Walking, Posted
  <2>2. /\ Posted.pc \in {"yes", "no", "rust"}
        /\ Posted.pc = "rust" => Posted \in Requests
        /\ Posted.asker = "relayer" /\ AsksForHead(Posted)
        /\ Posted.pc = "yes" => HeadDone
    BY <1>0, <2>1, PostedFacts
  <2>3. /\ relayer' \in Relayers /\ relayer'.pc = "wait" /\ relayer'.todo = relayer.todo
        /\ relayer'.seen = relayer.seen /\ relayer'.rest = relayer.rest
        /\ relayer'.answer = IF Posted.pc = "rust" THEN "none" ELSE Posted.pc
    <3> HIDE DEF Posted
    <3> QED
      BY <1>0, <2>1, <2>2 DEF Relayers
  <2>4. /\ th' \in [Threads -> Requests]
        /\ th' = IF Posted.pc \in {"yes", "no"} THEN th ELSE [th EXCEPT ![t] = Posted]
    <3> HIDE DEF Posted
    <3>1. th' = IF Posted.pc \in {"yes", "no"} THEN th ELSE [th EXCEPT ![t] = Posted]
      BY <2>1 DEF Begin
    <3> QED
      BY <1>0, <2>2, <3>1
  <2>5. \A u \in Threads : th[u].asker # "relayer"
    BY <1>0, <2>1 DEF HeardRight
  <2>6. HeardRight'
    <3> HIDE DEF Posted
    <3>1. HeadDone' = HeadDone
      BY <1>1, <2>3 DEF HeadDone
    <3>2. AsksForHead(Posted)
      BY <2>2
    <3>3. ASSUME NEW u \in Threads, th'[u].asker = "relayer"
          PROVE  u = t /\ th'[u] = Posted /\ Posted.pc = "rust"
      BY <1>0, <2>2, <2>4, <2>5, <3>3
    <3>4. ASSUME NEW u \in Threads, th'[u].asker = "relayer"
          PROVE  AsksForHead(th[u])'
      BY <2>3, <3>2, <3>3, <3>4 DEF AsksForHead
    <3> QED
      BY <2>1, <2>2, <2>3, <3>1, <3>3, <3>4 DEF HeardRight
  <2>7. NothingDropped'
    BY <1>0, <1>1, <2>1, <2>3 DEF NothingDropped
  <2> QED
    BY <1>0, <1>2, <2>1, <2>3, <2>4, <2>6, <2>7 DEF RelayInv
<1>6. CASE ReadAnswer
  <2>1. /\ relayer' = Past(relayer.answer = "no") /\ queue' = queue /\ th' = th
        /\ relayer.pc = "wait" /\ relayer.answer # "none"
    BY <1>6 DEF ReadAnswer
  <2>2. relayer.todo # NoQueue /\ (relayer.answer = "no" \/ HeadDone)
    BY <1>0, <2>1 DEF HeardRight, Relayers
  <2>3. relayer' \in Relayers /\ relayer'.pc = "walk"
    BY <1>0, <2>1, <2>2, PastTyped
  <2>4. HeardRight'
    BY <1>0, <2>1, <2>3 DEF HeardRight
  <2>5. NothingDropped'
    BY <1>0, <1>1, <2>1, <2>2, PastSafe
  <2> QED
    BY <1>0, <1>2, <2>1, <2>3, <2>4, <2>5 DEF RelayInv
<1>7. CASE PersistL1Queue
  <2>1. /\ relayer' = Asleep /\ th' = th /\ relayer.pc = "walk" /\ queue' = relayer.rest
    BY <1>7 DEF PersistL1Queue
  <2>2. queue' \in Queues
    BY <1>0, <2>1 DEF Relayers
  <2>3. relayer' \in Relayers /\ relayer'.pc = "idle"
    BY <2>1, EmptyQueue DEF Asleep
  <2>4. HeardRight' /\ NothingDropped'
    BY <1>0, <2>1, <2>3 DEF HeardRight, NothingDropped
  <2> QED
    BY <1>0, <1>2, <2>1, <2>2, <2>3, <2>4 DEF RelayInv
<1>8. CASE OraclePostFails
  <2>1. relayer' = Asleep /\ th' = Orphaned(th) /\ queue' = queue
    BY <1>8 DEF OraclePostFails
  <2>2. relayer' \in Relayers /\ relayer'.pc = "idle"
    BY <2>1, EmptyQueue DEF Asleep
  <2>3. th' \in [Threads -> Requests] /\ \A t \in Threads : th'[t].asker = "caller"
    BY <1>0, <2>1, OrphanedTyped
  <2>4. HeardRight' /\ NothingDropped'
    BY <2>2, <2>3 DEF HeardRight, NothingDropped
  <2> QED
    BY <1>0, <1>2, <2>1, <2>2, <2>3, <2>4 DEF RelayInv
<1>9. CASE Crash
  <2>1. /\ relayer' = IF relayer.pc = "wait" THEN Asleep ELSE relayer
        /\ th' = [t \in Threads |-> Free] /\ queue' = queue
    BY <1>9 DEF Crash
  <2>2. relayer' \in Relayers /\ relayer'.pc # "wait"
    BY <1>0, <2>1, EmptyQueue DEF Asleep, Relayers
  <2>3. th' \in [Threads -> Requests] /\ \A t \in Threads : th'[t].asker = "caller"
    BY <2>1, EmptyQueue DEF Free, Request
  <2>4. HeardRight'
    BY <2>2, <2>3 DEF HeardRight
  <2>5. NothingDropped'
    BY <1>0, <1>1, <2>1 DEF NothingDropped, Asleep
  <2> QED
    BY <1>0, <1>2, <2>1, <2>2, <2>3, <2>4, <2>5 DEF RelayInv
<1> QED
  BY <1>3, <1>4, <1>5, <1>6, <1>7, <1>8, <1>9 DEF Cycle

\* Requests that answer nobody move on: the relayer still hears right, as
\* nothing that was settled or credited is taken back.
LEMMA StillHeard ==
  ASSUME RelayInv, Typed', relayer' = relayer,
         settled \subseteq settled', credited \subseteq credited',
         \A t \in Threads : th'[t].asker = "relayer" =>
            /\ th[t].asker = "relayer"
            /\ th'[t].op = th[t].op /\ th'[t].id = th[t].id /\ th'[t].l1 = th[t].l1
  PROVE  RelayInv'
<1>1. HeadDone => HeadDone'
  BY DEF HeadDone
<1>2. \A t \in Threads : th'[t].asker = "relayer" /\ AsksForHead(th[t]) => AsksForHead(th[t])'
  BY DEF AsksForHead
<1>3. HeardRight'
  BY <1>1, <1>2 DEF RelayInv, HeardRight
<1>4. NothingDropped'
  BY DEF RelayInv, NothingDropped
<1> QED
  BY <1>3, <1>4 DEF RelayInv

\* A request ends.  When it was the relayer's, its answer is about the head.
LEMMA EndHeard ==
  ASSUME RelayInv, Typed', NEW t \in Threads, NEW a \in {"yes", "no"}, End(t, a),
         settled \subseteq settled', credited \subseteq credited',
         th[t].asker = "relayer" /\ a = "yes" =>
            IF relayer.todo.out # <<>>
            THEN Head(relayer.todo.out) \in settled'
            ELSE Head(relayer.todo.in).id \in credited'
  PROVE  RelayInv'
<1>0. th \in [Threads -> Requests] /\ th' = [th EXCEPT ![t] = Free] /\ relayer \in Relayers
  BY DEF RelayInv, Typed, End
<1>1. /\ th'[t].asker = "caller"
      /\ \A u \in Threads : u # t => th'[u] = th[u]
  BY <1>0 DEF Free, Request
<1>2. CASE th[t].asker # "relayer"
  <2>1. relayer' = relayer
    BY <1>2 DEF End
  <2> QED
    BY <1>1, <2>1, StillHeard
<1>3. CASE th[t].asker = "relayer"
  <2>1. relayer' = [relayer EXCEPT !.answer = a]
    BY <1>3 DEF End
  <2>2. /\ relayer'.pc = relayer.pc /\ relayer'.todo = relayer.todo
        /\ relayer'.seen = relayer.seen /\ relayer'.rest = relayer.rest
        /\ relayer'.answer = a
    BY <1>0, <2>1 DEF Relayers
  <2>3. \A u \in Threads : th'[u].asker # "relayer"
    BY <1>1, <1>3 DEF RelayInv, HeardRight
  <2>4. HeardRight'
    BY <1>3, <2>2, <2>3 DEF RelayInv, HeardRight, HeadDone
  <2>5. NothingDropped'
    BY <2>2 DEF RelayInv, NothingDropped
  <2> QED
    BY <2>4, <2>5 DEF RelayInv
<1> QED
  BY <1>2, <1>3

LEMMA CallsHeard ==
  ASSUME RelayInv, NEW t \in Threads,
         LockAndBridge(t) \/ ConfirmIncoming(t) \/ ConfirmLock(t) \/ L1Register(t)
  PROVE  RelayInv'
<1>1. Typed'
  BY TypedCalls DEF RelayInv
<1>2. relayer' = relayer /\ settled' = settled /\ credited' = credited
  BY DEF LockAndBridge, ConfirmIncoming, ConfirmLock, L1Register, store
<1>3. th \in [Threads -> Requests]
  BY DEF RelayInv, Typed
<1>4. \E r : r.asker = "caller" /\ th' \in {th, [th EXCEPT ![t] = r]}
  <2>1. ASSUME NEW r, r.asker = "caller", Begin(t, r) \/ th' = [th EXCEPT ![t] = r]
        PROVE  \E x : x.asker = "caller" /\ th' \in {th, [th EXCEPT ![t] = x]}
    BY <2>1 DEF Begin
  <2>2. /\ \A pc, op, id, l1 : Request(pc, op, id, l1, "caller").asker = "caller"
        /\ \A id, l1 : Incoming(id, l1, "caller").asker = "caller"
        /\ \A h, named : Confirmation(h, named, "caller").asker = "caller"
    BY DEF Incoming, Confirmation, Request
  <2>3. CASE LockAndBridge(t)
    BY <2>1, <2>2, <2>3 DEF LockAndBridge
  <2>4. CASE ConfirmIncoming(t)
    BY <2>1, <2>2, <2>4 DEF ConfirmIncoming
  <2>5. CASE ConfirmLock(t)
    BY <2>1, <2>2, <2>5 DEF ConfirmLock
  <2>6. CASE L1Register(t)
    BY <2>1, <2>2, <2>6 DEF L1Register
  <2> QED
    BY <2>3, <2>4, <2>5, <2>6
<1>5. \A u \in Threads : th'[u].asker = "relayer" => th'[u] = th[u]
  BY <1>3, <1>4
<1> QED
  BY <1>1, <1>2, <1>5, StillHeard

LEMMA StepsHeard ==
  ASSUME RelayInv, NEW t \in Threads, Steps(t)
  PROVE  RelayInv'
<1>0. /\ Typed' /\ th \in [Threads -> Requests] /\ th[t] \in AnyRequest /\ Fits(th[t])
  BY TypedSteps DEF RelayInv, Typed, Requests
\* The request of the relayer, if t runs it.
<1>1. /\ th[t].asker = "relayer" => AsksForHead(th[t])
      /\ th[t].asker = "relayer" => th[t].op \in {"confirm", "incoming"}
  BY DEF RelayInv, HeardRight, AsksForHead
\* A step that only moves the request on.
<1>2. ASSUME NEW pc, NEW q, relayer' = relayer,
             settled' = settled, credited' = credited,
             th' = [th EXCEPT ![t] = [th[t] EXCEPT !.pc = pc]]
              \/ th' = [th EXCEPT ![t] = [th[t] EXCEPT !.pc = pc, !.copy = q]]
      PROVE  RelayInv'
  <2>1. /\ th'[t].asker = th[t].asker /\ th'[t].op = th[t].op
        /\ th'[t].id = th[t].id /\ th'[t].l1 = th[t].l1
        /\ \A u \in Threads : u # t => th'[u] = th[u]
    BY <1>0, <1>2 DEF AnyRequest
  <2> QED
    BY <1>0, <1>2, <2>1, StillHeard
<1>3. CASE LoadL1Queue(t) \/ RustOk(t)
  <2>1. /\ relayer' = relayer /\ settled' = settled /\ credited' = credited
        /\ \/ th' = [th EXCEPT ![t] = [th[t] EXCEPT !.pc = "write"]]
           \/ th' = [th EXCEPT ![t] = [th[t] EXCEPT !.pc = "save", !.copy = queue]]
    BY <1>3 DEF LoadL1Queue, RustOk, Go, store
  <2> QED
    BY <1>2, <2>1
<1>4. CASE SaveL1Queue(t)
  <2>1. settled' = settled /\ credited' = credited
    BY <1>4 DEF SaveL1Queue, store
  <2>2. CASE th[t].op = "incoming"
    <3>1. /\ th' = [th EXCEPT ![t] = [th[t] EXCEPT !.pc = "rust", !.copy = NoQueue]]
          /\ relayer' = relayer
      BY <1>4, <2>2 DEF SaveL1Queue
    <3> QED
      BY <1>2, <2>1, <3>1
  <2>3. CASE th[t].op # "incoming"
    <3>1. End(t, "yes") /\ th[t].op # "confirm"
      BY <1>0, <1>4, <2>3 DEF SaveL1Queue, Fits
    <3> QED
      BY <1>0, <1>1, <2>1, <2>3, <3>1, EndHeard
  <2> QED
    BY <2>2, <2>3
<1>5. CASE RustFails(t)
  BY <1>0, <1>5, EndHeard DEF RustFails, store
<1>6. CASE DebitAndCreateLock(t)
  <2>1. settled' = settled /\ credited' = credited /\ th[t].op = "lock"
    BY <1>6 DEF DebitAndCreateLock
  <2>2. CASE Go(t, "load") /\ relayer' = relayer
    BY <1>2, <2>1, <2>2 DEF Go
  <2>3. CASE End(t, "yes") \/ End(t, "no")
    BY <1>0, <1>1, <2>1, <2>3, EndHeard
  <2> QED
    BY <1>6, <2>2, <2>3 DEF DebitAndCreateLock
<1>7. CASE ClaimAndCredit(t)
  <2>1. /\ End(t, "yes") /\ settled' = settled /\ th[t].op = "incoming"
        /\ credited \subseteq credited' /\ Key(th[t].id, th[t].l1) \in credited'
    BY <1>7 DEF ClaimAndCredit, store
  <2>2. th[t].asker = "relayer" =>
          relayer.todo.out = <<>> /\ Head(relayer.todo.in).id \in credited'
    BY <1>1, <2>1 DEF AsksForHead, Key
  <2> QED
    BY <1>0, <2>1, <2>2, EndHeard
<1>8. CASE ConfirmBridgeLock(t)
  <2>1. /\ End(t, "yes") /\ credited' = credited /\ th[t].op = "confirm"
        /\ settled' = settled \cup {th[t].id}
    BY <1>8 DEF ConfirmBridgeLock
  <2>2. th[t].asker = "relayer" =>
          relayer.todo.out # <<>> /\ Head(relayer.todo.out) \in settled'
    BY <1>1, <2>1 DEF AsksForHead
  <2> QED
    BY <1>0, <2>1, <2>2, EndHeard
<1> QED
  BY <1>3, <1>4, <1>5, <1>6, <1>7, <1>8 DEF Steps

LEMMA RelayInit == Init => RelayInv
<1> SUFFICES ASSUME Init PROVE RelayInv
  OBVIOUS
<1>1. Typed
  BY TypedInit
<1>2. relayer.pc = "idle" /\ \A t \in Threads : th[t].asker = "caller"
  BY DEF Init, Asleep, Free, Request
<1>3. HeardRight /\ NothingDropped
  BY <1>2 DEF HeardRight, NothingDropped
<1> QED
  BY <1>1, <1>3 DEF RelayInv

LEMMA RelayStep == RelayInv /\ [Next]_vars => RelayInv'
<1> SUFFICES ASSUME RelayInv, [Next]_vars PROVE RelayInv'
  OBVIOUS
<1>0. Typed
  BY DEF RelayInv
<1>1. CASE Refund
  <2>1. /\ bal' \in Nat
        /\ lock' \in [LockHashes -> {"none", "pending", "confirmed", "refunded"}]
    BY <1>0, <1>1, AmountFacts DEF Refund, Typed, TypeOK
  <2>2. UNCHANGED <<mode, burned, credited, settled, queue, mined, th, relayer>>
    BY <1>1 DEF Refund
  <2>3. Typed'
    BY <1>0, <2>1, <2>2, TypedNext DEF Typed, TypeOK
  <2> QED
    BY <2>2, <2>3, StillHeard
<1>2. CASE L1Mines
  <2>1. mined' \subseteq L1Hashes
    BY <1>0, <1>2 DEF L1Mines, Typed, TypeOK
  <2>2. UNCHANGED <<mode, bal, burned, lock, credited, settled, queue, th, relayer>>
    BY <1>2 DEF L1Mines, store
  <2>3. Typed'
    BY <1>0, <2>1, <2>2, TypedNext DEF Typed, TypeOK
  <2> QED
    BY <2>2, <2>3, StillHeard
<1>3. CASE UNCHANGED vars
  <2>1. UNCHANGED <<mode, bal, burned, lock, credited, settled, queue, mined, th, relayer>>
    BY <1>3 DEF vars, store
  <2>2. Typed'
    BY <1>0, <2>1, TypedNext DEF Typed, TypeOK
  <2> QED
    BY <2>1, <2>2, StillHeard
<1> QED
  BY <1>1, <1>2, <1>3, CallsHeard, StepsHeard, RelayerStep DEF Next

\* No order of the requests' and the relayer's steps, no lost answer and no
\* restart takes the bridge's state out of its shape: in particular no pair
\* of locks overdraws the account (try_debit_satoshi), and what is saved to
\* the file is always a queue of entries somebody reported.
THEOREM BridgeTyped == Spec => []TypeOK
<1>1. Spec => []RelayInv
  BY RelayInit, RelayStep, PTL DEF Spec
<1>2. RelayInv => TypeOK
  BY DEF RelayInv, Typed
<1> QED
  BY <1>1, <1>2, PTL

\* process_l1_queue loses no entry it loaded: what it no longer keeps was
\* credited or confirmed, whatever answers were refused, lost or cut off by
\* a restart of the node.
THEOREM RelayerDropsNothing == Spec => []NothingDropped
<1>1. Spec => []RelayInv
  BY RelayInit, RelayStep, PTL DEF Spec
<1>2. RelayInv => NothingDropped
  BY DEF RelayInv
<1> QED
  BY <1>1, <1>2, PTL
-----------------------------------------------------------------------------
(* A node that knows L1 credits L1 transactions only: the request keeps the *)
(* transaction it was begun with until it writes.                           *)

Named ==
  mode # "dev" =>
    /\ credited \subseteq Sources
    /\ \A t \in Threads : th[t].op = "incoming" => th[t].l1 # NoL1

LEMMA SourceFacts ==
  ASSUME NEW r \in Requests, r.op = "incoming", r.l1 # NoL1
  PROVE  r.l1 \in Sources
<1>1. [id |-> r.id, l1 |-> r.l1] \in Entries
  BY DEF Requests, Fits
<1> QED
  BY <1>1 DEF Sources

\* Requests keep their transaction, and those that begin name one.
LEMMA StillNamed ==
  ASSUME Named, mode' = mode, credited' = credited,
         \A t \in Threads : th'[t].op = "incoming" /\ mode # "dev" =>
            \/ th'[t].l1 # NoL1
            \/ th[t].op = "incoming" /\ th'[t].l1 = th[t].l1
  PROVE  Named'
  BY DEF Named, Sources, Entries

\* A report that names no transaction gets past its handler only in dev mode.
LEMMA IncomingNamed ==
  ASSUME NEW id, NEW l1, NEW asker, mode # "dev",
         Incoming(id, l1, asker).pc \notin {"yes", "no"}
  PROVE  Incoming(id, l1, asker).l1 # NoL1
  BY DEF Incoming, Request

LEMMA CallsNamed ==
  ASSUME Named, Typed, NEW t \in Threads,
         LockAndBridge(t) \/ ConfirmIncoming(t) \/ ConfirmLock(t) \/ L1Register(t)
  PROVE  Named'
<1>0. th \in [Threads -> Requests] /\ mode' = mode /\ credited' = credited
  BY DEF Typed, LockAndBridge, ConfirmIncoming, ConfirmLock, L1Register, store
<1>1. \E r : /\ r.op = "incoming" /\ mode # "dev" => r.l1 # NoL1
             /\ th' \in {th, [th EXCEPT ![t] = r]}
  <2>1. CASE LockAndBridge(t)
    <3>1. PICK h \in LockHashes :
            Begin(t, Request("rust", "lock", h, IF h \in Minted THEN NoL1 ELSE h, "caller"))
      BY <2>1 DEF LockAndBridge
    <3>2. Request("rust", "lock", h, IF h \in Minted THEN NoL1 ELSE h, "caller").op = "lock"
      BY DEF Request
    <3> QED
      BY <3>1, <3>2 DEF Begin
  <2>2. CASE ConfirmIncoming(t)
    <3>1. PICK c \in Claims : Begin(t, Incoming(c.id, c.l1, "caller"))
      BY <2>2 DEF ConfirmIncoming
    <3> DEFINE r == Incoming(c.id, c.l1, "caller")
    <3>2. CASE r.pc \in {"yes", "no"}
      <4>1. th' = th
        BY <3>1, <3>2 DEF Begin
      <4>2. Request("idle", "none", NoL1, NoL1, "caller").op = "none"
        BY DEF Request
      <4> QED
        BY <4>1, <4>2
    <3>3. CASE r.pc \notin {"yes", "no"}
      <4>1. th' = [th EXCEPT ![t] = r]
        BY <3>1, <3>3 DEF Begin
      <4>2. mode # "dev" => r.l1 # NoL1
        BY <3>3, IncomingNamed
      <4> HIDE DEF r
      <4> QED
        BY <4>1, <4>2
    <3> QED
      BY <3>2, <3>3
  <2>3. CASE ConfirmLock(t)
    <3>1. PICK h \in LockHashes, named \in BOOLEAN :
            Begin(t, Confirmation(h, named, "caller"))
      BY <2>3 DEF ConfirmLock
    <3>2. Confirmation(h, named, "caller").op = "confirm"
      BY DEF Confirmation, Request
    <3> QED
      BY <3>1, <3>2 DEF Begin
  <2>4. CASE L1Register(t)
    <3>1. \A c \in Entries : Request("load", "register_in", c.id, c.l1, "caller").op = "register_in"
      BY DEF Request
    <3>2. \A h \in LockHashes : Request("load", "register_out", h, h, "caller").op = "register_out"
      BY DEF Request
    <3> QED
      BY <2>4, <3>1, <3>2 DEF L1Register
  <2> QED
    BY <2>1, <2>2, <2>3, <2>4
<1>2. \A u \in Threads : th'[u].op = "incoming" /\ mode # "dev" =>
         th'[u].l1 # NoL1 \/ th'[u] = th[u]
  BY <1>0, <1>1
<1> QED
  BY <1>0, <1>2, StillNamed

LEMMA StepsNamed ==
  ASSUME Named, Typed, NEW t \in Threads, Steps(t)
  PROVE  Named'
<1>0. th \in [Threads -> Requests] /\ th[t] \in AnyRequest /\ mode' = mode
  BY DEF Typed, Requests, Steps, LoadL1Queue, SaveL1Queue, RustFails, RustOk,
         DebitAndCreateLock, ClaimAndCredit, ConfirmBridgeLock
<1>1. \A u \in Threads : th'[u].op = "incoming" =>
         th[u].op = "incoming" /\ th'[u].l1 = th[u].l1
  <2>1. ASSUME NEW pc, NEW q,
               \/ th' = [th EXCEPT ![t] = [th[t] EXCEPT !.pc = pc]]
               \/ th' = [th EXCEPT ![t] = [th[t] EXCEPT !.pc = pc, !.copy = q]]
               \/ th' = [th EXCEPT ![t] = Free]
        PROVE  \A u \in Threads : th'[u].op = "incoming" =>
                  th[u].op = "incoming" /\ th'[u].l1 = th[u].l1
    <3>1. \A u \in Threads : u # t => th'[u] = th[u]
      BY <1>0, <2>1
    <3>2. th'[t].op = "incoming" => th[t].op = "incoming" /\ th'[t].l1 = th[t].l1
      <4>1. CASE th' = [th EXCEPT ![t] = [th[t] EXCEPT !.pc = pc]]
        BY <1>0, <4>1 DEF AnyRequest
      <4>2. CASE th' = [th EXCEPT ![t] = [th[t] EXCEPT !.pc = pc, !.copy = q]]
        BY <1>0, <4>2 DEF AnyRequest
      <4>3. CASE th' = [th EXCEPT ![t] = Free]
        <5>1. th'[t] = Free /\ Free.op = "none"
          BY <1>0, <4>3 DEF Free, Request
        <5> QED
          BY <5>1
      <4> QED
        BY <2>1, <4>1, <4>2, <4>3
    <3> QED
      BY <3>1, <3>2
  <2>2. CASE LoadL1Queue(t)
    <3>1. th' = [th EXCEPT ![t] = [th[t] EXCEPT !.pc = "save", !.copy = queue]]
      BY <2>2 DEF LoadL1Queue
    <3> QED
      BY <2>1, <3>1
  <2>3. CASE RustOk(t)
    BY <2>1, <2>3 DEF RustOk, Go
  <2>4. CASE SaveL1Queue(t)
    <3>1. \/ th' = [th EXCEPT ![t] = [th[t] EXCEPT !.pc = "rust", !.copy = NoQueue]]
          \/ th' = [th EXCEPT ![t] = Free]
      BY <2>4 DEF SaveL1Queue, End
    <3> QED
      BY <2>1, <3>1
  <2>5. CASE RustFails(t) \/ ClaimAndCredit(t) \/ ConfirmBridgeLock(t)
    BY <2>1, <2>5 DEF RustFails, ClaimAndCredit, ConfirmBridgeLock, End
  <2>6. CASE DebitAndCreateLock(t)
    BY <2>1, <2>6 DEF DebitAndCreateLock, Go, End
  <2> QED
    BY <2>2, <2>3, <2>4, <2>5, <2>6 DEF Steps
<1>2. CASE credited' = credited
  BY <1>0, <1>1, <1>2, StillNamed
<1>3. CASE credited' # credited
  <2>1. ClaimAndCredit(t)
    BY <1>3 DEF Steps, LoadL1Queue, SaveL1Queue, RustFails, RustOk,
                DebitAndCreateLock, ConfirmBridgeLock, store
  <2>2. /\ th[t].op = "incoming"
        /\ credited' = credited \cup {Key(th[t].id, th[t].l1)}
    BY <1>3, <2>1 DEF ClaimAndCredit, store
  <2>3. mode # "dev" => credited' \subseteq Sources
    <3> SUFFICES ASSUME mode # "dev" PROVE credited' \subseteq Sources
      OBVIOUS
    <3>1. credited \subseteq Sources /\ th[t].l1 # NoL1
      BY <2>2 DEF Named
    <3>2. th[t].l1 \in Sources
      BY <1>0, <2>2, <3>1, SourceFacts
    <3> QED
      BY <2>2, <3>1, <3>2 DEF Key
  <2>4. mode' # "dev" => \A u \in Threads : th'[u].op = "incoming" => th'[u].l1 # NoL1
    BY <1>0, <1>1 DEF Named
  <2> QED
    BY <1>0, <2>3, <2>4 DEF Named, Sources, Entries
<1> QED
  BY <1>2, <1>3

LEMMA CycleNamed ==
  ASSUME Named, Typed, Cycle \/ OraclePostFails \/ Crash \/ Refund \/ L1Mines \/ UNCHANGED vars
  PROVE  Named'
<1>0. th \in [Threads -> Requests] /\ mode' = mode /\ credited' = credited
  BY DEF Typed, Cycle, FetchL1Queue, KeepUnconfirmed, OraclePost, ReadAnswer, PersistL1Queue,
         OraclePostFails, Crash, Refund, L1Mines, vars, store
<1>1. CASE th' = th
  BY <1>0, <1>1, StillNamed
<1>2. CASE OraclePostFails \/ Crash
  <2>1. \/ th' = [t \in Threads |-> [th[t] EXCEPT !.asker = "caller"]]
        \/ th' = [t \in Threads |-> Free]
    BY <1>2 DEF OraclePostFails, Crash, Orphaned
  <2>2. \A t \in Threads : /\ [th[t] EXCEPT !.asker = "caller"].op = th[t].op
                           /\ [th[t] EXCEPT !.asker = "caller"].l1 = th[t].l1
    BY <1>0 DEF Requests, AnyRequest
  <2>3. Free.op = "none"
    BY DEF Free, Request
  <2>4. \A t \in Threads : th'[t].op = "incoming" =>
          th[t].op = "incoming" /\ th'[t].l1 = th[t].l1
    BY <2>1, <2>2, <2>3
  <2> QED
    BY <1>0, <2>4, StillNamed
<1>3. ASSUME NEW t \in Threads, OraclePost(t) PROVE Named'
  <2>1. Begin(t, Posted)
    BY <1>3 DEF OraclePost, Posted
  <2>2. mode # "dev" /\ Posted.pc \notin {"yes", "no"} /\ Posted.op = "incoming"
          => Posted.l1 # NoL1
    <3>1. CASE relayer.todo.out # <<>>
      BY <3>1 DEF Posted, Confirmation, Request
    <3>2. CASE relayer.todo.out = <<>>
      BY <3>2, IncomingNamed DEF Posted
    <3> QED
      BY <3>1, <3>2
  <2> HIDE DEF Posted
  <2>3. th' \in {th, [th EXCEPT ![t] = Posted]} /\ (th' = th \/ Posted.pc \notin {"yes", "no"})
    BY <2>1 DEF Begin
  <2>4. \A u \in Threads : th'[u].op = "incoming" /\ mode # "dev" =>
          th'[u].l1 # NoL1 \/ th'[u] = th[u]
    BY <1>0, <2>2, <2>3
  <2> QED
    BY <1>0, <2>4, StillNamed
<1>4. th' = th \/ OraclePostFails \/ Crash \/ \E t \in Threads : OraclePost(t)
  BY DEF Cycle, FetchL1Queue, KeepUnconfirmed, ReadAnswer, PersistL1Queue, Refund, L1Mines, vars
<1> QED
  BY <1>1, <1>2, <1>3, <1>4

LEMMA NamedInit == Init => Named
<1>1. Free.op = "none"
  BY DEF Free, Request
<1> QED
  BY <1>1 DEF Init, Named

LEMMA NamedStep == Named /\ Typed /\ [Next]_vars => Named'
  BY CallsNamed, StepsNamed, CycleNamed DEF Next

\* The writes of RocksStore (debit_and_create_bridge_lock, the refund and
\* claim_and_credit_bridge_event) make no money in any order, whatever the
\* requests saw before and wherever the node dies; and a node that knows L1
\* credits an L1 transaction once, however often and in whatever words the
\* transfer is reported.
THEOREM NoMoneyMade == Spec => []Backed
<1>1. Spec => []Inv
  BY InvInit, InvStep, PTL DEF Spec
<1>2. Spec => []RelayInv
  BY RelayInit, RelayStep, PTL DEF Spec
<1>3. RelayInv => Typed
  BY DEF RelayInv
<1>4. Spec => []Named
  BY <1>2, <1>3, NamedInit, NamedStep, PTL DEF Spec
<1>5. Inv /\ Named => Backed
  BY DEF Inv, Named, Backed
<1> QED
  BY <1>1, <1>4, <1>5, PTL
=============================================================================
