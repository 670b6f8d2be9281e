-------------------------- MODULE MiningLoopProofs --------------------------
(***************************************************************************)
(* What the pool, the mining loop and the apply worker keep, for all       *)
(* transactions, accounts and peers, all sizes of the pool and of a block, *)
(* and any number of forges that fail, time out or land late.              *)
(***************************************************************************)
EXTENDS MiningLoop, FiniteSetTheorems, SequenceTheorems, TLAPS

Jobs == [txs : Seq(Txs), waited : BOOLEAN]
Results == [ok : BOOLEAN, txs : Seq(Txs)]
Loops == [pc : {"idle", "gate", "wait"}, since : Nat, txs : Seq(Txs), asked : SUBSET Peers]

PoolOK ==
  /\ arriving \subseteq Txs /\ pool \subseteq Txs /\ arriving \cap pool = {}
  /\ IsFiniteSet(pool) /\ Cardinality(pool) <= PoolMax

ChainOK == ledger \in Seq(Txs) /\ nonce \in [Senders -> Nat]

JobsOK ==
  /\ queued \in Seq(Seq(Txs)) /\ Len(queued) <= 1
  /\ running \in Seq(Jobs) /\ Len(running) <= 1
  /\ answer \in Seq(Results) /\ Len(answer) <= 1

LoopOK == loop \in Loops /\ Len(loop.txs) <= Limit /\ hold \in BOOLEAN

MeshOK ==
  /\ up \subseteq Peers
  /\ missing \in [Peers -> 0 .. MaxLag] /\ stale \in [Peers -> 0 .. MaxLag]

\* The shape of the state with that of its records.
Shape == PoolOK /\ ChainOK /\ JobsOK /\ LoopOK /\ MeshOK

\* The loop has one job under way or one answer to read, and nothing in the
\* queue while it does not wait.  At the gate at most one block, of a forge it
\* gave up before, can land or has landed since it read the height.
Turns ==
  /\ queued # <<>> => loop.pc = "wait" /\ answer = <<>>
  /\ running # <<>> /\ running[1].waited => loop.pc = "wait" /\ answer = <<>> /\ queued = <<>>
  /\ answer # <<>> => loop.pc = "wait"
  /\ loop.pc = "gate" =>
      /\ loop.since + Len(running) <= 1
      /\ Cardinality(loop.asked) >= MinMesh

\* The answer the loop reads is about a block on the chain.
AnswerKnown ==
  answer # <<>> /\ answer[1].ok => ToSet(answer[1].txs) \subseteq ToSet(ledger)

\* The blocks that may still land before the loop asks the peers again: those
\* in the queue and at the worker and the empty one it tries after a failure.
Budget ==
  Len(queued) + Len(running) + (IF loop.pc = "wait" /\ loop.txs # <<>> THEN 1 ELSE 0)

Near == {p \in Peers : missing[p] + Budget <= 3}

\* Enough peers are near when all of them have landed.  The hub never
\* believes of a peer that it has more than it has.
KeepUp ==
  /\ Cardinality(Near) >= MinMesh
  /\ \A p \in Peers : missing[p] <= stale[p]

\* In a list of transactions an account's nonces go up.
GoesUp(s) == \A i, j \in DOMAIN s : i < j /\ s[i].from = s[j].from => s[i].nonce < s[j].nonce

\* The nonce of an account is the number of its transactions on the chain, and
\* the lists in the queue and at the worker go up.
Numbered ==
  /\ NoncesInOrder
  /\ \A a \in Senders : nonce[a] = Count(ledger, Len(ledger), a)
  /\ \A i \in DOMAIN queued : GoesUp(queued[i])
  /\ \A i \in DOMAIN running : GoesUp(running[i].txs)

MiningInv == Shape /\ Turns /\ AnswerKnown /\ KeepUp /\ Numbered

-----------------------------------------------------------------------------
(* Lists of transactions.                                                  *)

LEMMA TxFacts == \A tx \in Txs : tx.from \in Senders /\ tx.nonce \in Nat
  BY MiningAssumption

LEMMA CountType ==
  ASSUME NEW s, NEW i \in Int, NEW a
  PROVE  /\ IsFiniteSet(Places(s, i, a))
         /\ Count(s, i, a) \in Nat
<1>1. Places(s, i, a) \in SUBSET (1 .. i)
  BY DEF Places
<1>2. IsFiniteSet(1 .. i)
  BY FS_Interval
<1>3. IsFiniteSet(Places(s, i, a))
  BY <1>1, <1>2, FS_Subset
<1> QED
  BY <1>3, FS_CardinalityType DEF Count

\* The nonces of a list that was packed go up.
LEMMA InTurnGoesUp ==
  ASSUME nonce \in [Senders -> Nat], NEW s \in Seq(Txs), NEW C, InTurn(s, C)
  PROVE  GoesUp(s)
<1>0. Len(s) \in Nat /\ DOMAIN s = 1 .. Len(s) /\ \A i \in DOMAIN s : s[i] \in Txs
  BY LenProperties
<1> SUFFICES ASSUME NEW i \in DOMAIN s, NEW j \in DOMAIN s, i < j, s[i].from = s[j].from
             PROVE  s[i].nonce < s[j].nonce
  BY DEF GoesUp
<1> DEFINE a == s[i].from
           S == Places(s, i - 1, a)
           T == Places(s, j - 1, a)
<1>1. i \in Int /\ j \in Int /\ i >= 1 /\ i - 1 \in Int /\ j - 1 \in Int
  BY <1>0
<1>2. i \notin S /\ S \cup {i} \in SUBSET T
  <2>1. i \notin 1 .. (i - 1) /\ i \in 1 .. (j - 1)
    BY <1>1
  <2>2. \A k \in 1 .. (i - 1) : k \in 1 .. (j - 1)
    BY <1>1
  <2> QED
    BY <2>1, <2>2 DEF Places
<1>3. IsFiniteSet(S) /\ IsFiniteSet(T)
  BY <1>1, CountType
<1>4. Cardinality(S) + 1 <= Cardinality(T) /\ Cardinality(S) \in Nat /\ Cardinality(T) \in Nat
  <2> HIDE DEF S, T
  <2>1. Cardinality(S \cup {i}) = Cardinality(S) + 1
    BY <1>2, <1>3, FS_AddElement
  <2>2. Cardinality(S \cup {i}) <= Cardinality(T)
    BY <1>2, <1>3, FS_Subset
  <2> QED
    BY <1>3, <2>1, <2>2, FS_CardinalityType
<1>5. /\ s[i].nonce = nonce[a] + Cardinality(S)
      /\ s[j].nonce = nonce[a] + Cardinality(T)
  BY DEF InTurn, Count
<1>6. nonce[a] \in Nat
  BY <1>0, TxFacts
<1> HIDE DEF a, S, T
<1> QED
  BY <1>4, <1>5, <1>6

\* A list that goes up from N and leaves out no nonce on the way.
Complete(s, N) ==
  \A k \in DOMAIN s :
      /\ s[k].nonce >= N[s[k].from]
      /\ \A n \in N[s[k].from] .. s[k].nonce :
          \E j \in DOMAIN s : s[j].from = s[k].from /\ s[j].nonce = n

\* Such a list has the nonces N, N + 1, N + 2, ... in this order: the entries
\* of an account before one of its own are as many as the nonces below it.
LEMMA CompleteInTurn ==
  ASSUME NEW N \in [Senders -> Nat], NEW s \in Seq(Txs), GoesUp(s), Complete(s, N),
         NEW k \in DOMAIN s
  PROVE  s[k].nonce = N[s[k].from] + Count(s, k - 1, s[k].from)
<1> DEFINE a == s[k].from
           top == s[k].nonce
           S == Places(s, k - 1, a)
           T == N[a] .. (top - 1)
           f == [j \in S |-> s[j].nonce]
<1>0. Len(s) \in Nat /\ DOMAIN s = 1 .. Len(s) /\ \A i \in DOMAIN s : s[i] \in Txs
  BY LenProperties
<1>1. k \in Nat /\ k >= 1 /\ k <= Len(s) /\ N[a] \in Nat /\ top \in Nat /\ top >= N[a]
  <2>1. k \in Nat /\ k >= 1 /\ k <= Len(s)
    BY <1>0
  <2>2. N[a] \in Nat /\ top \in Nat
    BY <1>0, TxFacts
  <2>3. top >= N[a]
    BY DEF Complete
  <2> QED
    BY <2>1, <2>2, <2>3
<1>2. \A j \in S : j \in DOMAIN s /\ j < k /\ s[j].from = a /\ s[j].nonce \in Nat
  <2>1. ASSUME NEW j \in S PROVE j \in DOMAIN s /\ j < k /\ s[j].from = a
    BY <1>0, <1>1 DEF Places
  <2> QED
    BY <1>0, <2>1, TxFacts
<1>3. f \in [S -> T]
  <2>1. ASSUME NEW j \in S PROVE s[j].nonce \in T
    <3>1. s[j].nonce < top
      BY <1>2 DEF GoesUp
    <3>2. s[j].nonce >= N[a]
      BY <1>2 DEF Complete
    <3>3. s[j].nonce \in Nat
      BY <1>2
    <3> QED
      BY <1>1, <3>1, <3>2, <3>3
  <2> HIDE DEF S, T
  <2> QED
    BY <2>1
<1>4. \A i, j \in S : f[i] = f[j] => i = j
  <2> SUFFICES ASSUME NEW i \in S, NEW j \in S, s[i].nonce = s[j].nonce PROVE i = j
    OBVIOUS
  <2>1. i \in Nat /\ j \in Nat
    BY <1>0, <1>2
  <2>2. ~ (i < j) /\ ~ (j < i)
    BY <1>2 DEF GoesUp
  <2> QED
    BY <2>1, <2>2
<1>5. \A n \in T : \E j \in S : f[j] = n
  <2> SUFFICES ASSUME NEW n \in T PROVE \E j \in S : s[j].nonce = n
    OBVIOUS
  <2>1. n \in N[a] .. top /\ n < top
    BY <1>1
  <2>2. PICK j \in DOMAIN s : s[j].from = a /\ s[j].nonce = n
    BY <2>1 DEF Complete
  <2>3. ~ (k < j) /\ j # k
    <3>1. k < j => top < n
      BY <2>2 DEF GoesUp
    <3>2. n \in Nat /\ n < top /\ ~ (top < n)
      BY <1>1, <2>1
    <3> QED
      BY <2>2, <3>1, <3>2
  <2>4. j \in 1 .. (k - 1)
    BY <1>0, <1>1, <2>3
  <2> QED
    BY <2>2, <2>4 DEF Places
<1>6. ExistsBijection(S, T)
  <2> HIDE DEF S, T, f
  <2>0. DOMAIN f = S
    BY <1>3
  <2>1. f \in Injection(S, T)
    BY <1>3, <1>4, <2>0 DEF Injection, IsInjective
  <2>2. f \in Surjection(S, T)
    BY <1>3, <1>5 DEF Surjection
  <2>3. f \in Bijection(S, T)
    BY <2>1, <2>2 DEF Bijection
  <2> QED
    BY <2>3 DEF ExistsBijection
<1>7. Cardinality(T) = top - N[a]
  <2>1. N[a] \in Int /\ top - 1 \in Int
    BY <1>1
  <2>2. Cardinality(T) = IF N[a] > top - 1 THEN 0 ELSE (top - 1) - N[a] + 1
    BY <2>1, FS_Interval
  <2> HIDE DEF T, top
  <2> QED
    BY <1>1, <2>2
<1>8. Count(s, k - 1, a) = Cardinality(T)
  <2>1. IsFiniteSet(S)
    BY <1>1, CountType
  <2>2. Cardinality(T) = Cardinality(S)
    <3> HIDE DEF S, T
    <3> QED
      BY <1>6, <2>1, FS_Bijection
  <2> QED
    BY <2>2 DEF Count
<1> QED
  <2> HIDE DEF T, top, a
  <2>1. top = N[a] + Count(s, k - 1, a)
    BY <1>1, <1>7, <1>8
  <2> QED
    BY <2>1 DEF top, a


\* Counting in a chain that a block was added to.
LEMMA CatCount ==
  ASSUME NEW s \in Seq(Txs), NEW b \in Seq(Txs), NEW k \in 0 .. Len(b), NEW a
  PROVE  Count(s \o b, Len(s) + k, a) = Count(s, Len(s), a) + Count(b, k, a)
<1> DEFINE L == Len(s)
           c == s \o b
           S == Places(s, L, a)
           B == Places(b, k, a)
           M == {L + j : j \in B}
<1>0. /\ L \in Nat /\ Len(b) \in Nat /\ k \in Nat /\ k <= Len(b)
      /\ \A i \in 1 .. L + Len(b) : c[i] = IF i <= L THEN s[i] ELSE b[i - L]
  BY LenProperties, ConcatProperties
<1> HIDE DEF c
<1>1. \A j \in B : j \in Nat /\ j >= 1 /\ j <= k /\ b[j].from = a
  BY <1>0 DEF Places
<1>2. Places(c, L + k, a) = S \cup M
  <2>1. ASSUME NEW i \in Places(c, L + k, a) PROVE i \in S \cup M
    <3>1. i \in 1 .. L + k /\ c[i].from = a /\ i \in 1 .. L + Len(b)
      BY <1>0 DEF Places
    <3>2. CASE i <= L
      <4>1. i \in 1 .. L /\ s[i].from = a
        BY <1>0, <3>1, <3>2
      <4> QED
        BY <4>1 DEF Places
    <3>3. CASE ~ (i <= L)
      <4>1. i - L \in 1 .. k /\ L + (i - L) = i
        BY <1>0, <3>1, <3>3
      <4>2. b[i - L].from = a
        BY <1>0, <3>1, <3>3
      <4>3. i - L \in B
        BY <4>1, <4>2 DEF Places
      <4> HIDE DEF B
      <4> QED
        BY <4>1, <4>3
    <3> QED
      BY <3>2, <3>3
  <2>2. ASSUME NEW i \in S PROVE i \in Places(c, L + k, a)
    <3>1. i \in 1 .. L /\ s[i].from = a
      BY DEF Places
    <3>2. i \in 1 .. L + k /\ i \in 1 .. L + Len(b) /\ i <= L
      BY <1>0, <3>1
    <3>3. c[i].from = a
      BY <1>0, <3>1, <3>2
    <3> QED
      BY <3>2, <3>3 DEF Places
  <2>3. ASSUME NEW j \in B PROVE L + j \in Places(c, L + k, a)
    <3>1. /\ L + j \in 1 .. L + k /\ L + j \in 1 .. L + Len(b) /\ ~ (L + j <= L)
          /\ (L + j) - L = j
      BY <1>0, <1>1
    <3>2. c[L + j] = b[j]
      BY <1>0, <3>1
    <3>3. c[L + j].from = a
      BY <1>1, <3>2
    <3> QED
      BY <3>1, <3>3 DEF Places
  <2> HIDE DEF S, B
  <2> QED
    BY <2>1, <2>2, <2>3
<1>3. IsFiniteSet(S) /\ IsFiniteSet(B)
  BY <1>0, CountType
<1>4. IsFiniteSet(M) /\ Cardinality(M) = Cardinality(B)
  <2> DEFINE f == [j \in B |-> L + j]
  <2> HIDE DEF B
  <2>1. f \in [B -> M] /\ \A t \in M : \E j \in B : f[j] = t
    OBVIOUS
  <2>2. \A i, j \in B : f[i] = f[j] => i = j
    <3>1. \A i, j \in B : L + i = L + j => i = j
      BY <1>0, <1>1
    <3> QED
      BY <3>1
  <2> HIDE DEF f, M
  <2>3. f \in Injection(B, M)
    BY <2>1, <2>2 DEF Injection, IsInjective
  <2>4. f \in Surjection(B, M)
    BY <2>1 DEF Surjection
  <2>5. ExistsBijection(B, M)
    BY <2>3, <2>4 DEF ExistsBijection, Bijection
  <2> QED
    BY <1>3, <2>5, FS_Bijection
<1>5. S \cap M = {}
  <2>1. \A i \in S : i <= L
    BY <1>0 DEF Places
  <2>2. \A j \in B : ~ (L + j <= L)
    BY <1>0, <1>1
  <2> HIDE DEF S, B
  <2> QED
    BY <2>1, <2>2
<1>6. Cardinality(S \cup M) = Cardinality(S) + Cardinality(B)
  <2> HIDE DEF S, M, B
  <2>1. Cardinality(S \cup M) = Cardinality(S) + Cardinality(M) - Cardinality(S \cap M)
    BY <1>3, <1>4, FS_Union
  <2>2. Cardinality(S \cap M) = 0
    BY <1>5, FS_EmptySet
  <2>3. Cardinality(S) \in Nat /\ Cardinality(M) \in Nat
    BY <1>3, <1>4, FS_CardinalityType
  <2> QED
    BY <1>4, <2>1, <2>2, <2>3
<1> QED
  BY <1>2, <1>6 DEF Count, c

\* A block that create_block makes of a list that goes up: it goes up too and
\* is complete from the accounts' nonces on.
LEMMA CreateFacts ==
  ASSUME nonce \in [Senders -> Nat], NEW txs \in Seq(Txs), GoesUp(txs),
         NEW b \in CreateBlock(txs)
  PROVE  b \in Seq(Txs) /\ GoesUp(b) /\ Complete(b, nonce)
<1> DEFINE Valid(i) ==
             /\ txs[i].nonce >= nonce[txs[i].from]
             /\ \A n \in nonce[txs[i].from] .. txs[i].nonce :
                 \E t \in ToSet(txs) : t.from = txs[i].from /\ t.nonce = n
           kept == {i \in DOMAIN txs : Valid(i)}
           N == Cardinality(kept)
<1>0. /\ Len(txs) \in Nat /\ DOMAIN txs = 1 .. Len(txs)
      /\ \A i \in DOMAIN txs : /\ txs[i] \in Txs /\ txs[i].nonce \in Nat
                               /\ nonce[txs[i].from] \in Nat
  BY LenProperties, TxFacts
<1>1. kept \in SUBSET (1 .. Len(txs))
  BY <1>0
<1>2. PICK m \in [1 .. N -> kept] :
        /\ \A i, j \in DOMAIN m : i < j => m[i] < m[j]
        /\ b = [i \in DOMAIN m |-> txs[m[i]]]
  BY DEF CreateBlock
<1>3. IsFiniteSet(kept) /\ N \in Nat
  <2> HIDE DEF kept
  <2>1. IsFiniteSet(1 .. Len(txs))
    BY <1>0, FS_Interval
  <2> QED
    BY <1>1, <2>1, FS_Subset, FS_CardinalityType
<1>4. \A i \in kept : i \in Nat /\ i \in DOMAIN txs
  BY <1>0, <1>1
<1>5. DOMAIN m = 1 .. N
  <2> HIDE DEF kept, N
  <2> QED
    BY <1>2
<1>6. b \in Seq(Txs) /\ DOMAIN b = 1 .. N
  <2> HIDE DEF kept, N
  <2>1. \A i \in 1 .. N : txs[m[i]] \in Txs
    BY <1>0, <1>2, <1>4
  <2>2. b = [i \in 1 .. N |-> txs[m[i]]]
    BY <1>2, <1>5
  <2>3. b \in [1 .. N -> Txs]
    BY <2>1, <2>2
  <2> QED
    BY <1>3, <2>3, SeqDef
<1>7. \A i \in 1 .. N : b[i] = txs[m[i]] /\ m[i] \in kept
  <2> HIDE DEF kept, N
  <2> QED
    BY <1>2, <1>5
<1>8. GoesUp(b)
  <2> SUFFICES ASSUME NEW i \in 1 .. N, NEW j \in 1 .. N, i < j, b[i].from = b[j].from
               PROVE  b[i].nonce < b[j].nonce
    BY <1>6 DEF GoesUp
  <2> HIDE DEF kept, N
  <2>1. m[i] < m[j] /\ m[i] \in DOMAIN txs /\ m[j] \in DOMAIN txs
    BY <1>2, <1>4, <1>5, <1>7
  <2> QED
    BY <1>7, <2>1 DEF GoesUp
\* m takes every kept place: it is one to one, and there are as many.
<1>9. \A i \in kept : \E j \in 1 .. N : m[j] = i
  <2>1. \A i, j \in 1 .. N : m[i] = m[j] => i = j
    <3> HIDE DEF kept, N
    <3> SUFFICES ASSUME NEW i \in 1 .. N, NEW j \in 1 .. N, m[i] = m[j] PROVE i = j
      OBVIOUS
    <3>1. i \in Nat /\ j \in Nat /\ m[i] \in Nat /\ m[j] \in Nat
      BY <1>3, <1>4, <1>7
    <3>2. ~ (i < j) /\ ~ (j < i)
      BY <1>2, <1>5, <3>1
    <3> QED
      BY <3>1, <3>2
  <2>2. m \in Injection(1 .. N, kept)
    <3> HIDE DEF kept, N
    <3> QED
      BY <1>2, <1>5, <2>1 DEF Injection, IsInjective
  <2>3. Cardinality(1 .. N) = Cardinality(kept)
    <3>1. Cardinality(1 .. N) = N
      <4> HIDE DEF N
      <4>1. Cardinality(1 .. N) = IF 1 > N THEN 0 ELSE N - 1 + 1
        BY <1>3, FS_Interval
      <4> QED
        BY <1>3, <4>1
    <3> QED
      BY <3>1
  <2>4. m \in Surjection(1 .. N, kept)
    <3> HIDE DEF kept, N
    <3> QED
      BY <1>3, <2>2, <2>3, FS_Injection
  <2> HIDE DEF kept, N
  <2> QED
    BY <2>4 DEF Surjection
<1>10. Complete(b, nonce)
  <2> SUFFICES ASSUME NEW k \in DOMAIN b
               PROVE  /\ b[k].nonce >= nonce[b[k].from]
                      /\ \A n \in nonce[b[k].from] .. b[k].nonce :
                          \E j \in DOMAIN b : b[j].from = b[k].from /\ b[j].nonce = n
    BY DEF Complete
  <2>1. m[k] \in DOMAIN txs /\ Valid(m[k]) /\ b[k] = txs[m[k]]
    BY <1>6, <1>7
  <2>2. b[k].nonce >= nonce[b[k].from]
    BY <2>1
  <2>3. ASSUME NEW n \in nonce[b[k].from] .. b[k].nonce
        PROVE  \E j \in DOMAIN b : b[j].from = b[k].from /\ b[j].nonce = n
    <3>1. PICK t \in ToSet(txs) : t.from = b[k].from /\ t.nonce = n
      BY <2>1
    <3>2. PICK i \in DOMAIN txs : txs[i] = t
      BY DEF ToSet
    <3>3. Valid(i)
      <4>1. nonce[b[k].from] \in Nat /\ b[k].nonce \in Nat
        BY <1>0, <2>1
      <4>2. n \in Int /\ n >= nonce[b[k].from] /\ n <= b[k].nonce
        BY <4>1
      <4>3. txs[i].nonce >= nonce[txs[i].from]
        BY <3>1, <3>2, <4>2
      <4>4. \A x \in nonce[txs[i].from] .. txs[i].nonce : x \in nonce[b[k].from] .. b[k].nonce
        BY <3>1, <3>2, <4>1, <4>2
      <4>5. \A x \in nonce[b[k].from] .. b[k].nonce :
              \E u \in ToSet(txs) : u.from = b[k].from /\ u.nonce = x
        BY <2>1
      <4> QED
        BY <3>1, <3>2, <4>3, <4>4, <4>5
    <3>4. i \in kept
      BY <3>3
    <3>5. PICK j \in 1 .. N : m[j] = i
      <4> HIDE DEF kept, N
      <4> QED
        BY <1>9, <3>4
    <3>6. b[j] = t
      <4> HIDE DEF kept, N
      <4> QED
        BY <1>7, <3>2, <3>5
    <3> QED
      BY <1>6, <3>1, <3>5, <3>6
  <2> QED
    BY <2>2, <2>3
<1> QED
  BY <1>6, <1>8, <1>10


-----------------------------------------------------------------------------
(* The shape of the state.                                                 *)

LEMMA Bounds ==
  /\ PoolMax \in Nat \ {0} /\ Cleaned \in Nat /\ Cleaned >= 1 /\ Cleaned <= PoolMax
  /\ Limit \in Nat /\ MaxLag \in Nat
  /\ IsFiniteSet(Peers) /\ Cardinality(Peers) \in Nat
  /\ MinMesh \in Nat /\ MinMesh <= Cardinality(Peers)
<1>1. IsFiniteSet(Peers) /\ Cardinality(Peers) \in Nat
  BY MiningAssumption, FS_CardinalityType
<1>2. PoolMax \in Nat \ {0} /\ Cleaned \in 1 .. PoolMax
  BY MiningAssumption
<1>3. Limit \in Nat /\ MaxLag \in Nat /\ MinMesh \in 1 .. Cardinality(Peers)
  BY MiningAssumption
<1> QED
  BY <1>1, <1>2, <1>3

LEMMA Single ==
  ASSUME NEW S, NEW x \in S
  PROVE  /\ <<x>> \in Seq(S) /\ Len(<<x>>) = 1 /\ <<x>>[1] = x /\ <<x>> # <<>>
         /\ DOMAIN <<x>> = {1}
  OBVIOUS

LEMMA Only ==
  ASSUME NEW S, NEW s \in Seq(S), Len(s) <= 1, s # <<>>
  PROVE  Len(s) = 1 /\ s[1] \in S /\ DOMAIN s = {1}
<1>1. Len(s) \in Nat /\ DOMAIN s = 1 .. Len(s) /\ Len(s) # 0
  BY LenProperties, EmptySeq
<1>2. Len(s) = 1
  BY <1>1
<1> QED
  BY <1>1, <1>2, ElementOfSeq

LEMMA Nothing ==
  /\ \A S : <<>> \in Seq(S)
  /\ Len(<<>>) = 0 /\ DOMAIN <<>> = {}
  /\ \A S : \A s \in Seq(S) : Len(s) = 0 <=> s = <<>>
  BY EmptySeq

LEMMA SetOfSeq ==
  ASSUME NEW S, NEW s \in Seq(S)
  PROVE  ToSet(s) \subseteq S
  BY LenProperties DEF ToSet

LEMMA LongerFacts ==
  /\ \A x \in 0 .. MaxLag : /\ Longer(x) \in 0 .. MaxLag
                            /\ x <= Longer(x) /\ Longer(x) <= x + 1
  /\ \A x, y \in 0 .. MaxLag : x <= y => Longer(x) <= Longer(y)
  BY Bounds DEF Longer

LEMMA RestOK ==
  /\ AtRest \in Loops /\ AtRest.txs = <<>> /\ AtRest.pc = "idle"
  /\ Len(AtRest.txs) <= Limit
<1>1. <<>> \in Seq(Txs) /\ Len(<<>>) = 0
  BY Nothing
<1> QED
  BY <1>1, Bounds DEF AtRest, Loops

LEMMA PackedFacts ==
  ASSUME Shape, NEW s \in GetForBlock
  PROVE  s \in Seq(Txs) /\ Len(s) <= Limit /\ \E C : InTurn(s, C)
<1>1. PICK C \in Candidates : s \in Packings(C)
  BY DEF GetForBlock
<1>2. PICK n \in 0 .. Limit : s \in [1 .. n -> C]
  BY <1>1 DEF Packings
<1>3. n \in Nat /\ n <= Limit
  BY <1>2, Bounds
<1>4. C \subseteq Txs
  BY <1>1 DEF Candidates, Shape, PoolOK
<1>5. s \in [1 .. n -> Txs]
  BY <1>2, <1>4
<1>6. s \in Seq(Txs)
  BY <1>3, <1>5, SeqDef
<1>7. Len(s) = n
  BY <1>3, <1>5, <1>6, LenProperties
<1>8. InTurn(s, C)
  BY <1>1 DEF Packings
<1> QED
  BY <1>3, <1>6, <1>7, <1>8

LEMMA PutOK ==
  ASSUME Shape, NEW tx \in Txs, StorePut(tx)
  PROVE  PoolOK'
<1> DEFINE Outs == IF Cardinality(pool) >= PoolMax THEN Cheapest ELSE {{}}
<1>1. PICK out \in Outs :
        /\ arriving' = arriving \ {tx}
        /\ pool' = (pool \ out) \cup {tx}
  BY DEF StorePut
<1>2. IsFiniteSet(pool) /\ Cardinality(pool) \in Nat /\ Cardinality(pool) <= PoolMax
  BY FS_CardinalityType DEF Shape, PoolOK
<1>3. /\ out \subseteq pool /\ IsFiniteSet(out)
      /\ Cardinality(pool \ out) + 1 <= PoolMax
      /\ Cardinality(pool \ out) \in Nat /\ IsFiniteSet(pool \ out)
  <2>1. CASE Cardinality(pool) >= PoolMax
    <3>1. out \in SUBSET pool /\ Cardinality(out) = Cleaned
      BY <2>1 DEF Cheapest
    <3>2. IsFiniteSet(out) /\ pool \cap out = out
      BY <1>2, <3>1, FS_Subset
    <3>3. /\ IsFiniteSet(pool \ out)
          /\ Cardinality(pool \ out) = Cardinality(pool) - Cardinality(pool \cap out)
      BY <1>2, FS_Difference
    <3>4. Cardinality(pool \ out) \in Nat
      BY <3>3, FS_CardinalityType
    <3>5. Cardinality(pool \ out) = Cardinality(pool) - Cleaned
      BY <3>1, <3>2, <3>3
    <3>6. Cardinality(pool \ out) + 1 <= PoolMax
      BY <1>2, <3>4, <3>5, Bounds
    <3> QED
      BY <3>1, <3>2, <3>3, <3>4, <3>6
  <2>2. CASE ~ (Cardinality(pool) >= PoolMax)
    <3>1. out = {} /\ pool \ out = pool
      BY <2>2
    <3> QED
      BY <1>2, <2>2, <3>1, Bounds, FS_EmptySet
  <2> QED
    BY <2>1, <2>2
<1>4. IsFiniteSet(pool') /\ Cardinality(pool') <= PoolMax
  <2> HIDE DEF Outs
  <2>1. IsFiniteSet((pool \ out) \cup {tx})
        /\ Cardinality((pool \ out) \cup {tx}) =
            IF tx \in pool \ out THEN Cardinality(pool \ out) ELSE Cardinality(pool \ out) + 1
    BY <1>3, FS_AddElement
  <2> QED
    BY <1>1, <1>3, <2>1, Bounds
<1>5. arriving' \subseteq Txs /\ pool' \subseteq Txs /\ arriving' \cap pool' = {}
  <2> HIDE DEF Outs
  <2> QED
    BY <1>1, <1>3 DEF Shape, PoolOK
<1> QED
  BY <1>4, <1>5 DEF PoolOK

\* Transactions leave the pool.
LEMMA LeaveOK ==
  ASSUME Shape, arriving' = arriving, pool' \subseteq pool
  PROVE  PoolOK'
<1>1. IsFiniteSet(pool) /\ Cardinality(pool) \in Nat /\ Cardinality(pool) <= PoolMax
  BY FS_CardinalityType DEF Shape, PoolOK
<1>2. IsFiniteSet(pool') /\ Cardinality(pool') <= Cardinality(pool)
  BY <1>1, FS_Subset
<1>3. Cardinality(pool') \in Nat
  BY <1>2, FS_CardinalityType
<1>4. Cardinality(pool') <= PoolMax
  BY <1>1, <1>2, <1>3, Bounds
<1> QED
  BY <1>2, <1>4 DEF Shape, PoolOK

LEMMA TellOK ==
  ASSUME Shape, NEW r \in Results, Tell(r)
  PROVE  answer' \in Seq(Results) /\ Len(answer') <= 1
  BY Single DEF Tell, Shape, JobsOK


LEMMA ShapeInit == Init => Shape
<1> SUFFICES ASSUME Init PROVE Shape
  OBVIOUS
<1>1. PoolOK
  BY FS_EmptySet, Bounds DEF Init, PoolOK
<1>2. ChainOK
  BY Nothing DEF Init, ChainOK
<1>3. JobsOK
  BY Nothing DEF Init, JobsOK
<1>4. LoopOK
  BY RestOK DEF Init, LoopOK
<1>5. MeshOK
  BY Bounds DEF Init, MeshOK
<1> QED
  BY <1>1, <1>2, <1>3, <1>4, <1>5 DEF Shape

\* What the pool, the peers and the loop do at rest and at the gate.
LEMMA ShapeOutside ==
  ASSUME Shape,
         \/ \E tx \in Txs : ValidateTransaction(tx) \/ StorePut(tx)
         \/ \E p \in Peers : Connect(p) \/ PeerImports(p) \/ PeerStatus(p)
         \/ Tick \/ GateCloses \/ GateOpensQueueFull
         \/ UNCHANGED vars
  PROVE  Shape'
<1>0. PoolOK /\ ChainOK /\ JobsOK /\ LoopOK /\ MeshOK
  BY DEF Shape
<1>1. ASSUME NEW tx \in Txs, ValidateTransaction(tx) PROVE Shape'
  BY <1>0, <1>1 DEF ValidateTransaction, Shape, PoolOK, ChainOK, JobsOK, LoopOK, MeshOK,
                    chain, mesh
<1>2. ASSUME NEW tx \in Txs, StorePut(tx) PROVE Shape'
  <2>1. UNCHANGED <<ledger, nonce, queued, running, loop, answer, hold, up, missing, stale>>
    BY <1>2 DEF StorePut, chain, mesh
  <2>2. PoolOK'
    BY <1>2, PutOK
  <2> QED
    BY <1>0, <2>1, <2>2 DEF Shape, ChainOK, JobsOK, LoopOK, MeshOK
<1>3. ASSUME NEW p \in Peers, Connect(p) \/ PeerImports(p) \/ PeerStatus(p) PROVE Shape'
  <2>1. UNCHANGED <<arriving, pool, ledger, nonce, queued, running, loop, answer, hold>>
    BY <1>3 DEF Connect, PeerImports, PeerStatus, chain
  <2>2. MeshOK'
    <3>1. CASE Connect(p)
      BY <1>0, <3>1 DEF Connect, MeshOK
    <3>2. CASE PeerImports(p)
      <4>1. missing[p] - 1 \in 0 .. MaxLag
        BY <1>0, <3>2, Bounds DEF PeerImports, MeshOK
      <4> QED
        BY <1>0, <3>2, <4>1 DEF PeerImports, MeshOK
    <3>3. CASE PeerStatus(p)
      BY <1>0, <3>3 DEF PeerStatus, MeshOK
    <3> QED
      BY <1>3, <3>1, <3>2, <3>3
  <2> QED
    BY <1>0, <2>1, <2>2 DEF Shape, PoolOK, ChainOK, JobsOK, LoopOK
<1>4. CASE Tick \/ GateCloses \/ GateOpensQueueFull
  <2>1. UNCHANGED <<arriving, pool, ledger, nonce, queued, running, answer,
                    up, missing, stale>>
    BY <1>4 DEF Tick, GateCloses, GateOpensQueueFull, chain, mesh
  <2>2. hold' \in BOOLEAN
    BY <1>0, <1>4 DEF Tick, GateCloses, GateOpensQueueFull, LoopOK
  <2>3. loop' \in Loops /\ Len(loop'.txs) <= Limit
    <3>1. CASE Tick
      <4>1. loop' = [AtRest EXCEPT !.pc = "gate", !.asked = up] /\ up \subseteq Peers
        BY <1>0, <3>1 DEF Tick, MeshOK
      <4>2. loop' \in Loops /\ loop'.txs = AtRest.txs
        BY <4>1, RestOK DEF Loops
      <4> QED
        BY <4>2, RestOK
    <3>2. CASE GateCloses \/ GateOpensQueueFull
      BY <3>2, RestOK DEF GateCloses, GateOpensQueueFull
    <3> QED
      BY <1>4, <3>1, <3>2
  <2> QED
    BY <1>0, <2>1, <2>2, <2>3 DEF Shape, PoolOK, ChainOK, JobsOK, LoopOK, MeshOK
<1>5. CASE UNCHANGED vars
  BY <1>0, <1>5 DEF Shape, PoolOK, ChainOK, JobsOK, LoopOK, MeshOK, vars, chain, mesh
<1> QED
  BY <1>1, <1>2, <1>3, <1>4, <1>5

LEMMA ShapeWorker ==
  ASSUME Shape, WorkerStarts \/ ForgeFails \/ Timeout
  PROVE  Shape'
<1>0. PoolOK /\ ChainOK /\ JobsOK /\ LoopOK /\ MeshOK
  BY DEF Shape
<1>1. UNCHANGED <<arriving, pool, ledger, nonce, loop, hold, up, missing, stale>>
  BY DEF WorkerStarts, ForgeFails, Timeout, chain, mesh
<1>2. PoolOK' /\ ChainOK' /\ LoopOK' /\ MeshOK'
  BY <1>0, <1>1 DEF PoolOK, ChainOK, LoopOK, MeshOK
<1>3. CASE WorkerStarts
  <2> DEFINE r == [txs |-> queued[1], waited |-> TRUE]
  <2>1. queued[1] \in Seq(Txs)
    BY <1>0, <1>3, Only DEF WorkerStarts, JobsOK
  <2>2. r \in Jobs
    BY <2>1 DEF Jobs
  <2>3. running' = <<r>> /\ queued' = <<>> /\ answer' = answer
    BY <1>3 DEF WorkerStarts
  <2> HIDE DEF r
  <2>4. running' \in Seq(Jobs) /\ Len(running') <= 1
    BY <2>2, <2>3, Single
  <2>5. queued' \in Seq(Seq(Txs)) /\ Len(queued') <= 1
    BY <2>3, Nothing
  <2> QED
    BY <1>0, <1>2, <2>3, <2>4, <2>5 DEF JobsOK, Shape
<1>4. CASE ForgeFails
  <2>1. [ok |-> FALSE, txs |-> <<>>] \in Results
    BY Nothing DEF Results
  <2>2. answer' \in Seq(Results) /\ Len(answer') <= 1
    BY <1>4, <2>1, TellOK DEF ForgeFails
  <2>3. running' = <<>> /\ queued' = queued
    BY <1>4 DEF ForgeFails
  <2>4. running' \in Seq(Jobs) /\ Len(running') <= 1
    BY <2>3, Nothing
  <2> QED
    BY <1>0, <1>2, <2>2, <2>3, <2>4 DEF JobsOK, Shape
<1>5. CASE Timeout
  <2>1. [ok |-> FALSE, txs |-> <<>>] \in Results
    BY Nothing DEF Results
  <2>2. answer' \in Seq(Results) /\ Len(answer') <= 1
    BY <1>5, <2>1, Single DEF Timeout
  <2>3. queued' \in Seq(Seq(Txs)) /\ Len(queued') <= 1
    BY <1>5, Nothing DEF Timeout
  <2>4. running' \in Seq(Jobs) /\ Len(running') <= 1
    <3>1. Len(running) \in Nat /\ DOMAIN running = 1 .. Len(running)
          /\ \A i \in DOMAIN running : running[i] \in Jobs
      BY <1>0, LenProperties DEF JobsOK
    <3>2. \A i \in 1 .. Len(running) : [running[i] EXCEPT !.waited = FALSE] \in Jobs
      BY <3>1 DEF Jobs
    <3>3. running' \in [1 .. Len(running) -> Jobs]
      BY <1>5, <3>1, <3>2 DEF Timeout
    <3>4. running' \in Seq(Jobs)
      BY <3>1, <3>3, SeqDef
    <3>5. Len(running') = Len(running)
      BY <3>1, <3>3, <3>4, LenProperties
    <3> QED
      BY <1>0, <3>4, <3>5 DEF JobsOK
  <2> QED
    BY <1>0, <1>2, <2>2, <2>3, <2>4 DEF JobsOK, Shape
<1> QED
  BY <1>3, <1>4, <1>5


LEMMA ShapeLoop ==
  ASSUME Shape, GateOpens \/ Forged \/ EvictAndForgeEmpty \/ GiveUp
  PROVE  Shape'
<1>0. PoolOK /\ ChainOK /\ JobsOK /\ LoopOK /\ MeshOK
  BY DEF Shape
<1>1. UNCHANGED <<arriving, ledger, nonce, running, up, missing, stale>>
  BY DEF GateOpens, Forged, EvictAndForgeEmpty, GiveUp, chain, mesh
<1>2. ChainOK' /\ MeshOK' /\ running' \in Seq(Jobs) /\ Len(running') <= 1
  BY <1>0, <1>1 DEF ChainOK, MeshOK, JobsOK
<1>3. ASSUME NEW txs \in Seq(Txs), Len(txs) <= Limit, Submit(txs)
      PROVE  /\ queued' \in Seq(Seq(Txs)) /\ Len(queued') <= 1
             /\ loop' \in Loops /\ Len(loop'.txs) <= Limit
  <2>1. queued' = <<txs>> /\ loop' = [AtRest EXCEPT !.pc = "wait", !.txs = txs]
    BY <1>3 DEF Submit
  <2>2. loop' \in Loops /\ loop'.txs = txs
    BY <2>1, RestOK DEF Loops
  <2>3. queued' \in Seq(Seq(Txs)) /\ Len(queued') <= 1
    BY <2>1, Single
  <2> QED
    BY <1>3, <2>2, <2>3
<1>4. loop.txs \in Seq(Txs) /\ ToSet(loop.txs) \subseteq Txs /\ <<>> \in Seq(Txs)
  <2>1. loop.txs \in Seq(Txs)
    BY <1>0 DEF LoopOK, Loops
  <2> QED
    BY <2>1, SetOfSeq, Nothing
<1>5. CASE GateOpens
  <2>1. PICK txs \in GetForBlock : Submit(txs)
    BY <1>5 DEF GateOpens
  <2>2. txs \in Seq(Txs) /\ Len(txs) <= Limit
    BY PackedFacts
  <2>3. hold' \in BOOLEAN /\ answer' = answer /\ pool' = pool
    BY <1>5 DEF GateOpens
  <2>4. PoolOK'
    BY <1>0, <1>1, <2>3 DEF PoolOK
  <2> QED
    BY <1>0, <1>2, <1>3, <2>1, <2>2, <2>3, <2>4 DEF Shape, JobsOK, LoopOK
<1>6. CASE Forged \/ GiveUp
  <2>1. /\ loop' = AtRest /\ answer' = <<>> /\ queued' = queued /\ hold' \in BOOLEAN
        /\ pool' \subseteq pool
    BY <1>0, <1>6 DEF Forged, GiveUp, LoopOK
  <2>2. PoolOK'
    BY <1>0, <1>1, <2>1, LeaveOK DEF PoolOK
  <2>3. answer' \in Seq(Results) /\ Len(answer') <= 1
    BY <2>1, Nothing
  <2>4. loop' \in Loops /\ Len(loop'.txs) <= Limit
    BY <2>1, RestOK
  <2> QED
    BY <1>0, <1>2, <2>1, <2>2, <2>3, <2>4 DEF Shape, JobsOK, LoopOK
<1>7. CASE EvictAndForgeEmpty
  <2>1. /\ answer' = <<>> /\ hold' = hold
        /\ pool' \subseteq pool
        /\ Submit(<<>>) \/ (loop' = AtRest /\ queued' = queued)
    BY <1>7 DEF EvictAndForgeEmpty
  <2>2. PoolOK'
    BY <1>1, <2>1, LeaveOK
  <2>3. answer' \in Seq(Results) /\ Len(answer') <= 1
    BY <2>1, Nothing
  <2>4. /\ queued' \in Seq(Seq(Txs)) /\ Len(queued') <= 1
        /\ loop' \in Loops /\ Len(loop'.txs) <= Limit
    <3>1. CASE Submit(<<>>)
      <4>1. Len(<<>>) <= Limit
        BY Nothing, Bounds
      <4> QED
        BY <1>3, <1>4, <3>1, <4>1
    <3>2. CASE loop' = AtRest /\ queued' = queued
      BY <1>0, <3>2, RestOK DEF JobsOK
    <3> QED
      BY <2>1, <3>1, <3>2
  <2> QED
    BY <1>0, <1>2, <2>1, <2>2, <2>3, <2>4 DEF Shape, JobsOK, LoopOK
<1> QED
  BY <1>5, <1>6, <1>7

-----------------------------------------------------------------------------
(* The loop's jobs and answers, and how far ahead the hub may get.         *)

LEMMA TurnsInit == Init => Turns
  BY RestOK DEF Init, Turns, AtRest

LEMMA TurnsStep ==
  ASSUME Shape, Turns, Shape', [Next]_vars, ~ ForgeAndApply
  PROVE  Turns'
<1>0. /\ JobsOK /\ LoopOK /\ MeshOK /\ Len(running) \in Nat
      /\ queued # <<>> => Len(queued) = 1
  BY Only, LenProperties DEF Shape, JobsOK
<1>1. CASE UNCHANGED <<queued, running, loop, answer>>
  BY <1>1 DEF Turns
<1>2. CASE WorkerStarts
  <2> DEFINE r == [txs |-> queued[1], waited |-> TRUE]
  <2>1. /\ queued # <<>> /\ queued' = <<>> /\ running' = <<r>> /\ loop' = loop /\ answer' = answer
    BY <1>2 DEF WorkerStarts
  <2> HIDE DEF r
  <2>2. loop.pc = "wait" /\ answer = <<>>
    BY <2>1 DEF Turns
  <2> QED
    BY <2>1, <2>2 DEF Turns
<1>3. CASE ForgeFails
  <2>1. /\ running # <<>> /\ running' = <<>> /\ loop' = loop /\ queued' = queued
        /\ answer' = IF running[1].waited THEN <<[ok |-> FALSE, txs |-> <<>>]>> ELSE answer
    BY <1>3 DEF ForgeFails, Tell
  <2>2. loop.pc = "gate" => loop.since + Len(running') <= 1
    BY <1>0, <2>1, Nothing DEF Turns, LoopOK, Loops
  <2> QED
    BY <2>1, <2>2 DEF Turns
<1>4. CASE Timeout
  <2>1. /\ loop.pc = "wait" /\ loop' = loop /\ queued' = <<>>
        /\ running' = [i \in DOMAIN running |-> [running[i] EXCEPT !.waited = FALSE]]
    BY <1>4 DEF Timeout
  <2>2. running' # <<>> => ~ running'[1].waited
    <3>0. running' \in Seq(Jobs) /\ Len(running') <= 1
      BY DEF Shape, JobsOK
    <3>1. running' # <<>> => 1 \in DOMAIN running'
      BY <3>0, Only
    <3>2. DOMAIN running' = DOMAIN running
      BY <2>1
    <3>3. \A i \in DOMAIN running : running[i] \in Jobs
      BY <1>0, LenProperties DEF JobsOK
    <3> QED
      BY <2>1, <3>1, <3>2, <3>3 DEF Jobs
  <2> QED
    BY <2>1, <2>2 DEF Turns
<1>5. CASE Tick
  <2>1. /\ loop' = [AtRest EXCEPT !.pc = "gate", !.asked = up] /\ loop.pc = "idle"
        /\ Cardinality(up) >= MinMesh /\ UNCHANGED <<queued, running, answer>>
    BY <1>5 DEF Tick
  <2>2. loop'.pc = "gate" /\ loop'.since = 0 /\ loop'.asked = up
    BY <2>1 DEF AtRest
  <2>3. loop'.since + Len(running) <= 1
    BY <1>0, <2>2 DEF JobsOK
  <2> QED
    BY <2>1, <2>2, <2>3 DEF Turns
<1>6. CASE GateCloses \/ GateOpensQueueFull
  <2>1. loop.pc = "gate" /\ loop' = AtRest /\ UNCHANGED <<queued, running, answer>>
    BY <1>6 DEF GateCloses, GateOpensQueueFull
  <2> QED
    BY <2>1, RestOK DEF Turns
<1>7. CASE GateOpens
  <2>1. /\ loop.pc = "gate" /\ UNCHANGED <<running, answer>>
        /\ \E txs \in GetForBlock : loop' = [AtRest EXCEPT !.pc = "wait", !.txs = txs]
    BY <1>7 DEF GateOpens, Submit
  <2>2. loop'.pc = "wait"
    BY <2>1 DEF AtRest
  <2> QED
    BY <2>1, <2>2 DEF Turns
<1>8. CASE Forged \/ GiveUp \/ EvictAndForgeEmpty
  <2>1. /\ answer # <<>> /\ answer' = <<>> /\ running' = running
        /\ \/ loop' = AtRest /\ queued' = queued
           \/ loop' = [AtRest EXCEPT !.pc = "wait", !.txs = <<>>]
    BY <1>8 DEF Forged, GiveUp, EvictAndForgeEmpty, Failed, Submit
  <2>2. queued = <<>> /\ (running # <<>> => ~ running[1].waited)
    BY <2>1 DEF Turns
  <2>3. (loop' = AtRest /\ queued' = queued) \/ loop'.pc = "wait"
    BY <2>1 DEF AtRest
  <2> QED
    BY <2>1, <2>2, <2>3, RestOK DEF Turns
<1>9. CASE \/ \E tx \in Txs : ValidateTransaction(tx) \/ StorePut(tx)
           \/ \E p \in Peers : Connect(p) \/ PeerImports(p) \/ PeerStatus(p)
           \/ UNCHANGED vars
  <2>1. UNCHANGED <<queued, running, loop, answer>>
    BY <1>9 DEF ValidateTransaction, StorePut, Connect, PeerImports, PeerStatus, vars
  <2> QED
    BY <1>1, <2>1
<1> QED
  BY <1>2, <1>3, <1>4, <1>5, <1>6, <1>7, <1>8, <1>9 DEF Next, Worker, Loop


LEMMA BudgetType ==
  ASSUME Shape
  PROVE  /\ Len(queued) \in Nat /\ Len(running) \in Nat /\ Budget \in Nat
         /\ \A p \in Peers : missing[p] \in Nat /\ missing[p] \in 0 .. MaxLag
         /\ \A p \in Peers : stale[p] \in Nat /\ stale[p] \in 0 .. MaxLag
<1>1. Len(queued) \in Nat /\ Len(running) \in Nat
  BY LenProperties DEF Shape, JobsOK
<1>2. Budget \in Nat
  BY <1>1 DEF Budget
<1>3. \A p \in Peers : missing[p] \in 0 .. MaxLag /\ stale[p] \in 0 .. MaxLag
  BY DEF Shape, MeshOK
<1> QED
  BY <1>1, <1>2, <1>3, Bounds

\* Peers that were near still are.
LEMMA StillNear ==
  ASSUME KeepUp, \A p \in Peers : missing[p] + Budget <= 3 => missing'[p] + Budget' <= 3
  PROVE  Cardinality(Near') >= MinMesh
<1>1. Near \in SUBSET Near' /\ Near' \in SUBSET Peers
  BY DEF Near
<1>2. IsFiniteSet(Near')
  BY <1>1, Bounds, FS_Subset
<1>3. /\ Cardinality(Near) <= Cardinality(Near') /\ Cardinality(Near') \in Nat
      /\ Cardinality(Near) \in Nat
  BY <1>1, <1>2, FS_Subset, FS_CardinalityType
<1> QED
  BY <1>3, Bounds DEF KeepUp

\* Nobody falls back and no more blocks are to land.
LEMMA NoFurther ==
  ASSUME Shape, Shape', KeepUp, missing' = missing, stale' = stale, Budget' <= Budget
  PROVE  KeepUp'
<1>1. Budget \in Nat /\ \A p \in Peers : missing[p] \in Nat
  BY BudgetType
<1>2. Budget' \in Nat
  <2>1. Len(queued)' \in Nat /\ Len(running)' \in Nat
    BY LenProperties DEF Shape, JobsOK
  <2> QED
    BY <2>1 DEF Budget
<1>3. \A p \in Peers : missing[p] + Budget <= 3 => missing'[p] + Budget' <= 3
  BY <1>1, <1>2
<1>4. Cardinality(Near') >= MinMesh
  BY <1>3, StillNear
<1> QED
  BY <1>4 DEF KeepUp

\* The gate: who shows the root of a height that at most one block is above,
\* or says it is there, has all but that block.
LEMMA GateNear ==
  ASSUME Shape, Turns, KeepUp, loop.pc = "gate", MeshReady, missing' = missing,
         Budget' <= Len(running) + 2
  PROVE  Budget' \in Int => Cardinality(Near') >= MinMesh
<1> SUFFICES ASSUME Budget' \in Int PROVE Cardinality(Near') >= MinMesh
  OBVIOUS
<1>1. /\ loop.since \in Nat /\ loop.asked \in SUBSET Peers
      /\ loop.since + Len(running) <= 1 /\ Cardinality(loop.asked) >= MinMesh
  BY DEF Turns, Shape, LoopOK, Loops
<1>2. IsFiniteSet(loop.asked)
  BY <1>1, Bounds, FS_Subset
<1>3. \A p \in Peers : missing[p] <= loop.since => missing'[p] + Budget' <= 3
  BY <1>1, BudgetType
<1>4. Near' \in SUBSET Peers /\ IsFiniteSet(Near')
  BY Bounds, FS_Subset DEF Near
<1>5. ASSUME NEW Q, Q \in SUBSET loop.asked, Cardinality(Q) >= MinMesh,
             \A p \in Q : missing[p] <= loop.since
      PROVE  Cardinality(Near') >= MinMesh
  <2>1. Q \in SUBSET Near'
    BY <1>1, <1>3, <1>5 DEF Near
  <2>2. Cardinality(Q) <= Cardinality(Near') /\ Cardinality(Near') \in Nat /\ Cardinality(Q) \in Nat
    BY <1>4, <2>1, FS_Subset, FS_CardinalityType
  <2> QED
    BY <1>5, <2>2, Bounds
<1>6. CASE Cardinality(Matching) >= MinMesh
  <2>1. Matching \in SUBSET loop.asked /\ \A p \in Matching : missing[p] <= loop.since
    BY DEF Matching
  <2> QED
    BY <1>5, <1>6, <2>1
<1>7. CASE \A p \in loop.asked : stale[p] <= loop.since
  <2>1. ASSUME NEW p \in loop.asked PROVE missing[p] <= loop.since
    <3>1. p \in Peers /\ missing[p] <= stale[p] /\ stale[p] <= loop.since
      BY <1>1, <1>7 DEF KeepUp
    <3> QED
      BY <1>1, <3>1, BudgetType
  <2> QED
    BY <1>1, <1>5, <2>1
<1> QED
  BY <1>6, <1>7 DEF MeshReady

LEMMA KeepUpInit == Init => KeepUp
<1> SUFFICES ASSUME Init PROVE KeepUp
  OBVIOUS
<1>1. Budget = 0 /\ \A p \in Peers : missing[p] = 0 /\ stale[p] = 0
  BY RestOK, Nothing DEF Init, Budget
<1>2. Near = Peers
  BY <1>1 DEF Near
<1> QED
  BY <1>1, <1>2, Bounds DEF KeepUp

LEMMA KeepUpStep ==
  ASSUME Shape, Turns, KeepUp, Shape', [Next]_vars, ~ ForgeAndApply
  PROVE  KeepUp'
<1>0. /\ Len(queued) \in Nat /\ Len(running) \in Nat
      /\ \A p \in Peers : missing[p] \in Nat /\ stale[p] \in Nat
  BY BudgetType
<1>1. CASE UNCHANGED <<queued, running, loop, missing, stale>>
  <2>1. Budget' = Budget
    BY <1>1 DEF Budget
  <2> QED
    BY <1>1, <2>1, NoFurther, BudgetType
<1>2. CASE WorkerStarts
  <2> DEFINE r == [txs |-> queued[1], waited |-> TRUE]
  <2>1. /\ queued # <<>> /\ queued' = <<>> /\ running' = <<r>> /\ loop' = loop
        /\ missing' = missing /\ stale' = stale /\ running = <<>>
    BY <1>2 DEF WorkerStarts, mesh
  <2>2. Len(queued) = 1 /\ Len(queued') = 0 /\ Len(running') = 1 /\ Len(running) = 0
    BY <2>1, Only, Nothing DEF Shape, JobsOK
  <2>3. Budget' = Budget
    BY <2>1, <2>2 DEF Budget
  <2> QED
    BY <2>1, <2>3, NoFurther, BudgetType
<1>3. CASE ForgeFails
  <2>1. /\ running' = <<>> /\ loop' = loop /\ queued' = queued
        /\ missing' = missing /\ stale' = stale
    BY <1>3 DEF ForgeFails, mesh
  <2>2. Budget' <= Budget
    BY <1>0, <2>1, Nothing DEF Budget
  <2> QED
    BY <2>1, <2>2, NoFurther
<1>4. CASE Timeout
  <2>1. /\ loop' = loop /\ queued' = <<>> /\ missing' = missing /\ stale' = stale
        /\ running' = [i \in DOMAIN running |-> [running[i] EXCEPT !.waited = FALSE]]
    BY <1>4 DEF Timeout, mesh
  <2>2. Len(running') = Len(running)
    <3>1. DOMAIN running' = DOMAIN running
      BY <2>1
    <3>2. running \in Seq(Jobs) /\ running' \in Seq(Jobs)
      BY DEF Shape, JobsOK
    <3>3. /\ DOMAIN running = 1 .. Len(running) /\ DOMAIN running' = 1 .. Len(running')
          /\ Len(running') \in Nat
      BY <3>2, LenProperties
    <3> QED
      BY <1>0, <3>1, <3>3
  <2>3. Budget' <= Budget
    BY <1>0, <2>1, <2>2, Nothing DEF Budget
  <2> QED
    BY <2>1, <2>3, NoFurther
<1>5. CASE Tick \/ GateCloses \/ GateOpensQueueFull
  <2>1. /\ UNCHANGED <<queued, running, missing, stale>>
        /\ loop' = AtRest \/ loop' = [AtRest EXCEPT !.pc = "gate", !.asked = up]
    BY <1>5 DEF Tick, GateCloses, GateOpensQueueFull, mesh
  <2>2. loop'.pc # "wait"
    <3>1. [AtRest EXCEPT !.pc = "gate", !.asked = up].pc = "gate" /\ AtRest.pc = "idle"
      BY DEF AtRest
    <3> QED
      BY <2>1, <3>1
  <2>3. Budget' <= Budget
    BY <1>0, <2>1, <2>2 DEF Budget
  <2> QED
    BY <2>1, <2>3, NoFurther
<1>6. CASE GateOpens
  <2>1. PICK txs \in GetForBlock : Submit(txs)
    BY <1>6 DEF GateOpens
  <2>2. /\ loop.pc = "gate" /\ MeshReady /\ running' = running
        /\ missing' = missing /\ stale' = stale /\ queued' = <<txs>>
    BY <1>6, <2>1 DEF GateOpens, Submit, mesh
  <2>3. Len(queued') = 1
    BY <2>2
  <2>4. Budget' \in Int /\ Budget' <= Len(running) + 2
    BY <1>0, <2>2, <2>3 DEF Budget
  <2>5. Cardinality(Near') >= MinMesh
    BY <2>2, <2>4, GateNear
  <2> QED
    BY <2>2, <2>5 DEF KeepUp
<1>7. CASE Forged \/ GiveUp
  <2>1. /\ UNCHANGED <<queued, running, missing, stale>> /\ loop' = AtRest
    BY <1>7 DEF Forged, GiveUp, mesh
  <2>2. Budget' <= Budget
    BY <1>0, <2>1, RestOK DEF Budget
  <2> QED
    BY <2>1, <2>2, NoFurther
<1>8. CASE EvictAndForgeEmpty
  <2>1. /\ answer # <<>> /\ loop.txs # <<>> /\ running' = running
        /\ missing' = missing /\ stale' = stale
        /\ \/ loop' = AtRest /\ queued' = queued
           \/ loop' = [AtRest EXCEPT !.pc = "wait", !.txs = <<>>] /\ queued' = <<(<<>>)>>
    BY <1>8 DEF EvictAndForgeEmpty, Failed, Submit, mesh
  <2>2. loop.pc = "wait" /\ queued = <<>> /\ Len(queued) = 0
    BY <2>1, Nothing DEF Turns
  <2>3. Budget = Len(running) + 1
    BY <1>0, <2>1, <2>2 DEF Budget
  <2>4. CASE loop' = AtRest /\ queued' = queued
    <3>1. Budget' <= Budget
      BY <1>0, <2>1, <2>4, RestOK DEF Budget
    <3> QED
      BY <2>1, <3>1, NoFurther
  <2>5. CASE loop' = [AtRest EXCEPT !.pc = "wait", !.txs = <<>>] /\ queued' = <<(<<>>)>>
    <3>1. loop'.txs = <<>> /\ Len(queued') = 1
      BY <2>5 DEF AtRest
    <3>2. Budget' = Len(running) + 1
      BY <1>0, <2>1, <3>1 DEF Budget
    <3> QED
      BY <1>0, <2>1, <2>3, <3>2, NoFurther
  <2> QED
    BY <2>1, <2>4, <2>5
<1>9. CASE \E p \in Peers : PeerImports(p) \/ PeerStatus(p) \/ Connect(p)
  <2>1. PICK p \in Peers : PeerImports(p) \/ PeerStatus(p) \/ Connect(p)
    BY <1>9
  <2>2. UNCHANGED <<queued, running, loop>>
    BY <2>1 DEF PeerImports, PeerStatus, Connect
  <2>3. Budget' = Budget /\ Budget \in Nat
    BY <2>2, BudgetType DEF Budget
  <2>4. CASE PeerImports(p)
    <3>1. /\ missing' = [missing EXCEPT ![p] = missing[p] - 1] /\ stale' = stale
          /\ missing \in [Peers -> 0 .. MaxLag] /\ missing[p] > 0
      BY <2>4 DEF PeerImports, Shape, MeshOK
    <3>2. \A q \in Peers : missing'[q] <= missing[q] /\ missing'[q] \in Nat
      BY <1>0, <3>1
    <3>3. \A q \in Peers : missing[q] + Budget <= 3 => missing'[q] + Budget' <= 3
      BY <1>0, <2>3, <3>2
    <3>4. Cardinality(Near') >= MinMesh
      BY <3>3, StillNear
    <3>5. \A q \in Peers : missing'[q] <= stale[q]
      BY <1>0, <3>2 DEF KeepUp
    <3> QED
      BY <3>1, <3>4, <3>5 DEF KeepUp
  <2>5. CASE PeerStatus(p)
    <3>1. /\ stale' = [stale EXCEPT ![p] = missing[p]] /\ missing' = missing
          /\ stale \in [Peers -> 0 .. MaxLag]
      BY <2>5 DEF PeerStatus, Shape, MeshOK
    <3>2. Cardinality(Near') >= MinMesh
      BY <2>3, <3>1, StillNear
    <3>3. \A q \in Peers : missing[q] <= stale'[q]
      BY <1>0, <3>1 DEF KeepUp
    <3> QED
      BY <3>1, <3>2, <3>3 DEF KeepUp
  <2>6. CASE Connect(p)
    BY <1>1, <2>6 DEF Connect
  <2> QED
    BY <2>1, <2>4, <2>5, <2>6
<1>10. CASE (\E tx \in Txs : ValidateTransaction(tx) \/ StorePut(tx)) \/ UNCHANGED vars
  <2>1. UNCHANGED <<queued, running, loop, missing, stale>>
    BY <1>10 DEF ValidateTransaction, StorePut, vars, mesh
  <2> QED
    BY <1>1, <2>1
<1> QED
  BY <1>2, <1>3, <1>4, <1>5, <1>6, <1>7, <1>8, <1>9, <1>10 DEF Next, Worker, Loop


-----------------------------------------------------------------------------
(* What is on the chain.                                                   *)

LEMMA KnownStep ==
  ASSUME Shape, AnswerKnown, [Next]_vars, ~ ForgeAndApply
  PROVE  AnswerKnown' /\ UNCHANGED <<ledger, nonce>>
<1> DEFINE no == [ok |-> FALSE, txs |-> <<>>]
<1>1. UNCHANGED <<ledger, nonce>>
  BY DEF Next, Worker, Loop, ValidateTransaction, StorePut, Connect, PeerImports, PeerStatus,
         WorkerStarts, ForgeFails, Tick, GateCloses, Forged, EvictAndForgeEmpty, GiveUp,
         GateOpens, GateOpensQueueFull, Timeout, vars, chain
<1>2. answer' \in {answer, <<>>, <<no>>}
  <2>1. CASE ForgeFails \/ Timeout
    BY <2>1 DEF ForgeFails, Timeout, Tell
  <2>2. CASE Forged \/ EvictAndForgeEmpty \/ GiveUp
    BY <2>2 DEF Forged, EvictAndForgeEmpty, GiveUp
  <2>3. CASE ~ (ForgeFails \/ Timeout \/ Forged \/ EvictAndForgeEmpty \/ GiveUp)
    BY <2>3 DEF Next, Worker, Loop, ValidateTransaction, StorePut, Connect, PeerImports,
                PeerStatus, WorkerStarts, Tick, GateCloses, GateOpens, GateOpensQueueFull, vars
  <2> QED
    BY <2>1, <2>2, <2>3
<1>3. <<no>>[1].ok = FALSE
  OBVIOUS
<1>4. AnswerKnown'
  <2> HIDE DEF no
  <2>1. CASE answer' = answer
    BY <1>1, <2>1 DEF AnswerKnown
  <2>2. CASE answer' = <<>>
    BY <2>2 DEF AnswerKnown
  <2>3. CASE answer' = <<no>>
    BY <1>3, <2>3 DEF AnswerKnown
  <2> QED
    BY <1>2, <2>1, <2>2, <2>3
<1> QED
  BY <1>1, <1>4

LEMMA NumberedInit == Init => Numbered
<1> SUFFICES ASSUME Init PROVE Numbered
  OBVIOUS
<1>1. /\ ledger = <<>> /\ Len(ledger) = 0 /\ DOMAIN ledger = {}
      /\ DOMAIN queued = {} /\ DOMAIN running = {}
  BY Nothing DEF Init
<1>2. ASSUME NEW a PROVE Count(ledger, Len(ledger), a) = 0
  <2>1. Places(ledger, Len(ledger), a) = {}
    BY <1>1 DEF Places
  <2> QED
    BY <2>1, FS_EmptySet DEF Count
<1>3. \A a \in Senders : nonce[a] = 0
  BY DEF Init
<1> QED
  BY <1>1, <1>2, <1>3 DEF Numbered, NoncesInOrder

\* The lists under way go up, and the chain stays.
LEMMA NumberedQuiet ==
  ASSUME Numbered, UNCHANGED <<ledger, nonce>>,
         \A i \in DOMAIN queued' : GoesUp(queued'[i]),
         \A i \in DOMAIN running' : GoesUp(running'[i].txs)
  PROVE  Numbered'
<1>1. NoncesInOrder' /\ \A a \in Senders : nonce'[a] = Count(ledger, Len(ledger), a)'
  BY DEF Numbered, NoncesInOrder
<1>2. \A i \in DOMAIN queued' : GoesUp(queued[i])'
  BY DEF GoesUp
<1>3. \A i \in DOMAIN running' : GoesUp(running[i].txs)'
  BY DEF GoesUp
<1> QED
  BY <1>1, <1>2, <1>3 DEF Numbered

LEMMA NumberedStep ==
  ASSUME Shape, Numbered, AnswerKnown, [Next]_vars, ~ ForgeAndApply
  PROVE  Numbered'
<1>0. UNCHANGED <<ledger, nonce>>
  BY KnownStep
<1>1. /\ \A i \in DOMAIN queued : GoesUp(queued[i])
      /\ \A i \in DOMAIN running : GoesUp(running[i].txs)
  BY DEF Numbered
<1>2. CASE WorkerStarts
  <2> DEFINE r == [txs |-> queued[1], waited |-> TRUE]
  <2>1. queued # <<>> /\ queued' = <<>> /\ running' = <<r>>
    BY <1>2 DEF WorkerStarts
  <2>2. GoesUp(queued[1])
    BY <1>1, <2>1, Only DEF Shape, JobsOK
  <2>3. DOMAIN running' = {1} /\ running'[1].txs = queued[1]
    BY <2>1
  <2>4. \A i \in DOMAIN running' : GoesUp(running'[i].txs)
    BY <2>2, <2>3
  <2>5. DOMAIN queued' = {}
    BY <2>1, Nothing
  <2> QED
    BY <1>0, <2>4, <2>5, NumberedQuiet
<1>3. CASE ForgeFails
  <2>1. running' = <<>> /\ queued' = queued
    BY <1>3 DEF ForgeFails
  <2>2. DOMAIN running' = {}
    BY <2>1, Nothing
  <2> QED
    BY <1>0, <1>1, <2>1, <2>2, NumberedQuiet
<1>4. CASE Timeout
  <2>1. /\ running' = [i \in DOMAIN running |-> [running[i] EXCEPT !.waited = FALSE]]
        /\ queued' = <<>>
    BY <1>4 DEF Timeout
  <2>2. \A i \in DOMAIN running : running[i] \in Jobs
    BY LenProperties DEF Shape, JobsOK
  <2>3. DOMAIN running' = DOMAIN running /\ \A i \in DOMAIN running : running'[i].txs = running[i].txs
    BY <2>1, <2>2 DEF Jobs
  <2>4. \A i \in DOMAIN running' : GoesUp(running'[i].txs)
    BY <1>1, <2>3
  <2>5. DOMAIN queued' = {}
    BY <2>1, Nothing
  <2> QED
    BY <1>0, <2>4, <2>5, NumberedQuiet
<1>5. CASE GateOpens
  <2>1. PICK txs \in GetForBlock : Submit(txs)
    BY <1>5 DEF GateOpens
  <2>2. GoesUp(txs)
    BY PackedFacts, InTurnGoesUp DEF Shape, ChainOK
  <2>3. queued' = <<txs>> /\ running' = running
    BY <1>5, <2>1 DEF GateOpens, Submit
  <2>4. DOMAIN queued' = {1} /\ queued'[1] = txs
    BY <2>3
  <2>5. \A i \in DOMAIN queued' : GoesUp(queued'[i])
    BY <2>2, <2>4
  <2> QED
    BY <1>0, <1>1, <2>3, <2>5, NumberedQuiet
<1>6. CASE EvictAndForgeEmpty
  <2>1. running' = running /\ (queued' = queued \/ queued' = <<(<<>>)>>)
    BY <1>6 DEF EvictAndForgeEmpty, Submit
  <2>2. GoesUp(<<>>)
    BY Nothing DEF GoesUp
  <2>3. \A i \in DOMAIN queued' : GoesUp(queued'[i])
    <3>1. CASE queued' = queued
      BY <1>1, <3>1
    <3>2. CASE queued' = <<(<<>>)>>
      <4>1. DOMAIN queued' = {1} /\ queued'[1] = <<>>
        BY <3>2
      <4> QED
        BY <2>2, <4>1
    <3> QED
      BY <2>1, <3>1, <3>2
  <2> QED
    BY <1>0, <1>1, <2>1, <2>3, NumberedQuiet
<1>7. CASE ~ (WorkerStarts \/ ForgeFails \/ Timeout \/ GateOpens \/ EvictAndForgeEmpty)
  <2>1. UNCHANGED <<queued, running>>
    BY <1>7 DEF Next, Worker, Loop, ValidateTransaction, StorePut, Connect, PeerImports,
                PeerStatus, Tick, GateCloses, Forged, GiveUp, GateOpensQueueFull, vars
  <2> QED
    BY <1>0, <1>1, <2>1, NumberedQuiet
<1> QED
  BY <1>2, <1>3, <1>4, <1>5, <1>6, <1>7

\* A block lands, of a forge the loop waits for or of one it gave up.
LEMMA ForgeStep ==
  ASSUME MiningInv, ForgeAndApply
  PROVE  MiningInv'
<1>0. /\ Shape /\ Turns /\ AnswerKnown /\ KeepUp /\ Numbered
      /\ PoolOK /\ ChainOK /\ JobsOK /\ LoopOK /\ MeshOK
  BY DEF MiningInv, Shape
<1>1. /\ running # <<>> /\ running' = <<>> /\ queued' = queued
      /\ missing' = [p \in Peers |-> Longer(missing[p])]
      /\ stale' = [p \in Peers |-> Longer(stale[p])]
      /\ loop' = IF loop.pc = "gate" THEN [loop EXCEPT !.since = Longer(@)] ELSE loop
      /\ UNCHANGED <<arriving, pool, hold, up>>
  BY DEF ForgeAndApply
<1>2. PICK b \in CreateBlock(running[1].txs) :
        /\ ledger' = ledger \o b
        /\ nonce' = [a \in Senders |-> nonce[a] + Count(b, Len(b), a)]
        /\ Tell([ok |-> TRUE, txs |-> b])
  BY DEF ForgeAndApply
<1>3. Len(running) = 1 /\ running[1] \in Jobs /\ 1 \in DOMAIN running
  BY <1>0, <1>1, Only DEF JobsOK
<1>4. running[1].txs \in Seq(Txs) /\ GoesUp(running[1].txs)
  BY <1>0, <1>3 DEF Jobs, Numbered
<1>5. b \in Seq(Txs) /\ GoesUp(b) /\ Complete(b, nonce)
  BY <1>0, <1>4, CreateFacts DEF ChainOK
<1>6. /\ Len(b) \in Nat /\ DOMAIN b = 1 .. Len(b)
      /\ Len(ledger) \in Nat /\ DOMAIN ledger = 1 .. Len(ledger) /\ ledger \in Seq(Txs)
      /\ nonce \in [Senders -> Nat]
  BY <1>0, <1>5, LenProperties DEF ChainOK
<1>7. /\ ledger' \in Seq(Txs) /\ Len(ledger') = Len(ledger) + Len(b)
      /\ DOMAIN ledger' = 1 .. Len(ledger) + Len(b)
      /\ \A i \in 1 .. Len(ledger) + Len(b) :
          ledger'[i] = IF i <= Len(ledger) THEN ledger[i] ELSE b[i - Len(ledger)]
  <2>1. /\ ledger \o b \in Seq(Txs) /\ Len(ledger \o b) = Len(ledger) + Len(b)
        /\ \A i \in 1 .. Len(ledger) + Len(b) :
            (ledger \o b)[i] = IF i <= Len(ledger) THEN ledger[i] ELSE b[i - Len(ledger)]
    BY <1>5, <1>6, ConcatProperties
  <2>2. DOMAIN (ledger \o b) = 1 .. Len(ledger) + Len(b)
    BY <2>1, LenProperties
  <2> QED
    BY <1>2, <2>1, <2>2
<1>8. Shape'
  <2>1. PoolOK'
    BY <1>0, <1>1 DEF PoolOK
  <2>2. ChainOK'
    <3>1. \A a \in Senders : nonce[a] + Count(b, Len(b), a) \in Nat
      BY <1>6, CountType
    <3> QED
      BY <1>2, <1>7, <3>1 DEF ChainOK
  <2>3. JobsOK'
    <3>1. [ok |-> TRUE, txs |-> b] \in Results
      BY <1>5 DEF Results
    <3>2. answer' \in Seq(Results) /\ Len(answer') <= 1
      BY <1>0, <1>2, <3>1, TellOK
    <3>3. running' \in Seq(Jobs) /\ Len(running') <= 1
      BY <1>1, Nothing
    <3> QED
      BY <1>0, <1>1, <3>2, <3>3 DEF JobsOK
  <2>4. LoopOK'
    <3>1. Longer(loop.since) \in Nat
      BY <1>0, Bounds DEF Longer, LoopOK, Loops
    <3>2. loop' \in Loops /\ loop'.txs = loop.txs
      BY <1>0, <1>1, <3>1 DEF LoopOK, Loops
    <3> QED
      BY <1>0, <1>1, <3>2 DEF LoopOK
  <2>5. MeshOK'
    <3>1. \A p \in Peers : Longer(missing[p]) \in 0 .. MaxLag /\ Longer(stale[p]) \in 0 .. MaxLag
      BY <1>0, BudgetType, LongerFacts
    <3> QED
      BY <1>0, <1>1, <3>1 DEF MeshOK
  <2> QED
    BY <2>1, <2>2, <2>3, <2>4, <2>5 DEF Shape
<1>9. Turns'
  <2>0. loop \in Loops
    BY <1>0 DEF LoopOK
  <2>1. loop'.pc = loop.pc /\ loop'.asked = loop.asked
    BY <1>1, <2>0 DEF Loops
  <2>2. loop.pc = "gate" => loop'.since + Len(running') <= 1
    <3>1. ASSUME loop.pc = "gate" PROVE loop'.since + Len(running') <= 1
      <4>1. loop.since = 0
        BY <1>0, <1>3, <2>0, <3>1 DEF Turns, Loops
      <4>2. loop'.since = Longer(loop.since)
        BY <1>1, <2>0, <3>1 DEF Loops
      <4>3. Longer(0) \in Nat /\ Longer(0) <= 1
        BY Bounds DEF Longer
      <4>4. Len(running') = 0
        BY <1>1, Nothing
      <4> QED
        BY <4>1, <4>2, <4>3, <4>4
    <3> QED
      BY <3>1
  <2>3. answer' # <<>> => loop.pc = "wait"
    BY <1>0, <1>1, <1>2 DEF Tell, Turns
  <2>4. queued # <<>> => answer' = <<>>
    BY <1>0, <1>1, <1>2 DEF Tell, Turns
  <2> QED
    BY <1>0, <1>1, <2>1, <2>2, <2>3, <2>4 DEF Turns
<1>10. AnswerKnown'
  <2>1. ToSet(ledger) \subseteq ToSet(ledger') /\ ToSet(b) \subseteq ToSet(ledger')
    <3>1. ASSUME NEW i \in 1 .. Len(ledger) PROVE ledger[i] \in ToSet(ledger')
      <4>1. i \in 1 .. Len(ledger) + Len(b) /\ i <= Len(ledger)
        BY <1>6
      <4>2. ledger'[i] = ledger[i]
        BY <1>7, <4>1
      <4> QED
        BY <1>7, <4>1, <4>2 DEF ToSet
    <3>2. ASSUME NEW i \in 1 .. Len(b) PROVE b[i] \in ToSet(ledger')
      <4> DEFINE k == Len(ledger) + i
      <4>1. k \in 1 .. Len(ledger) + Len(b) /\ ~ (k <= Len(ledger)) /\ k - Len(ledger) = i
        BY <1>6
      <4> HIDE DEF k
      <4>2. ledger'[k] = b[i]
        BY <1>7, <4>1
      <4> QED
        BY <1>7, <4>1, <4>2 DEF ToSet
    <3> QED
      BY <1>6, <3>1, <3>2 DEF ToSet
  <2> DEFINE r == [ok |-> TRUE, txs |-> b]
  <2>2. answer' = <<r>> \/ answer' = answer
    BY <1>2 DEF Tell
  <2>3. <<r>>[1].txs = b
    OBVIOUS
  <2> HIDE DEF r
  <2>4. CASE answer' = <<r>>
    BY <2>1, <2>3, <2>4 DEF AnswerKnown
  <2>5. CASE answer' = answer
    BY <1>0, <2>1, <2>5 DEF AnswerKnown
  <2> QED
    BY <2>2, <2>4, <2>5
<1>11. KeepUp'
  <2>1. Len(running') = 0 /\ loop'.pc = loop.pc /\ loop'.txs = loop.txs
    BY <1>0, <1>1, Nothing DEF LoopOK, Loops
  <2>2. Budget = Budget' + 1 /\ Budget' \in Nat
    <3>1. Len(queued) \in Nat
      BY <1>0, BudgetType
    <3> QED
      BY <1>1, <1>3, <2>1, <3>1 DEF Budget
  <2>3. \A p \in Peers : /\ missing[p] \in Nat /\ missing'[p] = Longer(missing[p])
                         /\ Longer(missing[p]) \in Nat /\ Longer(missing[p]) <= missing[p] + 1
    BY <1>0, <1>1, BudgetType, LongerFacts, Bounds
  <2>4. \A p \in Peers : missing[p] + Budget <= 3 => missing'[p] + Budget' <= 3
    BY <2>2, <2>3
  <2>5. Cardinality(Near') >= MinMesh
    BY <1>0, <2>4, StillNear
  <2>6. \A p \in Peers : Longer(missing[p]) <= Longer(stale[p])
    BY <1>0, BudgetType, LongerFacts DEF KeepUp
  <2>7. \A p \in Peers : missing'[p] <= stale'[p]
    BY <1>1, <2>6
  <2> QED
    BY <2>5, <2>7 DEF KeepUp
<1>12. Numbered'
  <2>1. \A a \in Senders : nonce'[a] = Count(ledger, Len(ledger), a)'
    <3> SUFFICES ASSUME NEW a \in Senders PROVE nonce'[a] = Count(ledger, Len(ledger), a)'
      OBVIOUS
    <3>1. nonce'[a] = nonce[a] + Count(b, Len(b), a)
      BY <1>2
    <3>2. nonce[a] = Count(ledger, Len(ledger), a)
      BY <1>0 DEF Numbered
    <3>3. Len(b) \in 0 .. Len(b)
      BY <1>6
    <3>4. Count(ledger \o b, Len(ledger) + Len(b), a)
            = Count(ledger, Len(ledger), a) + Count(b, Len(b), a)
      BY <1>5, <1>6, <3>3, CatCount
    <3>5. nonce'[a] = Count(ledger \o b, Len(ledger) + Len(b), a)
      BY <3>1, <3>2, <3>4
    <3>6. nonce'[a] = Count(ledger', Len(ledger'), a)
      BY <1>2, <1>7, <3>5
    <3> QED
      BY <3>6 DEF Count, Places
  <2>2. ASSUME NEW i \in DOMAIN ledger'
        PROVE  ledger'[i].nonce = Count(ledger', i - 1, ledger'[i].from)
    <3>0. i \in Nat /\ i >= 1 /\ i <= Len(ledger) + Len(b) /\ i \in 1 .. Len(ledger) + Len(b)
      BY <1>6, <1>7
    <3>1. CASE i <= Len(ledger)
      <4>1. i \in DOMAIN ledger /\ ledger'[i] = ledger[i]
        BY <1>6, <1>7, <3>0, <3>1
      <4> DEFINE a == ledger[i].from
      <4>2. ledger[i].nonce = Count(ledger, i - 1, a)
        BY <1>0, <4>1 DEF Numbered, NoncesInOrder
      <4>3. \A j \in 1 .. (i - 1) : ledger'[j] = ledger[j]
        <5>1. \A j \in 1 .. (i - 1) : j \in 1 .. Len(ledger) + Len(b) /\ j <= Len(ledger)
          BY <1>6, <3>0, <3>1
        <5> QED
          BY <1>7, <5>1
      <4>4. Places(ledger', i - 1, a) = Places(ledger, i - 1, a)
        BY <4>3 DEF Places
      <4> QED
        BY <4>1, <4>2, <4>4 DEF Count
    <3>2. CASE ~ (i <= Len(ledger))
      <4> DEFINE k == i - Len(ledger)
                 a == b[k].from
      <4>1. /\ k \in DOMAIN b /\ k - 1 \in 0 .. Len(b)
            /\ Len(ledger) + (k - 1) = i - 1
        BY <1>6, <3>0, <3>2
      <4>2. ledger'[i] = b[k]
        BY <1>7, <3>0, <3>2
      <4>3. a \in Senders
        BY <1>5, <1>6, <4>1, ElementOfSeq, TxFacts
      <4>4. b[k].nonce = nonce[a] + Count(b, k - 1, a)
        BY <1>5, <1>6, <4>1, CompleteInTurn
      <4>5. nonce[a] = Count(ledger, Len(ledger), a)
        BY <1>0, <4>3 DEF Numbered
      <4> HIDE DEF k
      <4>6. Count(ledger \o b, Len(ledger) + (k - 1), a)
              = Count(ledger, Len(ledger), a) + Count(b, k - 1, a)
        BY <1>5, <1>6, <4>1, CatCount
      <4> QED
        BY <1>2, <4>1, <4>2, <4>4, <4>5, <4>6
    <3> QED
      BY <3>1, <3>2
  <2>3. NoncesInOrder'
    BY <2>2 DEF NoncesInOrder, Count, Places
  <2>4. \A i \in DOMAIN queued' : GoesUp(queued[i])'
    BY <1>0, <1>1 DEF Numbered, GoesUp
  <2>5. DOMAIN running' = {}
    BY <1>1, Nothing
  <2> QED
    BY <2>1, <2>3, <2>4, <2>5 DEF Numbered
<1> QED
  BY <1>8, <1>9, <1>10, <1>11, <1>12 DEF MiningInv

LEMMA MiningInit == Init => MiningInv
<1>1. Init => AnswerKnown
  BY DEF Init, AnswerKnown
<1> QED
  BY <1>1, ShapeInit, TurnsInit, KeepUpInit, NumberedInit DEF MiningInv

LEMMA MiningStep == MiningInv /\ [Next]_vars => MiningInv'
<1> SUFFICES ASSUME MiningInv, [Next]_vars PROVE MiningInv'
  OBVIOUS
<1>0. Shape /\ Turns /\ AnswerKnown /\ KeepUp /\ Numbered
  BY DEF MiningInv
<1>1. CASE ForgeAndApply
  BY <1>1, ForgeStep
<1>2. CASE ~ ForgeAndApply
  <2>1. Shape'
    BY <1>0, <1>2, ShapeOutside, ShapeWorker, ShapeLoop DEF Next, Worker, Loop
  <2>2. Turns'
    BY <1>0, <1>2, <2>1, TurnsStep
  <2>3. KeepUp'
    BY <1>0, <1>2, <2>1, KeepUpStep
  <2>4. AnswerKnown' /\ Numbered'
    BY <1>0, <1>2, KnownStep, NumberedStep
  <2> QED
    BY <2>1, <2>2, <2>3, <2>4 DEF MiningInv
<1> QED
  BY <1>1, <1>2

LEMMA MiningHolds == Spec => []MiningInv
  BY MiningInit, MiningStep, PTL DEF Spec

\* The pool never exceeds its capacity, however transactions come, are pushed
\* out, forged and evicted, and the jobs and lists of the loop keep their
\* limits (Mempool._store_put, get_for_block).
THEOREM MiningTyped == Spec => []TypeOK
<1>1. ASSUME MiningInv PROVE TypeOK
  <2>1. PoolOK /\ ChainOK /\ JobsOK /\ LoopOK /\ MeshOK
    BY <1>1 DEF MiningInv, Shape
  <2>2. Len(queued) + Len(running) <= 2
    BY <1>1, <2>1, BudgetType DEF MiningInv, JobsOK
  <2>3. loop.pc \in {"idle", "gate", "wait"} /\ loop.txs \in Seq(Txs) /\ Len(loop.txs) <= Limit
    BY <2>1 DEF LoopOK, Loops
  <2> QED
    BY <2>1, <2>2, <2>3 DEF TypeOK, PoolOK, ChainOK, LoopOK, MeshOK
<1> QED
  BY <1>1, MiningHolds, PTL

\* On the chain every account's nonces are 0, 1, 2, ...: create_block, which
\* checks again what was packed, keeps them so although a forge the loop gave
\* up may land between the packing and the next forge.
THEOREM NoncesHold == Spec => []NoncesInOrder
<1>1. MiningInv => NoncesInOrder
  BY DEF MiningInv, Numbered
<1> QED
  BY <1>1, MiningHolds, PTL

\* Enough peers have all but the last three blocks of the hub: the mesh gate
\* bounds what late forges and the empty retry can add (mesh_ready_for_mining).
THEOREM PeersStayNear == Spec => []PeersKeepUp
<1>1. ASSUME MiningInv PROVE PeersKeepUp
  <2> DEFINE Q == {p \in Peers : missing[p] <= 3}
  <2>1. Shape /\ KeepUp
    BY <1>1 DEF MiningInv
  <2>2. \A p \in Peers : missing[p] + Budget <= 3 => missing[p] <= 3
    BY <2>1, BudgetType
  <2>3. Near \in SUBSET Q /\ Q \in SUBSET Peers
    BY <2>2 DEF Near
  <2> HIDE DEF Q
  <2>4. IsFiniteSet(Q)
    BY <2>3, Bounds, FS_Subset
  <2>5. Cardinality(Near) <= Cardinality(Q) /\ Cardinality(Q) \in Nat /\ Cardinality(Near) \in Nat
    BY <2>3, <2>4, FS_Subset, FS_CardinalityType
  <2>6. Cardinality(Q) >= MinMesh
    BY <2>1, <2>5, Bounds DEF KeepUp
  <2> QED
    BY <2>6 DEF PeersKeepUp, Q
<1> QED
  BY <1>1, MiningHolds, PTL

\* A transaction that leaves the pool is on the chain, or the forge it was
\* packed for failed, or it was one of the cheapest of a full pool; also when
\* a forge ran past its time-out (Forged, eviction, StorePut).
THEOREM NoTxVanishes == Spec => NoneVanishes
<1> DEFINE Gone(tx) ==
      \/ tx \in ToSet(ledger)
      \/ Failed /\ tx \in ToSet(loop.txs)
      \/ Cardinality(pool) >= PoolMax /\ \A t \in pool \cap pool' : tx.fee <= t.fee
<1>1. ASSUME MiningInv, [Next]_vars
      PROVE  [\A tx \in pool \ pool' : Gone(tx)]_vars
  <2> SUFFICES ASSUME NEW tx \in pool \ pool' PROVE Gone(tx)
    OBVIOUS
  <2>1. ASSUME NEW u \in Txs, StorePut(u) PROVE Gone(tx)
    <3>1. PICK out \in IF Cardinality(pool) >= PoolMax THEN Cheapest ELSE {{}} :
            pool' = (pool \ out) \cup {u}
      BY <2>1 DEF StorePut
    <3>2. tx \in out /\ tx # u
      BY <3>1
    <3>3. Cardinality(pool) >= PoolMax /\ out \in Cheapest
      BY <3>1, <3>2
    <3>4. \A t \in pool \ out : tx.fee <= t.fee
      BY <3>2, <3>3 DEF Cheapest
    <3>5. CASE u \notin pool \/ u \notin out
      <4>1. \A t \in pool \cap pool' : t \in pool \ out
        BY <3>1, <3>5
      <4> QED
        BY <3>3, <3>4, <4>1
    <3>6. CASE u \in pool /\ u \in out
      BY <1>1, <2>1, <3>6 DEF MiningInv, Shape, PoolOK, StorePut
    <3> QED
      BY <3>5, <3>6
  <2>2. CASE Forged
    <3>1. tx \in ToSet(answer[1].txs) /\ answer # <<>> /\ answer[1].ok
      BY <2>2 DEF Forged
    <3> QED
      BY <1>1, <3>1 DEF MiningInv, AnswerKnown
  <2>3. CASE EvictAndForgeEmpty
    BY <2>3 DEF EvictAndForgeEmpty
  <2>4. CASE ~ ((\E u \in Txs : StorePut(u)) \/ Forged \/ EvictAndForgeEmpty)
    <3>1. pool' = pool
      BY <1>1, <2>4 DEF Next, Worker, Loop, ValidateTransaction, Connect, PeerImports,
                        PeerStatus, WorkerStarts, ForgeAndApply, ForgeFails, Tick, GateCloses,
                        GiveUp, GateOpens, GateOpensQueueFull, Timeout, vars
    <3> QED
      BY <3>1
  <2> QED
    BY <2>1, <2>2, <2>3, <2>4
<1> QED
  BY <1>1, MiningHolds, PTL DEF Spec, NoneVanishes

=============================================================================
