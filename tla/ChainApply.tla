----------------------------- MODULE ChainApply -----------------------------
(***************************************************************************)
(* core/chain_apply_queue.py: the one worker thread that mutates the       *)
(* chain, the bounded priority queue in front of it and the callers (P2P   *)
(* import, catch-up, fork reconcile, the mining loop) that wait on it.     *)
(*                                                                         *)
(* A submission is a sequence number j into job and fut.  A caller takes   *)
(* its number and puts the job in the queue in two steps; its wait ends    *)
(* when the worker resolves the future or when the wait times out,         *)
(* whichever comes first.  Between two calls into the blockchain           *)
(* (create/add, reorg/import) the worker does not hold the chain lock, so  *)
(* these are separate steps.                                               *)
(***************************************************************************)
EXTENDS Blockchain

CONSTANTS
  Requests,   \* what callers may submit: records [kind, block, to]
  LocalMiner, \* the proposer of FORGE_AND_APPLY
  MaxSize,    \* capacity of the queue (chain_apply_queue_max)
  MaxJobs     \* bound on the number of submissions

Kinds == {"STOP", "REORG", "REORG_AND_IMPORT", "FORGE_AND_APPLY", "ADD", "IMPORT"}

ASSUME ChainApplyAssumption ==
  /\ Requests \subseteq [kind : Kinds \ {"STOP"}, block : Blocks \cup {NoBlock}, to : Nat]
  /\ \A r \in Requests :
       r.kind \in {"ADD", "IMPORT", "REORG_AND_IMPORT"} => r.block \in Blocks
  /\ LocalMiner \in Miners
  /\ MaxSize \in Nat \ {0}
  /\ MaxJobs \in Nat

VARIABLES
  job,      \* job[j]: the request with sequence number j, Served when over
  fut,      \* fut[j]: how the caller's wait on j ended, "waiting" until then
  putting,  \* numbers taken but not yet put in the queue
  queue,    \* numbers in the PriorityQueue
  due,      \* numbers whose deadline_monotonic has passed
  worker,   \* the worker thread: [pc, job, cand]
  running   \* ChainApplyQueue._running

queueVars == <<job, fut, putting, queue, due, worker, running>>
vars == <<chainVars, queueVars>>

Priority(kind) ==
  CASE kind = "STOP" -> 0
    [] kind \in {"REORG", "REORG_AND_IMPORT"} -> 1
    [] kind = "FORGE_AND_APPLY" -> 2
    [] kind = "ADD" -> 3
    [] kind = "IMPORT" -> 4

\* A faulty variant of Before without the FIFO tie-break.
BeforeByLane(i, j) == Priority(job[i].kind) < Priority(job[j].kind)

\* _PriItem ordering: lane first, then submission order.
Before(i, j) ==
  \/ Priority(job[i].kind) < Priority(job[j].kind)
  \/ Priority(job[i].kind) = Priority(job[j].kind) /\ i < j

IsNext(j) == j \in queue /\ \A i \in queue \ {j} : Before(j, i)

\* Nobody refers to a job object after it was answered or rejected.
Served == [kind |-> "SERVED", block |-> NoBlock, to |-> 0]

NoJob == 0
At(pc, j, cand) == [pc |-> pc, job |-> j, cand |-> cand]
Idle == At("top", NoJob, NoBlock)
Current == job[worker.job]

Init ==
  /\ InitChain
  /\ job = <<>> /\ fut = <<>>
  /\ putting = {} /\ queue = {} /\ due = {}
  /\ worker = Idle
  /\ running = TRUE

\* Job j is over; its future gets the outcome unless the caller has left.
Settle(j, outcome) ==
  /\ fut' = [fut EXCEPT ![j] = IF @ = "waiting" THEN outcome ELSE @]
  /\ job' = [job EXCEPT ![j] = Served]
  /\ due' = due \ {j}

-----------------------------------------------------------------------------
(***************************************************************************)
(* Callers.                                                                *)
(***************************************************************************)

TakeNumber(r) ==
  /\ Len(job) < MaxJobs
  /\ job' = Append(job, r)
  /\ fut' = Append(fut, "waiting")
  /\ putting' = putting \cup {Len(job) + 1}

\* _enqueue up to the sequence number.  It does not look at _running.
Submit(r) ==
  /\ TakeNumber(r)
  /\ UNCHANGED <<chainVars, queue, due, worker, running>>

\* put_nowait: queue.Full rejects the submission (and drops a STOP).
Put(j) ==
  /\ j \in putting
  /\ putting' = putting \ {j}
  /\ IF Cardinality(queue) < MaxSize
       THEN queue' = queue \cup {j} /\ UNCHANGED <<job, fut, due>>
       ELSE Settle(j, "rejected") /\ UNCHANGED queue
  /\ UNCHANGED <<chainVars, worker, running>>

\* stop(): clear _running, then submit a STOP job.
Stop ==
  /\ running
  /\ running' = FALSE
  /\ TakeNumber([kind |-> "STOP", block |-> NoBlock, to |-> 0])
  /\ UNCHANGED <<chainVars, queue, due, worker>>

\* Time passes the deadline of a job that is still on its way; a STOP job has
\* no deadline and nobody waits on it.
Elapse(j) ==
  /\ job[j].kind # "STOP"
  /\ j \in (putting \cup queue \cup {worker.job}) \ (due \cup {NoJob})
  /\ due' = due \cup {j}
  /\ UNCHANGED <<chainVars, job, fut, putting, queue, worker, running>>

GiveUp(j) ==
  /\ fut[j] = "waiting"
  /\ fut' = [fut EXCEPT ![j] = "gaveup"]
  /\ UNCHANGED <<chainVars, job, putting, queue, due, worker, running>>

\* A faulty variant of QueueTimeout: Future.result without a timeout.
QueueTimeoutNever(j) == j \in due /\ FALSE /\ GiveUp(j)

\* _result_or_timeout / _await_job: the wait is as long as the deadline, and
\* starts after it was set.
QueueTimeout(j) == j \in due /\ j \notin putting /\ GiveUp(j)

\* The catch-up and the fork adapter wait 30 s and 60 s, less than the queue's
\* own 120 s.
CatchUpTimeout(j) == job[j].kind = "REORG" /\ GiveUp(j)
ForkTimeout(j) == job[j].kind = "REORG_AND_IMPORT" /\ GiveUp(j)
AdapterTimeout(j) == CatchUpTimeout(j) \/ ForkTimeout(j)

-----------------------------------------------------------------------------
(***************************************************************************)
(* The worker thread, _run and _dispatch.                                  *)
(***************************************************************************)

\* A faulty variant of WorkerLoop that never looks at _running.
WorkerLoopForever ==
  /\ worker.pc = "top"
  /\ worker' = At("get", NoJob, NoBlock)
  /\ UNCHANGED <<chainVars, job, fut, putting, queue, due, running>>

\* The loop test, before a blocking get.
WorkerLoop ==
  /\ worker.pc = "top"
  /\ worker' = At(IF running THEN "get" ELSE "exit", NoJob, NoBlock)
  /\ UNCHANGED <<chainVars, job, fut, putting, queue, due, running>>

\* get(timeout=0.5) raises Empty.
WorkerGetEmpty ==
  /\ worker.pc = "get" /\ queue = {}
  /\ worker' = Idle
  /\ UNCHANGED <<chainVars, job, fut, putting, queue, due, running>>

\* A faulty variant of WorkerGet that leaves the job in the queue.
WorkerGetPeeks ==
  /\ worker.pc = "get"
  /\ \E j \in queue : IsNext(j) /\ worker' = At("held", j, NoBlock)
  /\ UNCHANGED <<chainVars, job, fut, putting, queue, due, running>>

\* get() takes the first job of the best lane.
WorkerGet ==
  /\ worker.pc = "get"
  /\ \E j \in queue :
       /\ IsNext(j)
       /\ queue' = queue \ {j}
       /\ worker' = At("held", j, NoBlock)
  /\ UNCHANGED <<chainVars, job, fut, putting, due, running>>

WorkerStop ==
  /\ worker.pc = "held" /\ Current.kind = "STOP"
  /\ Settle(worker.job, "true")
  /\ worker' = At("exit", NoJob, NoBlock)
  /\ UNCHANGED <<chainVars, putting, queue, running>>

Overdue == worker.pc = "held" /\ Current.kind # "STOP" /\ worker.job \in due

\* A job past its deadline is not executed.  Its future is looked at, and set
\* in a later step if nobody has ended the wait; a coroutine waits on for the
\* reorgs whose adapter has left.
WorkerFindsExpired ==
  /\ Overdue
  /\ fut[worker.job] = "waiting" \/ Current.kind \in {"REORG", "REORG_AND_IMPORT"}
  /\ worker' = [worker EXCEPT !.pc = "expiring"]
  /\ UNCHANGED <<chainVars, job, fut, putting, queue, due, running>>

WorkerExpire ==
  /\ worker.pc = "expiring" \/ (Overdue /\ fut[worker.job] # "waiting")
  /\ Settle(worker.job, "expired")
  /\ worker' = Idle
  /\ UNCHANGED <<chainVars, putting, queue, running>>

\* A wait of the event loop that ends between these two steps has cancelled
\* the future: set_result raises, outside of any try, and the thread is gone.
\* (After a dispatch the same race is caught, and changes nothing.)
WorkerDies ==
  /\ worker.pc = "expiring"
  /\ fut[worker.job] = "gaveup" /\ Current.kind # "ADD"
  /\ Settle(worker.job, "expired")
  /\ worker' = At("dead", NoJob, NoBlock)
  /\ UNCHANGED <<chainVars, putting, queue, running>>

\* A faulty variant of WorkerStart without the deadline test.
WorkerStartLate ==
  /\ worker.pc = "held" /\ Current.kind # "STOP"
  /\ worker' = [worker EXCEPT !.pc = "run"]
  /\ UNCHANGED <<chainVars, job, fut, putting, queue, due, running>>

\* The deadline test passed: _in_flight is incremented and dispatch begins.
WorkerStart ==
  /\ worker.pc = "held" /\ Current.kind # "STOP"
  /\ worker.job \notin due
  /\ worker' = [worker EXCEPT !.pc = "run"]
  /\ UNCHANGED <<chainVars, job, fut, putting, queue, due, running>>

\* The end of a dispatch: set the result and decrement _in_flight.
Finish(result) ==
  /\ Settle(worker.job, IF result THEN "true" ELSE "false")
  /\ worker' = Idle
  /\ UNCHANGED <<putting, queue, running>>

RunImport ==
  /\ worker.pc = "run" /\ Current.kind = "IMPORT"
  /\ \E result \in BOOLEAN :
       ImportBlock(Current.block, result) /\ Finish(result)

RunAdd ==
  /\ worker.pc = "run" /\ Current.kind = "ADD"
  /\ \E result \in BOOLEAN :
       AddBlock(Current.block, FALSE, result) /\ Finish(result)

\* FORGE_AND_APPLY: create_block, then sign and add.
RunForgeCreate ==
  /\ worker.pc = "run" /\ Current.kind = "FORGE_AND_APPLY"
  /\ \E b \in CreateBlock(LocalMiner) : worker' = At("forged", worker.job, b)
  /\ UNCHANGED <<chainVars, job, fut, putting, queue, due, running>>

RunForgeAdd ==
  /\ worker.pc = "forged"
  /\ \E result \in BOOLEAN :
       AddBlock(worker.cand, FALSE, result) /\ Finish(result)

\* sign_fn raises (a production node without its key), or create_block does.
RunForgeError ==
  /\ \/ worker.pc = "run" /\ Current.kind = "FORGE_AND_APPLY"
     \/ worker.pc = "forged"
  /\ Settle(worker.job, "error")
  /\ worker' = Idle
  /\ UNCHANGED <<chainVars, putting, queue, running>>

RunReorg ==
  /\ worker.pc = "run" /\ Current.kind = "REORG"
  /\ \E result \in BOOLEAN :
       ReorgToAncestor(Current.to, result) /\ Finish(result)

\* REORG_AND_IMPORT: two chain operations; a failed reorg ends the job.
RunReorgFirst ==
  /\ worker.pc = "run" /\ Current.kind = "REORG_AND_IMPORT"
  /\ \/ /\ ReorgToAncestor(Current.to, TRUE)
        /\ worker' = [worker EXCEPT !.pc = "reorged"]
        /\ UNCHANGED <<job, fut, putting, queue, due, running>>
     \/ ReorgToAncestor(Current.to, FALSE) /\ Finish(FALSE)

RunImportSecond ==
  /\ worker.pc = "reorged"
  /\ \E result \in BOOLEAN :
       ImportBlock(Current.block, result) /\ Finish(result)

ValidatorSetChanges(n) == SetActiveValidatorCount(n) /\ UNCHANGED queueVars

Dispatch ==
  \/ RunImport \/ RunAdd
  \/ RunForgeCreate \/ RunForgeAdd \/ RunForgeError
  \/ RunReorg \/ RunReorgFirst \/ RunImportSecond

Worker ==
  \/ WorkerLoop \/ WorkerGetEmpty \/ WorkerGet
  \/ WorkerStop \/ WorkerFindsExpired \/ WorkerExpire \/ WorkerDies \/ WorkerStart
  \/ Dispatch

Next ==
  \/ \E r \in Requests : Submit(r)
  \/ Stop
  \/ \E j \in DOMAIN job : Put(j) \/ Elapse(j) \/ QueueTimeout(j) \/ AdapterTimeout(j)
  \/ Worker
  \/ \E n \in ActiveCounts : ValidatorSetChanges(n)

Spec == Init /\ [][Next]_vars

\* The worker and the submitting threads are scheduled and time passes;
\* nobody has to submit, stop or give up early.
Fairness ==
  /\ WF_vars(Worker)
  /\ \A j \in 1 .. MaxJobs :
       /\ WF_vars(j \in DOMAIN job /\ Put(j))
       /\ WF_vars(j \in DOMAIN job /\ Elapse(j))
       /\ WF_vars(j \in DOMAIN job /\ QueueTimeout(j))

FairSpec == Spec /\ Fairness

-----------------------------------------------------------------------------
Outcomes ==
  {"waiting", "true", "false", "rejected", "expired", "error", "gaveup"}

TypeOK ==
  /\ TypeOKChain
  /\ job \in Seq([kind : Kinds \cup {"SERVED"}, block : Blocks \cup {NoBlock}, to : Nat])
  /\ fut \in Seq(Outcomes) /\ Len(fut) = Len(job)
  /\ putting \subseteq 1 .. Len(job)
  /\ queue \subseteq 1 .. Len(job) /\ Cardinality(queue) <= MaxSize
  /\ due \subseteq 1 .. Len(job)
  /\ worker \in [pc : {"top", "get", "held", "expiring", "run", "forged", "reorged",
                       "exit", "dead"},
                 job : 0 .. Len(job), cand : Blocks \cup {NoBlock}]
  /\ running \in BOOLEAN

\* "No import between create and add" (RELEASE_NOTES_v1.3.52): the block the
\* worker has created but not yet added still extends the canonical tip, so a
\* forged block is never refused for its height or parent.
ForgedExtendsTip == worker.pc = "forged" => ValidStructure(worker.cand)

\* A number is in one place only: a job is never executed twice and a
\* rejected or expired job is never executed.
OnePlace ==
  /\ putting \cap queue = {}
  /\ worker.job \notin putting \cup queue
  /\ \A j \in DOMAIN fut :
       fut[j] \in {"true", "false", "rejected", "expired", "error"} =>
         j \notin putting \cup queue \cup {worker.job}

\* What the worker holds at each point of _run; with OnePlace it makes the
\* invariants above inductive.
WorkerInv ==
  /\ worker.pc \in {"top", "get", "exit", "dead"} => worker.job = NoJob
  /\ worker.pc \in {"held", "expiring", "run", "forged", "reorged"} => worker.job \in DOMAIN job
  /\ worker.pc = "forged" => worker.cand \in Blocks
  /\ worker.pc = "reorged" => Current.kind = "REORG_AND_IMPORT"
  /\ \A j \in DOMAIN job :
       job[j].kind \in {"ADD", "IMPORT", "REORG_AND_IMPORT"} => job[j].block \in Blocks

\* A caller that gave up after the queue's own wait left an overdue job.
LateIsDue ==
  \A j \in DOMAIN job :
    \/ fut[j] = "waiting"
    \/ j \in due
    \/ job[j].kind \in {"REORG", "REORG_AND_IMPORT", "SERVED"}

\* What the queue's own tables promise, whoever else changes the chain.
Bookkeeping == TypeOK /\ OnePlace /\ WorkerInv /\ LateIsDue

\* The inductive invariant of the queue.
QueueInv == Bookkeeping /\ ForgedExtendsTip

\* A job of the lanes whose caller waits as long as the deadline starts only
\* while that caller still waits: "not-yet-started jobs expire instead of
\* applying after the caller's Future.result timeout".
Starts == worker.pc = "held" /\ worker'.pc = "run"
StartsInTime ==
  Starts /\ Current.kind \in {"IMPORT", "ADD", "FORGE_AND_APPLY"}
    => fut[worker.job] = "waiting"
NoStartAfterTimeout == [][StartsInTime]_vars

\* What a caller is told about a single-block job is what happened to the
\* chain: True exactly when the step that answers appended a block, and any
\* other answer leaves the chain alone.
Answered(j) ==
  /\ fut[j] = "waiting" /\ fut'[j] # "waiting"
  /\ job[j].kind \in {"IMPORT", "ADD", "FORGE_AND_APPLY"}
TrueAnswers ==
  \A j \in DOMAIN fut :
    Answered(j) => IF fut'[j] = "true"
                     THEN Len(chain') = Len(chain) + 1
                     ELSE chain' = chain
AnswerMatchesChain == [][TrueAnswers]_vars

\* Every submission is answered or times out, even when the queue is full,
\* the worker is stopped or dead or the job is stuck behind a busier lane.
EveryCallReturns ==
  \A j \in 1 .. MaxJobs :
    (j \in DOMAIN job /\ job[j].kind # "STOP")
      ~> (j \in DOMAIN job /\ fut[j] # "waiting")

\* Of finitely many submissions the worker reaches every one it has queued,
\* whatever lanes they are in, unless it is stopped or dead.  (A stream of jobs
\* of a better lane that never ends would keep a job waiting.)
QueueDrains ==
  \A j \in 1 .. MaxJobs :
    (j \in queue) ~> (j \notin queue \/ ~running \/ worker.pc = "dead")

\* stop() ends the worker, whatever is queued and even if STOP did not fit.
StopEndsWorker == ~running ~> worker.pc \in {"exit", "dead"}

\* The node's canonical chain implements the abstract ledger.
Ledger == INSTANCE TipLedger WITH
  ledger <- chain,
  sealed <- {HeightOf[c] : c \in FinalizedBlocks(fin)}
ImplementsLedger == Ledger!Spec
=============================================================================
