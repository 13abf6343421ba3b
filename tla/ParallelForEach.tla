--------------------------- MODULE ParallelForEach ---------------------------
(***************************************************************************)
(* parallelForEach (parallel.go): the bounded worker pool behind every     *)
(* cookbook upload and download.                                           *)
(*                                                                         *)
(* The calling goroutine walks the items, takes a slot of the channel sem  *)
(* for each and starts a worker goroutine. A worker runs fn once; the      *)
(* first error is recorded under the mutex mu and cancels the derived      *)
(* context. The caller waits for all workers and returns the first error,  *)
(* else the context's error, else nil.                                     *)
(***************************************************************************)
EXTENDS Naturals, FiniteSets

CONSTANTS
    NumItems,          \* len(items)
    MaxParallel        \* maxParallelTransfers, the capacity of sem

ASSUME NumItemsAssumption == NumItems \in Nat
ASSUME MaxParallelAssumption == MaxParallel \in Nat \ {0}

VARIABLES
    main,              \* program counter of the calling goroutine
    next,              \* index of the next item of the launch loop
    worker,            \* program counter of each item's goroutine
    outcome,           \* what fn returned for each item
    sem,               \* number of tokens in the channel sem
    wg,                \* counter of the WaitGroup
    mu,                \* item whose worker holds the mutex, NoItem if free
    firstErr,          \* item whose error is recorded, NoItem for nil
    canceled,          \* cancel() was called on the derived context
    parentCanceled,    \* the caller's own context is done
    result,            \* what parallelForEach returned
    late               \* history: items launched when the context was done

vars == <<main, next, worker, outcome, sem, wg, mu, firstErr, canceled,
          parentCanceled, result, late>>

Items == 1..NumItems
NoItem == 0

MainStates == {"call", "loop", "acquire", "wait", "returned"}
Outcomes == {"none", "ok", "fail", "ctx"}
Results == {"pending", "nil", "firstErr", "ctxErr"}

(* A worker holds its slot of sem until its first deferred call has run,   *)
(* and counts for the WaitGroup until its second one has.                  *)
HoldingStates == {"spawned", "running", "failed", "locked", "cancelling",
                  "exiting"}
LiveStates == HoldingStates \cup {"released"}
WorkerStates == LiveStates \cup {"idle", "done"}

Holding == {i \in Items : worker[i] \in HoldingStates}
Live == {i \in Items : worker[i] \in LiveStates}

(* ctx.Err() # nil for the context derived from the caller's.              *)
CtxErr == parentCanceled \/ canceled

TypeOK ==
    /\ main \in MainStates
    /\ next \in 1..(NumItems + 1)
    /\ worker \in [Items -> WorkerStates]
    /\ outcome \in [Items -> Outcomes]
    /\ sem \in 0..MaxParallel
    /\ wg \in 0..NumItems
    /\ mu \in Items \cup {NoItem}
    /\ firstErr \in Items \cup {NoItem}
    /\ canceled \in BOOLEAN
    /\ parentCanceled \in BOOLEAN
    /\ result \in Results
    /\ late \subseteq Items

Init ==
    /\ main = "call"
    /\ next = 1
    /\ worker = [i \in Items |-> "idle"]
    /\ outcome = [i \in Items |-> "none"]
    /\ sem = 0
    /\ wg = 0
    /\ mu = NoItem
    /\ firstErr = NoItem
    /\ canceled = FALSE
    /\ parentCanceled = FALSE
    /\ result = "pending"
    /\ late = {}

-----------------------------------------------------------------------------
(* The calling goroutine.                                                  *)

(* An empty slice returns nil at once, even under a canceled context.      *)
Call ==
    /\ main = "call"
    /\ IF NumItems = 0
       THEN main' = "returned" /\ result' = "nil"
       ELSE main' = "loop" /\ UNCHANGED result
    /\ UNCHANGED <<next, worker, outcome, sem, wg, mu, firstErr, canceled,
                   parentCanceled, late>>

(* Mutated: the test neither breaks out of the loop nor advances it.       *)
LoopCheckSpins ==
    /\ main = "loop"
    /\ main' = IF next > NumItems THEN "wait"
               ELSE IF CtxErr THEN "loop" ELSE "acquire"
    /\ UNCHANGED <<next, worker, outcome, sem, wg, mu, firstErr, canceled,
                   parentCanceled, result, late>>

(* Top of the loop: stop launching when the items or the context are done. *)
LoopCheck ==
    /\ main = "loop"
    /\ main' = IF next > NumItems \/ CtxErr THEN "wait" ELSE "acquire"
    /\ UNCHANGED <<next, worker, outcome, sem, wg, mu, firstErr, canceled,
                   parentCanceled, result, late>>

(* wg.Add(1) and go, with the given number of tokens in sem.               *)
Spawn(tokens) ==
    /\ main = "acquire"
    /\ sem' = tokens
    /\ wg' = wg + 1
    /\ worker' = [worker EXCEPT ![next] = "spawned"]
    /\ late' = IF CtxErr THEN late \cup {next} ELSE late
    /\ next' = next + 1
    /\ main' = "loop"
    /\ UNCHANGED <<outcome, mu, firstErr, canceled, parentCanceled, result>>

(* Mutated: the send gives up when the channel is full.                    *)
LaunchWithoutSlot == Spawn(IF sem < MaxParallel THEN sem + 1 ELSE sem)

(* sem <- struct{}{} blocks while all slots are taken.                     *)
Launch == sem < MaxParallel /\ Spawn(sem + 1)

(* The deferred cancel() runs when the value to return is known.           *)
Finish(value) ==
    /\ main = "wait"
    /\ result' = value
    /\ main' = "returned"
    /\ canceled' = TRUE
    /\ UNCHANGED <<next, worker, outcome, sem, wg, mu, firstErr,
                   parentCanceled, late>>

ReturnValue == IF firstErr # NoItem THEN "firstErr"
               ELSE IF CtxErr THEN "ctxErr" ELSE "nil"

(* Mutated: the last line is "return nil"; the wait is for the slots to be *)
(* given back, not for the goroutines to end.                              *)
ReturnDropsCtxErr ==
    wg = 0 /\ Finish(IF firstErr # NoItem THEN "firstErr" ELSE "nil")
ReturnOnDrain == sem = 0 /\ Finish(ReturnValue)

(* wg.Wait(), then the two returns.                                        *)
Return == wg = 0 /\ Finish(ReturnValue)

-----------------------------------------------------------------------------
(* The goroutine of item i.                                                *)

(* A step that only moves the goroutine's program counter.                 *)
Goto(i, pc) ==
    /\ worker' = [worker EXCEPT ![i] = pc]
    /\ UNCHANGED <<main, next, outcome, sem, wg, mu, firstErr, canceled,
                   parentCanceled, result, late>>

(* Mutated: fn is called without a look at the context.                    *)
StartFnUnchecked(i) == worker[i] = "spawned" /\ Goto(i, "running")

(* The worker's own ctx.Err() test, before fn is called.                   *)
StartFn(i) ==
    /\ worker[i] = "spawned"
    /\ Goto(i, IF CtxErr THEN "exiting" ELSE "running")

(* fn has returned r, and the goroutine goes on at pc.                     *)
FnEnds(i, r, pc) ==
    /\ worker[i] = "running"
    /\ outcome' = [outcome EXCEPT ![i] = r]
    /\ worker' = [worker EXCEPT ![i] = pc]
    /\ UNCHANGED <<main, next, sem, wg, mu, firstErr, parentCanceled, result,
                   late>>

(* Mutated: cancel() is called before the error is recorded under mu.      *)
FnReturnCancels(i) ==
    \/ FnEnds(i, "ok", "exiting") /\ UNCHANGED canceled
    \/ FnEnds(i, "fail", "failed") /\ canceled' = TRUE
    \/ CtxErr /\ FnEnds(i, "ctx", "failed") /\ canceled' = TRUE

(* fn (uploadFile, downloadFile) succeeds, fails by itself, or, only if    *)
(* the context it was handed is done, returns the context's error. It may  *)
(* still succeed under a canceled context: the answer was already there.   *)
FnReturn(i) ==
    /\ \/ FnEnds(i, "ok", "exiting")
       \/ FnEnds(i, "fail", "failed")
       \/ CtxErr /\ FnEnds(i, "ctx", "failed")
    /\ UNCHANGED canceled

Lock(i) ==
    /\ worker[i] = "failed"
    /\ mu = NoItem
    /\ mu' = i
    /\ worker' = [worker EXCEPT ![i] = "locked"]
    /\ UNCHANGED <<main, next, outcome, sem, wg, firstErr, canceled,
                   parentCanceled, result, late>>

(* Under mu: only the first failing worker records its error and goes on   *)
(* to cancel; any other one unlocks.                                       *)
Record(i) ==
    /\ worker[i] = "locked"
    /\ IF firstErr = NoItem
       THEN /\ firstErr' = i
            /\ worker' = [worker EXCEPT ![i] = "cancelling"]
            /\ UNCHANGED mu
       ELSE /\ worker' = [worker EXCEPT ![i] = "exiting"]
            /\ mu' = NoItem
            /\ UNCHANGED firstErr
    /\ UNCHANGED <<main, next, outcome, sem, wg, canceled, parentCanceled,
                   result, late>>

(* cancel() and mu.Unlock().                                               *)
Cancel(i) ==
    /\ worker[i] = "cancelling"
    /\ canceled' = TRUE
    /\ mu' = NoItem
    /\ worker' = [worker EXCEPT ![i] = "exiting"]
    /\ UNCHANGED <<main, next, outcome, sem, wg, firstErr, parentCanceled,
                   result, late>>

(* Deferred calls run last in, first out: first the slot is given back...  *)
Release(i) ==
    /\ worker[i] = "exiting"
    /\ sem' = sem - 1
    /\ worker' = [worker EXCEPT ![i] = "released"]
    /\ UNCHANGED <<main, next, outcome, wg, mu, firstErr, canceled,
                   parentCanceled, result, late>>

(* ... and then wg.Done().                                                 *)
Done(i) ==
    /\ worker[i] = "released"
    /\ wg' = wg - 1
    /\ worker' = [worker EXCEPT ![i] = "done"]
    /\ UNCHANGED <<main, next, outcome, sem, mu, firstErr, canceled,
                   parentCanceled, result, late>>

-----------------------------------------------------------------------------
(* The environment: the caller's context may be canceled at any time.      *)
ParentCancel ==
    /\ ~parentCanceled
    /\ parentCanceled' = TRUE
    /\ UNCHANGED <<main, next, worker, outcome, sem, wg, mu, firstErr,
                   canceled, result, late>>

(* The call is over; nothing is left to do.                                *)
Terminated == main = "returned" /\ UNCHANGED vars

Main == Call \/ LoopCheck \/ Launch \/ Return

Worker(i) == \/ StartFn(i) \/ FnReturn(i) \/ Lock(i) \/ Record(i)
             \/ Cancel(i) \/ Release(i) \/ Done(i)

Next == Main \/ (\E i \in Items : Worker(i)) \/ ParentCancel \/ Terminated

(* Goroutines are scheduled fairly and fn always returns, because the      *)
(* default http.Client of options.go times every request out.              *)
Fairness == WF_vars(Main) /\ \A i \in Items : WF_vars(Worker(i))

Spec == Init /\ [][Next]_vars

FairSpec == Spec /\ Fairness

-----------------------------------------------------------------------------
(* Correctness.                                                            *)

(* A nil error means that fn ran and succeeded for every item: no item was *)
(* skipped by the early break, by a worker that found the context done, or *)
(* by an error that lost the race for the mutex.                           *)
NilMeansAllDone == result = "nil" => \A i \in Items : outcome[i] = "ok"

(* The error reported is a cause, never an echo of the batch's own         *)
(* cancel(): a context error is returned, as firstErr or by the last line, *)
(* only if the caller's own context was done.                              *)
ErrorIsRootCause ==
    /\ result = "firstErr" =>
        \/ outcome[firstErr] = "fail"
        \/ outcome[firstErr] = "ctx" /\ parentCanceled
    /\ result = "ctxErr" => parentCanceled

(* At most MaxParallel workers are ever between the acquisition and the    *)
(* release of a slot, whatever order they finish and fail in.              *)
BoundedFanOut == Cardinality(Holding) <= MaxParallel

(* When the call returns, no goroutine it started is still running, so the *)
(* caller may commit the sandbox, or hand the directory to its user.       *)
NoStragglers ==
    result # "pending" => \A i \in Items : worker[i] \in {"idle", "done"}

(* Once the context is done, canceled by the first failure or by the       *)
(* caller, at most one more goroutine is started (the launch loop may      *)
(* already be past its test), and it never calls fn. (Between the failure  *)
(* and its cancel() more may start, and are workers like any other.)       *)
FailFast ==
    /\ \A i, j \in late : i = j
    /\ \A i \in late : outcome[i] = "none" /\ worker[i] # "running"

(* The call returns, whatever fails and whenever the context is canceled.  *)
Termination == <>(main = "returned")

-----------------------------------------------------------------------------
(* The inductive invariant behind the properties above: the counters agree *)
(* with the goroutines they count, every goroutine's program counter tells *)
(* what its fn has returned, and a done context has a recorded cause.      *)

CountInv == sem = Cardinality(Holding) /\ wg = Cardinality(Live)

LaunchInv ==
    /\ \A i \in Items : worker[i] = "idle" <=> i >= next
    /\ main = "acquire" => next <= NumItems
    /\ main = "wait" => next > NumItems \/ CtxErr
    /\ main = "returned" <=> result # "pending"

OutcomeInv ==
    \A i \in Items :
        /\ worker[i] \in {"idle", "spawned", "running"} => outcome[i] = "none"
        /\ worker[i] \in {"failed", "locked", "cancelling"} =>
            outcome[i] \in {"fail", "ctx"}
        /\ worker[i] = "cancelling" => firstErr # NoItem
        /\ worker[i] \in {"exiting", "released", "done"} =>
            \/ outcome[i] = "ok"
            \/ outcome[i] = "none" /\ CtxErr
            \/ outcome[i] \in {"fail", "ctx"} /\ firstErr # NoItem

ErrInv ==
    /\ firstErr # NoItem =>
        \/ outcome[firstErr] = "fail"
        \/ outcome[firstErr] = "ctx" /\ parentCanceled
    /\ \A i \in Items :
        outcome[i] = "ctx" => parentCanceled \/ firstErr # NoItem
    /\ canceled => firstErr # NoItem \/ result # "pending"
    /\ result = "firstErr" => firstErr # NoItem
    /\ result = "ctxErr" => parentCanceled

LateInv ==
    /\ main = "acquire" => late = {}
    /\ late # {} => CtxErr
    /\ \A i, j \in late : i = j
    /\ \A i \in late : /\ outcome[i] = "none"
                       /\ worker[i] \in {"spawned", "exiting", "released",
                                        "done"}

IInv ==
    /\ TypeOK /\ CountInv /\ LaunchInv /\ OutcomeInv /\ ErrInv /\ LateInv
    /\ NoStragglers /\ NilMeansAllDone

-----------------------------------------------------------------------------
(* The pool implements the contract its callers rely on.                   *)
Batch == INSTANCE TransferBatch WITH
    NumItems <- NumItems, outcome <- outcome,
    parentCanceled <- parentCanceled, result <- result
RefinesBatch == Batch!Spec

=============================================================================
