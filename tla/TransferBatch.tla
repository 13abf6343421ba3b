---------------------------- MODULE TransferBatch ----------------------------
(***************************************************************************)
(* What parallelForEach (parallel.go) promises its callers, without the    *)
(* goroutines: every item is tried at most once, and the one value that is *)
(* returned is truthful about what happened to the items.                  *)
(*                                                                         *)
(* uploadCookbook and Cookbooks.Download rely on exactly this: a nil error *)
(* means that every file was transferred.                                  *)
(***************************************************************************)
EXTENDS Naturals

CONSTANT NumItems      \* len(items)

VARIABLES
    outcome,           \* what fn returned for each item, "none" if it never ran
    parentCanceled,    \* the caller's context was canceled or timed out
    result             \* what the call returned, "pending" before it returns

vars == <<outcome, parentCanceled, result>>

Items == 1..NumItems

Init ==
    /\ outcome = [i \in Items |-> "none"]
    /\ parentCanceled = FALSE
    /\ result = "pending"

(* fn observes a canceled context only if the parent was canceled or some  *)
(* other item has failed and the batch canceled the rest.                  *)
MayBeCanceled == parentCanceled \/ \E j \in Items : outcome[j] = "fail"

Run(i) ==
    /\ result = "pending"
    /\ outcome[i] = "none"
    /\ \E r \in {"ok", "fail", "ctx"} :
        /\ r = "ctx" => MayBeCanceled
        /\ outcome' = [outcome EXCEPT ![i] = r]
    /\ UNCHANGED <<parentCanceled, result>>

ReturnNil ==
    /\ \A i \in Items : outcome[i] = "ok"
    /\ result' = "nil"

ReturnFirstErr ==
    /\ \E i \in Items : \/ outcome[i] = "fail"
                        \/ outcome[i] = "ctx" /\ parentCanceled
    /\ result' = "firstErr"

ReturnCtxErr ==
    /\ parentCanceled
    /\ \A i \in Items : outcome[i] \in {"none", "ok"}
    /\ result' = "ctxErr"

Return ==
    /\ result = "pending"
    /\ ReturnNil \/ ReturnFirstErr \/ ReturnCtxErr
    /\ UNCHANGED <<outcome, parentCanceled>>

ParentCancel ==
    /\ ~parentCanceled
    /\ parentCanceled' = TRUE
    /\ UNCHANGED <<outcome, result>>

Next == (\E i \in Items : Run(i)) \/ Return \/ ParentCancel

Spec == Init /\ [][Next]_vars
=============================================================================
