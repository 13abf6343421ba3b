---------------------------- MODULE GroupPolicy ----------------------------
(***************************************************************************)
(* What the callers of Policies.PushRevision (policies.go) may rely on,    *)
(* without locks, uploads and requests: a policy group goes from one       *)
(* runnable revision to another, or to none when somebody deletes the      *)
(* pinning, and never holds anything else; a push that returns nil pins    *)
(* its revision within the call, one that returns an error may have pinned *)
(* it, or may pin it at any time later.                                    *)
(***************************************************************************)
EXTENDS Naturals

CONSTANTS
    Revisions,         \* revisions of the policy
    NoRevision,        \* the policy is not pinned in the group
    Groups,            \* policy groups
    Pushes,            \* callers of PushRevision
    RevisionOf,        \* the revision each of them pushes
    GroupOf            \* and the group it pushes to

VARIABLES
    ready,             \* revisions whose artifacts all have been published
    active,            \* revision pinned in each group
    returned           \* what each push returned

vars == <<ready, active, returned>>

Init ==
    /\ ready \subseteq Revisions
    /\ active = [g \in Groups |-> NoRevision]
    /\ returned = [p \in Pushes |-> "never called"]

Returns(p, r) ==
    /\ returned[p] = "pending"
    /\ returned' = [returned EXCEPT ![p] = r]

(* A lock that does not parse ends the call at once.                       *)
Call(p) ==
    /\ returned[p] \in {"never called", "error"}
    /\ \E r \in {"pending", "error"} : returned' = [returned EXCEPT ![p] = r]
    /\ UNCHANGED <<ready, active>>

(* Artifacts are published, by a push that goes on or one that fails.      *)
Prepare ==
    /\ ready \subseteq ready'
    /\ UNCHANGED returned \/ \E p \in Pushes : Returns(p, "error")
    /\ UNCHANGED active

(* The revision of a push is pinned: just before it returns nil, or        *)
(* without its knowledge.                                                  *)
Pin(p) ==
    /\ returned[p] # "never called"
    /\ RevisionOf[p] \in ready
    /\ active' = [active EXCEPT ![GroupOf[p]] = RevisionOf[p]]
    /\ \/ Returns(p, "nil")
       \/ Returns(p, "error")
       \/ UNCHANGED returned
    /\ UNCHANGED ready

(* Pinnings are deleted.                                                   *)
Unpin ==
    /\ \E gs \in SUBSET Groups :
        active' = [g \in Groups |-> IF g \in gs THEN NoRevision ELSE active[g]]
    /\ UNCHANGED <<ready, returned>>

Next == (\E p \in Pushes : Call(p) \/ Pin(p)) \/ Prepare \/ Unpin

Spec == Init /\ [][Next]_vars
=============================================================================
