-------------------------- MODULE PublishContract --------------------------
(***************************************************************************)
(* What a caller of Cookbooks.Upload or CookbookArtifacts.Upload may rely  *)
(* on, without sandboxes, transfers and manifests: a cookbook is not on    *)
(* the server at all, or it is there whole and under the identifier or the *)
(* version this call asked for.                                            *)
(* A call that returns nil has published it; after an error it may be      *)
(* published, or may be at any time later. PolicyPush is built on this.    *)
(***************************************************************************)
CONSTANT Uploads       \* callers of one of the two methods

VARIABLES
    whole,             \* uploads whose cookbook is on the server, whole
    torn,              \* uploads whose cookbook is there, but is not whole
    returned           \* what each call returned

vars == <<whole, torn, returned>>

Init ==
    /\ whole = {} /\ torn = {}
    /\ returned = [u \in Uploads |-> "never called"]

Call(u) ==
    /\ returned[u] \in {"never called", "error"}
    /\ returned' = [returned EXCEPT ![u] = "pending"]
    /\ UNCHANGED <<whole, torn>>

Returns(u, r) ==
    /\ returned[u] = "pending"
    /\ returned' = [returned EXCEPT ![u] = r]

(* The cookbook appears, by a call that learns of it or does not, or that  *)
(* has returned an error before.                                           *)
Publish(u) ==
    /\ whole' = whole \cup {u}
    /\ \/ Returns(u, "nil")
       \/ Returns(u, "error")
       \/ returned[u] \in {"pending", "error"} /\ UNCHANGED returned
    /\ UNCHANGED torn

Fail(u) == Returns(u, "error") /\ UNCHANGED <<whole, torn>>

Next == \E u \in Uploads : Call(u) \/ Publish(u) \/ Fail(u)

Spec == Init /\ [][Next]_vars
=============================================================================
