---------------------------- MODULE CallContract ----------------------------
(***************************************************************************)
(* What a caller of the client may conclude from the value a resource call *)
(* returned, without attempts, requests and replies.                       *)
(*                                                                         *)
(* One resource of the server is read and written by several calls. A      *)
(* write changes it at most once. A call that returns success has had its  *)
(* effect before it returned; a 4xx error promises that the call has no    *)
(* effect, ever; after any other error the effect may have happened, may   *)
(* not happen, or may still happen.                                        *)
(***************************************************************************)
EXTENDS Naturals

CONSTANT Calls

VARIABLES
    kind,              \* the crud method called: "get", "create", ...
    resource,          \* the resource on the server: absent or present
    effects,           \* how often each call has changed the resource
    observed,          \* what the server has seen of it for each call
    result             \* what each call returned

vars == <<kind, resource, effects, observed, result>>

Reads == {"get", "list"}
Writes == {"create", "update", "remove"}

(* The state in which a write applies, and the one it leaves behind.       *)
Before(k) == IF k = "create" THEN "absent" ELSE "present"
After(k) == IF k = "remove" THEN "absent" ELSE "present"

Definite == {"ErrUnauthorized", "ErrForbidden", "ErrNotFound", "ErrConflict",
             "noSentinel"}
Ambiguous == {"serverErr", "netErr", "ctxErr"}
Succeeded == {"ok", "decodeErr"}

Init ==
    /\ kind = [c \in Calls |-> "none"]
    /\ resource \in {"absent", "present"}
    /\ effects = [c \in Calls |-> 0]
    /\ observed = [c \in Calls |-> {}]
    /\ result = [c \in Calls |-> "none"]

(* A body that cannot be marshalled ends the call at once.                 *)
Invoke(c) ==
    /\ result[c] = "none"
    /\ \E k \in Reads \cup Writes : kind' = [kind EXCEPT ![c] = k]
    /\ \E r \in {"pending", "marshalErr"} :
        result' = [result EXCEPT ![c] = r]
    /\ UNCHANGED <<resource, effects, observed>>

(* The server looks at the resource for c and, for a write that applies,   *)
(* changes it: before the call returns or, if that left the caller in      *)
(* doubt, at any time after.                                               *)
Serve(c) ==
    /\ kind[c] # "none"
    /\ observed' = [observed EXCEPT ![c] = @ \cup {resource}]
    /\ \/ UNCHANGED <<resource, effects>>
       \/ /\ result[c] \in {"pending"} \cup Ambiguous
          /\ kind[c] \in Writes
          /\ effects[c] = 0
          /\ resource = Before(kind[c])
          /\ resource' = After(kind[c])
          /\ effects' = [effects EXCEPT ![c] = 1]
    /\ UNCHANGED <<kind, result>>

Return(c, r) ==
    /\ result[c] = "pending"
    /\ r \in Definite => effects[c] = 0
    /\ r = "ErrNotFound" => "absent" \in observed[c]
    /\ r = "ErrConflict" => "present" \in observed[c]
    /\ r \in Succeeded => IF kind[c] \in Reads THEN observed[c] # {}
                                               ELSE effects[c] = 1
    /\ result' = [result EXCEPT ![c] = r]
    /\ UNCHANGED <<kind, resource, effects, observed>>

Next ==
    \E c \in Calls :
        \/ Invoke(c)
        \/ Serve(c)
        \/ \E r \in Definite \cup Ambiguous \cup Succeeded : Return(c, r)

Spec == Init /\ [][Next]_vars
=============================================================================
