----------------------------- MODULE Reregister -----------------------------
(***************************************************************************)
(* Clients.Reregister (clients.go) over the keys API (keys.go): the        *)
(* "default" key of a client is replaced by a DELETE and a POST, which are *)
(* not atomic. Several callers reregister the same client at once, and one *)
(* that was told that the key is gone adds one with Keys.Create, as the    *)
(* error advises.                                                          *)
(*                                                                         *)
(* The server is external. It holds at most one key named "default" and    *)
(* never generates the same key pair twice. Either request may be refused, *)
(* be served although its reply is lost, or be served after its call has   *)
(* given up (Transport shows that it is served at most once).              *)
(***************************************************************************)
EXTENDS Naturals

CONSTANT Callers       \* goroutines or processes that call Reregister

VARIABLES
    pc,                \* the next request of each caller
    result,            \* what Reregister returned
    got,               \* the key whose private half the caller was given
    default,           \* the key named "default" on the server
    fresh,             \* the next key pair the server generates
    late,              \* requests given up by their call but still under way
    old,               \* history: the default key when the caller began
    own                \* history: the key made for the caller

vars == <<pc, result, got, default, fresh, late, old, own>>

NoKey == 0
FirstKey == 1

Requests == [caller : Callers, op : {"delete", "create"}]

TypeOK ==
    /\ pc \in [Callers -> {"idle", "delete", "create", "returned"}]
    /\ result \in [Callers -> {"none", "ok", "deleteErr", "createErr",
                               "recovered", "recoverErr"}]
    /\ \A c \in Callers : pc[c] = "returned" <=> result[c] # "none"
    /\ got \in [Callers -> Nat] /\ old \in [Callers -> Nat]
    /\ own \in [Callers -> Nat]
    /\ default \in Nat
    /\ fresh \in Nat \ {NoKey}
    /\ late \subseteq Requests

Init ==
    /\ pc = [c \in Callers |-> "idle"]
    /\ result = [c \in Callers |-> "none"]
    /\ got = [c \in Callers |-> NoKey]
    /\ old = [c \in Callers |-> NoKey]
    /\ own = [c \in Callers |-> NoKey]
    /\ default = FirstKey
    /\ fresh = FirstKey + 1
    /\ late = {}

Returns(c, r) ==
    /\ pc' = [pc EXCEPT ![c] = "returned"]
    /\ result' = [result EXCEPT ![c] = r]

(* The server adds a default key for caller c, if there is none.           *)
AddDefault(c) ==
    /\ default = NoKey
    /\ default' = fresh
    /\ fresh' = fresh + 1
    /\ own' = [own EXCEPT ![c] = fresh]

-----------------------------------------------------------------------------
(* The callers.                                                            *)

Call(c) ==
    /\ pc[c] = "idle"
    /\ pc' = [pc EXCEPT ![c] = "delete"]
    /\ old' = [old EXCEPT ![c] = default]
    /\ UNCHANGED <<result, got, default, fresh, late, own>>

(* keys.Delete is answered: the key is gone, or there was none (404).      *)
DeleteDefault(c) ==
    /\ pc[c] = "delete"
    /\ IF default # NoKey
       THEN pc' = [pc EXCEPT ![c] = "create"] /\ UNCHANGED result
       ELSE Returns(c, "deleteErr")
    /\ default' = NoKey
    /\ UNCHANGED <<got, fresh, late, old, own>>

(* Mutated: an error of keys.Delete is ignored.                            *)
DeleteFailsIgnored(c) ==
    /\ pc[c] = "delete"
    /\ pc' = [pc EXCEPT ![c] = "create"]
    /\ default' \in {default, NoKey}
    /\ late' \in {late, late \cup {[caller |-> c, op |-> "delete"]}}
    /\ UNCHANGED <<result, got, fresh, old, own>>

(* keys.Delete fails without a word on whether the key was deleted, and    *)
(* Reregister returns that error.                                          *)
DeleteFails(c) ==
    /\ pc[c] = "delete"
    /\ Returns(c, "deleteErr")
    /\ default' \in {default, NoKey}
    /\ late' \in {late, late \cup {[caller |-> c, op |-> "delete"]}}
    /\ UNCHANGED <<got, fresh, old, own>>

(* keys.Create is answered, with the private key or with 409.              *)
CreateDefault(c) ==
    /\ pc[c] = "create"
    /\ \/ /\ AddDefault(c)
          /\ Returns(c, "ok")
          /\ got' = [got EXCEPT ![c] = fresh]
       \/ /\ default # NoKey
          /\ Returns(c, "createErr")
          /\ UNCHANGED <<got, default, fresh, own>>
    /\ UNCHANGED <<late, old>>

(* Mutated: an error of keys.Create is dropped.                            *)
CreateFailsSilently(c) ==
    /\ pc[c] = "create"
    /\ Returns(c, "ok")
    /\ AddDefault(c) \/ UNCHANGED <<default, fresh, own>>
    /\ UNCHANGED <<got, late, old>>

(* keys.Create fails without a word on whether a key was made, and         *)
(* Reregister returns the error that advises to add one.                   *)
CreateFails(c) ==
    /\ pc[c] = "create"
    /\ Returns(c, "createErr")
    /\ \/ AddDefault(c) /\ UNCHANGED late
       \/ /\ UNCHANGED <<default, fresh, own>>
          /\ late' \in {late, late \cup {[caller |-> c, op |-> "create"]}}
    /\ UNCHANGED <<got, old>>

(* The caller follows the advice, and is told so or 409.                   *)
Recover(c) ==
    /\ result[c] = "createErr"
    /\ \/ /\ AddDefault(c)
          /\ result' = [result EXCEPT ![c] = "recovered"]
          /\ got' = [got EXCEPT ![c] = fresh]
       \/ /\ default # NoKey
          /\ result' = [result EXCEPT ![c] = "recoverErr"]
          /\ UNCHANGED <<got, default, fresh, own>>
    /\ UNCHANGED <<pc, late, old>>

-----------------------------------------------------------------------------
(* The server (external) serves a request whose call is over.              *)
ServeLate(q) ==
    /\ late' = late \ {q}
    /\ \/ q.op = "delete" /\ default' = NoKey /\ UNCHANGED <<fresh, own>>
       \/ q.op = "create" /\ AddDefault(q.caller)
       \/ q.op = "create" /\ default # NoKey /\ UNCHANGED <<default, fresh, own>>
    /\ UNCHANGED <<pc, result, got, old>>

-----------------------------------------------------------------------------
Step(c) == \/ DeleteDefault(c) \/ DeleteFails(c)
           \/ CreateDefault(c) \/ CreateFails(c)

Terminated ==
    /\ \A c \in Callers : pc[c] \in {"idle", "returned"}
    /\ UNCHANGED vars

Next ==
    \/ \E c \in Callers : Call(c) \/ Step(c) \/ Recover(c)
    \/ \E q \in late : ServeLate(q)
    \/ Terminated

Spec == Init /\ [][Next]_vars

-----------------------------------------------------------------------------
(* Correctness.                                                            *)

(* "invalidating the old private key": once Reregister has succeeded, or   *)
(* has said that it deleted the old key, the key that was there when it    *)
(* began never is the default key again, whoever else is reregistering.    *)
OldKeyIsRevoked ==
    \A c \in Callers :
        result[c] \in {"ok", "createErr", "recovered", "recoverErr"} =>
            default # old[c] \/ default = NoKey

(* No key is lost in silence. The client is without a default key only     *)
(* while a caller is between its two requests or has been told of a        *)
(* failure; and the default key is the one that was there first, or in     *)
(* somebody's hands, or made for a caller who has been told of a failure   *)
(* (also when the key was made after all).                                 *)
ToldOfFailure(c) ==
    result[c] \in {"deleteErr", "createErr", "recovered", "recoverErr"}

NoSilentLoss ==
    IF default = NoKey
    THEN \E c \in Callers : pc[c] = "create" \/ ToldOfFailure(c)
    ELSE \/ default = FirstKey
         \/ \E c \in Callers :
               got[c] = default \/ (own[c] = default /\ ToldOfFailure(c))

-----------------------------------------------------------------------------
(* The inductive invariant: keys are older than the next one, so a key     *)
(* that is gone never comes back, and a caller with a request under way    *)
(* that is served late has been told of a failure.                         *)

KeysInv ==
    /\ default < fresh
    /\ \A c \in Callers : old[c] < fresh

RevokedInv ==
    \A c \in Callers :
        (pc[c] = "create"
         \/ result[c] \in {"ok", "createErr", "recovered", "recoverErr"})
        => default # old[c] \/ default = NoKey

LateInv == \A q \in late : ToldOfFailure(q.caller)

IInv == TypeOK /\ KeysInv /\ RevokedInv /\ LateInv /\ NoSilentLoss

=============================================================================
