------------------------------ MODULE Transport ------------------------------
(***************************************************************************)
(* The request path of the client: crud (crud.go), do, doRaw and doOnce    *)
(* (transport.go) and the mapping of statuses to sentinel errors           *)
(* (errors.go), for several concurrent calls about one resource.           *)
(*                                                                         *)
(* The network and the Chef server are external. A request may be served   *)
(* long after its call gave up on it; a reply may never arrive or arrive   *)
(* truncated; a 5xx may be sent before or after the write was done.        *)
(***************************************************************************)
EXTENDS Naturals, FiniteSets

CONSTANTS
    Calls,             \* calls of crud methods, each made once
    MaxRetries         \* options.maxRetries

ASSUME MaxRetriesAssumption == MaxRetries \in Nat

VARIABLES
    kind,              \* the crud method of each call
    pc,                \* where each call is: in do or in doRaw's loop
    attempt,           \* doRaw's retry counter
    ctxDone,           \* the context of the call is canceled or expired
    result,            \* what the call returned
    requests,          \* requests the network may still deliver
    reply,             \* status on the connection of the current attempt
    resource,          \* the resource on the server: absent or present
    effects,           \* history: times each call changed the resource
    observed           \* history: what the server saw of it for each call

clientVars == <<kind, pc, attempt, ctxDone, result>>
serverVars == <<resource, effects, observed>>
vars == <<clientVars, requests, reply, serverVars>>

Reads == {"get", "list"}
Writes == {"create", "update", "remove"}
Kinds == Reads \cup Writes

(* The state in which a write applies, and the one it leaves behind.       *)
Before(k) == IF k = "create" THEN "absent" ELSE "present"
After(k) == IF k = "remove" THEN "absent" ELSE "present"

(* crud's methods and the HTTP method each hands to do.                    *)
MethodOf(k) == CASE k \in Reads -> "GET"
                 [] k = "create" -> "POST"
                 [] k = "update" -> "PUT"
                 [] k = "remove" -> "DELETE"

(* Mutated: the sentinels of 404 and 409 are exchanged.                    *)
SentinelSwapped(status) == CASE status = 401 -> "ErrUnauthorized"
                             [] status = 403 -> "ErrForbidden"
                             [] status = 404 -> "ErrConflict"
                             [] status = 409 -> "ErrNotFound"
                             [] status >= 500 -> "serverErr"
                             [] OTHER -> "noSentinel"

(* ErrorResponse.Unwrap, for the non-2xx statuses the server uses; 400     *)
(* stands for those that have no sentinel error of their own.              *)
Sentinel(status) == CASE status = 401 -> "ErrUnauthorized"
                      [] status = 403 -> "ErrForbidden"
                      [] status = 404 -> "ErrNotFound"
                      [] status = 409 -> "ErrConflict"
                      [] status >= 500 -> "serverErr"
                      [] OTHER -> "noSentinel"

Statuses == {200, 400, 401, 403, 404, 409, 503}
Definite == {"ErrUnauthorized", "ErrForbidden", "ErrNotFound", "ErrConflict",
             "noSentinel"}
Ambiguous == {"serverErr", "netErr", "ctxErr"}
Succeeded == {"ok", "decodeErr"}
Results == Definite \cup Ambiguous \cup Succeeded
               \cup {"none", "pending", "marshalErr"}

Attempts == 0..MaxRetries
Requests == [call : Calls, attempt : Attempts]
NoReply == 0

TypeOK ==
    /\ kind \in [Calls -> Kinds \cup {"none"}]
    /\ pc \in [Calls -> {"idle", "send", "wait", "returned"}]
    /\ attempt \in [Calls -> Attempts]
    /\ ctxDone \in [Calls -> BOOLEAN]
    /\ result \in [Calls -> Results]
    /\ requests \subseteq Requests
    /\ reply \in [Calls -> Statuses \cup {NoReply}]
    /\ resource \in {"absent", "present"}
    /\ effects \in [Calls -> Nat]
    /\ observed \in [Calls -> SUBSET {"absent", "present"}]

Init ==
    /\ kind = [c \in Calls |-> "none"]
    /\ pc = [c \in Calls |-> "idle"]
    /\ attempt = [c \in Calls |-> 0]
    /\ ctxDone = [c \in Calls |-> FALSE]
    /\ result = [c \in Calls |-> "none"]
    /\ requests = {}
    /\ reply = [c \in Calls |-> NoReply]
    /\ resource \in {"absent", "present"}
    /\ effects = [c \in Calls |-> 0]
    /\ observed = [c \in Calls |-> {}]

-----------------------------------------------------------------------------
(* The client.                                                             *)

(* crud calls do, which marshals the body, if there is one, before it      *)
(* sends anything.                                                         *)
Invoke(c) ==
    /\ pc[c] = "idle"
    /\ \E k \in Kinds :
        /\ kind' = [kind EXCEPT ![c] = k]
        /\ \/ /\ pc' = [pc EXCEPT ![c] = "send"]
              /\ result' = [result EXCEPT ![c] = "pending"]
           \/ /\ k \in {"create", "update"}
              /\ pc' = [pc EXCEPT ![c] = "returned"]
              /\ result' = [result EXCEPT ![c] = "marshalErr"]
    /\ UNCHANGED <<attempt, ctxDone, requests, reply, serverVars>>

(* doOnce: build, sign and send the request of this attempt.               *)
Send(c) ==
    /\ pc[c] = "send"
    /\ ~ctxDone[c]
    /\ requests' = requests \cup {[call |-> c, attempt |-> attempt[c]]}
    /\ pc' = [pc EXCEPT ![c] = "wait"]
    /\ UNCHANGED <<kind, attempt, ctxDone, result, reply, serverVars>>

Returns(c, r) ==
    /\ pc' = [pc EXCEPT ![c] = "returned"]
    /\ result' = [result EXCEPT ![c] = r]
    /\ reply' = [reply EXCEPT ![c] = NoReply]
    /\ UNCHANGED attempt

(* Mutated: the retry is not counted.                                      *)
RetriesUncounted(c) ==
    /\ pc' = [pc EXCEPT ![c] = "send"]
    /\ reply' = [reply EXCEPT ![c] = NoReply]
    /\ UNCHANGED <<attempt, result>>

Retries(c) ==
    /\ pc' = [pc EXCEPT ![c] = "send"]
    /\ attempt' = [attempt EXCEPT ![c] = @ + 1]
    /\ reply' = [reply EXCEPT ![c] = NoReply]
    /\ UNCHANGED result

(* Mutated: every method is retried, or POST too.                          *)
MayRetryAll(c) == attempt[c] < MaxRetries
MayRetryPost(c) ==
    MethodOf(kind[c]) \in {"GET", "POST"} /\ attempt[c] < MaxRetries

(* doRaw's decision on a 5xx response and on an error that is neither a    *)
(* response nor the context's.                                             *)
MayRetry(c) == MethodOf(kind[c]) = "GET" /\ attempt[c] < MaxRetries

(* doOnce ends with a transient error r.                                   *)
Transient(c, r) ==
    IF MayRetry(c) THEN Retries(c) ELSE Returns(c, r)

(* httpClient.Do returned a response and its body was read to the end. do  *)
(* decodes the body of a 2xx into the result type.                         *)
Receive(c) ==
    /\ pc[c] = "wait"
    /\ reply[c] # NoReply
    /\ CASE reply[c] = 200 -> \E r \in Succeeded : Returns(c, r)
         [] reply[c] >= 500 -> Transient(c, Sentinel(reply[c]))
         [] OTHER -> Returns(c, Sentinel(reply[c]))
    /\ UNCHANGED <<kind, ctxDone, requests, serverVars>>

(* The request could not be built, signed or sent, the connection broke,   *)
(* or the body could not be read: an error without a response.             *)
NetError(c) ==
    /\ pc[c] \in {"send", "wait"}
    /\ Transient(c, "netErr")
    /\ UNCHANGED <<kind, ctxDone, requests, serverVars>>

(* The caller's context is done, or the Timeout of the http.Client, whose  *)
(* error also is context.DeadlineExceeded, has passed: isNetErr is false.  *)
CtxError(c) ==
    /\ pc[c] = "wait" \/ (pc[c] = "send" /\ ctxDone[c])
    /\ Returns(c, "ctxErr")
    /\ UNCHANGED <<kind, ctxDone, requests, serverVars>>

(* The caller cancels.                                                     *)
CancelCtx(c) ==
    /\ pc[c] # "returned"
    /\ ~ctxDone[c]
    /\ ctxDone' = [ctxDone EXCEPT ![c] = TRUE]
    /\ UNCHANGED <<kind, pc, attempt, result, requests, reply, serverVars>>

-----------------------------------------------------------------------------
(* The server (external).                                                  *)

(* The reply to an attempt that was given up finds nobody.                 *)
Reply(q, status) ==
    /\ requests' = requests \ {q}
    /\ reply' = IF pc[q.call] = "wait" /\ attempt[q.call] = q.attempt
                THEN [reply EXCEPT ![q.call] = status] ELSE reply
    /\ UNCHANGED clientVars

(* It refuses a request, or fails before it has looked at the resource.    *)
Refuse(q) ==
    /\ \E status \in {400, 401, 403, 503} : Reply(q, status)
    /\ UNCHANGED serverVars

(* It answers from the resource as it finds it, or fails after that.       *)
Serve(q) ==
    LET k == kind[q.call]
        applies == k \in Writes /\ resource = Before(k)
        found == k = "list" \/ (k = "get" /\ resource = "present")
        status == IF applies \/ found THEN 200
                  ELSE IF k = "create" THEN 409 ELSE 404
    IN  /\ \E s \in {status, 503} : Reply(q, s)
        /\ resource' = IF applies THEN After(k) ELSE resource
        /\ effects' = IF applies THEN [effects EXCEPT ![q.call] = @ + 1]
                                 ELSE effects
        /\ observed' = [observed EXCEPT ![q.call] = @ \cup {resource}]

-----------------------------------------------------------------------------
Client(c) == Invoke(c) \/ Send(c) \/ Receive(c) \/ NetError(c) \/ CtxError(c)

Server == \E q \in requests : Refuse(q) \/ Serve(q)

Terminated == (\A c \in Calls : pc[c] = "returned") /\ UNCHANGED vars

Next ==
    \/ \E c \in Calls : Client(c) \/ CancelCtx(c)
    \/ Server
    \/ Terminated

Spec == Init /\ [][Next]_vars

(* A goroutine runs on, and httpClient.Do ends at its Timeout even if the  *)
(* server never answers. Nothing is assumed of the network or the server.  *)
FairSpec == Spec /\ \A c \in Calls : WF_vars(Client(c))

-----------------------------------------------------------------------------
(* Correctness.                                                            *)

(* No write is applied twice, even when its reply is lost, a 5xx follows   *)
(* the write, or the request arrives after the call has returned.          *)
WritesAtMostOnce == \A c \in Calls : effects[c] <= 1

(* A caller may believe what it is told: success means that the write has  *)
(* been applied, and a status 4xx that it has not been and will not be. (A *)
(* POST retried after a lost reply would be told 409 about the object it   *)
(* has created itself.)                                                    *)
ResultsAreHonest ==
    \A c \in Calls :
        kind[c] \in Writes =>
            /\ result[c] \in Succeeded => effects[c] = 1
            /\ result[c] \in Definite \cup {"marshalErr"} => effects[c] = 0

(* A read reports a 5xx or a broken connection only when its retries are   *)
(* spent: no order of failures makes it give up early.                     *)
RetryBudget ==
    \A c \in Calls :
        result[c] \in {"serverErr", "netErr"} /\ kind[c] \in Reads =>
            attempt[c] = MaxRetries

(* Every call returns, whatever the network and the server do.             *)
EveryCallReturns == \A c \in Calls : pc[c] = "send" ~> pc[c] = "returned"

-----------------------------------------------------------------------------
(* The inductive invariant: a write has one request, which is unsent, in   *)
(* the network or served, and what the caller will be told agrees with it. *)

InFlight(c) == \E q \in requests : q.call = c

PhaseInv ==
    \A c \in Calls :
        /\ pc[c] = "idle" <=> kind[c] = "none"
        /\ pc[c] = "idle" <=> result[c] = "none"
        /\ pc[c] \in {"send", "wait"} <=> result[c] = "pending"
        /\ pc[c] = "idle" => ~InFlight(c)
        /\ reply[c] # NoReply => pc[c] = "wait"

BudgetInv ==
    /\ RetryBudget
    /\ \A c \in Calls : kind[c] \notin Reads => attempt[c] = 0
    /\ \A q \in requests : q.attempt <= attempt[q.call]

EffectOK(c) ==
    /\ effects[c] \in {0, 1}
    /\ kind[c] \notin Writes => effects[c] = 0
    /\ pc[c] = "send" => effects[c] = 0
    /\ kind[c] \in Writes =>
        /\ InFlight(c) => /\ pc[c] \in {"wait", "returned"}
                          /\ effects[c] = 0
                          /\ reply[c] = NoReply
        /\ reply[c] = 200 => effects[c] = 1
        /\ reply[c] \in {400, 401, 403, 404, 409} => effects[c] = 0
        /\ result[c] \in Succeeded => effects[c] = 1
        /\ result[c] \in Definite \cup {"marshalErr"} =>
            effects[c] = 0 /\ ~InFlight(c)

ObservedOK(c) ==
    /\ reply[c] = 404 => "absent" \in observed[c]
    /\ reply[c] = 409 => "present" \in observed[c]
    /\ reply[c] = 200 => observed[c] # {}

EffectInv == \A c \in Calls : EffectOK(c)
ObservedInv == \A c \in Calls : ObservedOK(c)

IInv == TypeOK /\ PhaseInv /\ BudgetInv /\ EffectInv /\ ObservedInv

-----------------------------------------------------------------------------
(* The request path implements the contract of a call.                     *)
Contract == INSTANCE CallContract WITH
    Calls <- Calls, kind <- kind, resource <- resource, effects <- effects,
    observed <- observed, result <- result
RefinesContract == Contract!Spec

=============================================================================
