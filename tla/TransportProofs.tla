--------------------------- MODULE TransportProofs ---------------------------
(***************************************************************************)
(* Proofs about the request path, for any set of concurrent calls and any  *)
(* retry budget. The argument: MethodOf maps a write to something else     *)
(* than GET, so Transient returns at once and a write has one request; the *)
(* server consumes it when it serves it; and the call learns a definite    *)
(* status only from the reply to that request.                             *)
(***************************************************************************)
EXTENDS Transport, TLAPS

LEMMA OnlyReadsAreGets ==
    \A k \in Kinds : MethodOf(k) = "GET" <=> k \in Reads
  BY DEF Kinds, Reads, Writes, MethodOf

(* Which errors the statuses of the server become.                         *)
LEMMA SentinelOf ==
    \A s \in Statuses :
        /\ s >= 500 => Sentinel(s) = "serverErr"
        /\ s # 200 /\ s < 500 =>
            Sentinel(s) \in Definite /\ s \in {400, 401, 403, 404, 409}
        /\ Sentinel(s) = "ErrNotFound" <=> s = 404
        /\ Sentinel(s) = "ErrConflict" <=> s = 409
  BY DEF Statuses, Sentinel, Definite

(* A connection without a reply is not taken for one with a status.        *)
LEMMA NoReplyIsNoStatus == NoReply \notin {200, 400, 401, 403, 404, 409, 503}
  BY DEF NoReply

LEMMA InitIInv == Init => IInv
<1> SUFFICES ASSUME Init PROVE IInv
  OBVIOUS
<1>1. TypeOK
  BY MaxRetriesAssumption
  DEF Init, TypeOK, Kinds, Results, Attempts, Requests, Statuses, NoReply
<1>2. PhaseInv
  BY DEF Init, PhaseInv, InFlight, NoReply
<1>3. BudgetInv /\ EffectInv /\ ObservedInv
  BY DEF Init, BudgetInv, RetryBudget, EffectInv, EffectOK, ObservedInv, ObservedOK, InFlight,
         NoReply, Writes, Succeeded, Definite
<1> QED
  BY <1>1, <1>2, <1>3 DEF IInv

(* How a call leaves an attempt: it retries, which only a read does and    *)
(* only within its budget, or returns r.                                   *)
LEMMA TransientStep ==
    ASSUME IInv, NEW c \in Calls, NEW r, Transient(c, r),
           pc[c] \in {"send", "wait"}
    PROVE  \/ Returns(c, r) /\ (kind[c] \in Reads => attempt[c] = MaxRetries)
           \/ Retries(c) /\ kind[c] \in Reads /\ attempt[c] < MaxRetries
<1>1. kind[c] \in Kinds /\ attempt[c] \in 0..MaxRetries
  BY DEF IInv, TypeOK, PhaseInv, Attempts
<1> QED
  BY <1>1, OnlyReadsAreGets, MaxRetriesAssumption DEF Transient, MayRetry

(* Every way an attempt can end: with a status, without one, or canceled.  *)
LEMMA AttemptEnds ==
    ASSUME IInv, NEW c \in Calls, Receive(c) \/ NetError(c) \/ CtxError(c)
    PROVE  /\ pc[c] \in {"send", "wait"}
           /\ UNCHANGED <<kind, ctxDone, requests, serverVars>>
           /\ \/ Retries(c) /\ kind[c] \in Reads /\ attempt[c] < MaxRetries
              \/ \E r \in Ambiguous :
                    /\ Returns(c, r)
                    /\ r # "ctxErr" /\ kind[c] \in Reads =>
                        attempt[c] = MaxRetries
              \/ \E r \in Succeeded : reply[c] = 200 /\ Returns(c, r)
              \/ /\ reply[c] \in {400, 401, 403, 404, 409}
                 /\ Sentinel(reply[c]) \in Definite
                 /\ Returns(c, Sentinel(reply[c]))
<1>1. CASE Receive(c)
  <2>1. reply[c] \in Statuses
    BY <1>1 DEF Receive, IInv, TypeOK
  <2>2. CASE reply[c] = 200
    BY <1>1, <2>2 DEF Receive, Succeeded
  <2>3. CASE reply[c] >= 500
    BY <1>1, <2>1, <2>3, SentinelOf, TransientStep
    DEF Receive, Ambiguous, Statuses
  <2>4. CASE reply[c] # 200 /\ reply[c] < 500
    BY <1>1, <2>1, <2>4, SentinelOf DEF Receive, Statuses
  <2> QED
    BY <2>1, <2>2, <2>3, <2>4 DEF Statuses
<1>2. CASE NetError(c)
  BY <1>2, TransientStep DEF NetError, Ambiguous
<1>3. CASE CtxError(c)
  BY <1>3 DEF CtxError, Ambiguous
<1> QED
  BY <1>1, <1>2, <1>3

(* What the server does to a request it takes from the network.            *)
LEMMA ServerStep ==
    ASSUME IInv, NEW q \in requests, Refuse(q) \/ Serve(q)
    PROVE  /\ q.call \in Calls /\ q.attempt \in Attempts
           /\ UNCHANGED clientVars
           /\ requests' = requests \ {q}
           /\ \E s \in Statuses :
                /\ reply' = IF pc[q.call] = "wait"
                                 /\ attempt[q.call] = q.attempt
                            THEN [reply EXCEPT ![q.call] = s] ELSE reply
                /\ \/ s \in {400, 401, 403, 503} /\ UNCHANGED serverVars
                   \/ /\ observed' = [observed EXCEPT ![q.call] =
                                                        @ \cup {resource}]
                      /\ s = 404 => resource = "absent"
                      /\ s = 409 => resource = "present"
                      /\ \/ /\ kind[q.call] \in Writes
                            /\ resource = Before(kind[q.call])
                            /\ resource' = After(kind[q.call])
                            /\ effects' = [effects EXCEPT ![q.call] = @ + 1]
                            /\ s \in {200, 503}
                         \/ /\ UNCHANGED <<resource, effects>>
                            /\ kind[q.call] \in Writes => s # 200
<1>1. /\ q.call \in Calls /\ q.attempt \in Attempts
      /\ resource \in {"absent", "present"}
  BY DEF IInv, TypeOK, Requests
<1>2. kind[q.call] \in Kinds
  BY <1>1 DEF IInv, TypeOK, PhaseInv, InFlight
<1>3. CASE Refuse(q)
  <2>1. PICK s \in {400, 401, 403, 503} : Reply(q, s)
    BY <1>3 DEF Refuse
  <2>2. s \in Statuses /\ UNCHANGED serverVars
    BY <1>3 DEF Refuse, Statuses
  <2> QED
    BY <1>1, <2>1, <2>2 DEF Reply
<1>4. CASE Serve(q)
  <2> DEFINE k == kind[q.call]
             applies == k \in Writes /\ resource = Before(k)
             found == k = "list" \/ (k = "get" /\ resource = "present")
             status == IF applies \/ found THEN 200
                       ELSE IF k = "create" THEN 409 ELSE 404
  <2>1. PICK s \in {status, 503} : Reply(q, s)
    BY <1>4 DEF Serve
  <2>2. /\ resource' = IF applies THEN After(k) ELSE resource
        /\ effects' = IF applies THEN [effects EXCEPT ![q.call] = @ + 1]
                                 ELSE effects
        /\ observed' = [observed EXCEPT ![q.call] = @ \cup {resource}]
    BY <1>4 DEF Serve
  <2>3. /\ s \in Statuses
        /\ s = 404 => resource = "absent"
        /\ s = 409 => resource = "present"
        /\ applies => s \in {200, 503}
        /\ k \in Writes /\ ~applies => s # 200
    <3>1. s = status \/ s = 503
      BY <2>1
    <3>2. k \in {"get", "list", "create", "update", "remove"}
      BY <1>2 DEF Kinds, Reads, Writes
    <3> QED
      BY <1>1, <3>1, <3>2 DEF Statuses, Writes, Before
  <2>4. CASE applies
    BY <1>1, <2>1, <2>2, <2>3, <2>4 DEF Reply
  <2>5. CASE ~applies
    BY <1>1, <2>1, <2>2, <2>3, <2>5 DEF Reply
  <2> QED
    BY <2>4, <2>5
<1> QED
  BY <1>3, <1>4

-----------------------------------------------------------------------------
(* Each kind of step preserves the whole of IInv.                          *)

LEMMA InvokeStep == ASSUME IInv, NEW c \in Calls, Invoke(c) PROVE IInv'
<1>0. TypeOK /\ PhaseInv /\ BudgetInv /\ EffectInv /\ ObservedInv
  BY DEF IInv
<1>1. /\ pc[c] = "idle" /\ kind[c] = "none" /\ ~InFlight(c)
      /\ attempt[c] = 0 /\ effects[c] = 0 /\ reply[c] = NoReply
  BY <1>0 DEF Invoke, TypeOK, PhaseInv, BudgetInv, EffectInv, EffectOK, Reads, Writes
<1>2. TypeOK'
  BY <1>0 DEF Invoke, TypeOK, Results, serverVars
<1>3. PhaseInv'
  BY <1>0, <1>1
  DEF Invoke, TypeOK, PhaseInv, InFlight, serverVars, Kinds, Reads, Writes
<1>4. BudgetInv'
  BY <1>0, <1>1 DEF Invoke, TypeOK, BudgetInv, RetryBudget
<1>5. EffectInv'
  BY <1>0, <1>1
  DEF Invoke, TypeOK, EffectInv, EffectOK, InFlight, serverVars, NoReply, Succeeded,
      Definite
<1>6. ObservedInv'
  BY <1>0 DEF Invoke, ObservedInv, ObservedOK, serverVars
<1> QED
  BY <1>2, <1>3, <1>4, <1>5, <1>6 DEF IInv

LEMMA SendStep == ASSUME IInv, NEW c \in Calls, Send(c) PROVE IInv'
<1>0. TypeOK /\ PhaseInv /\ BudgetInv /\ EffectInv /\ ObservedInv
  BY DEF IInv
<1>1. /\ pc[c] = "send" /\ reply[c] = NoReply /\ effects[c] = 0
      /\ result[c] = "pending"
  BY <1>0 DEF Send, PhaseInv, EffectInv, EffectOK, NoReply
<1>2. \A d \in Calls : InFlight(d)' <=> InFlight(d) \/ d = c
  <2>1. [call |-> c, attempt |-> attempt[c]].call = c
    OBVIOUS
  <2> QED
    BY <2>1 DEF Send, InFlight
<1>3. TypeOK'
  BY <1>0 DEF Send, TypeOK, Requests, serverVars
<1>4. PhaseInv'
  BY <1>0, <1>1, <1>2 DEF Send, TypeOK, PhaseInv
<1>5. BudgetInv'
  <2>1. attempt[c] \in Nat
    BY <1>0, MaxRetriesAssumption DEF TypeOK, Attempts
  <2> QED
    BY <1>0, <2>1 DEF Send, BudgetInv, RetryBudget
<1>7. ObservedInv'
  BY <1>0 DEF Send, ObservedInv, ObservedOK, serverVars
<1>6. EffectInv'
  BY <1>0, <1>1, <1>2
  DEF Send, TypeOK, EffectInv, EffectOK, serverVars, Definite, Succeeded
<1> QED
  BY <1>3, <1>4, <1>5, <1>6, <1>7 DEF IInv

LEMMA EndStep ==
    ASSUME IInv, NEW c \in Calls, Receive(c) \/ NetError(c) \/ CtxError(c)
    PROVE  IInv'
<1>0. TypeOK /\ PhaseInv /\ BudgetInv /\ EffectInv /\ ObservedInv
  BY DEF IInv
<1>1. /\ pc[c] \in {"send", "wait"}
      /\ UNCHANGED <<kind, ctxDone, requests, resource, effects, observed>>
  BY AttemptEnds DEF serverVars
<1>2. \A d \in Calls : InFlight(d)' <=> InFlight(d)
  BY <1>1 DEF InFlight
<1>3. CASE Retries(c) /\ kind[c] \in Reads /\ attempt[c] < MaxRetries
  <2>1. TypeOK'
    BY <1>0, <1>1, <1>3, MaxRetriesAssumption
    DEF Retries, TypeOK, Attempts, NoReply
  <2>2. PhaseInv'
    BY <1>0, <1>1, <1>2, <1>3 DEF Retries, TypeOK, PhaseInv
  <2>5. ObservedInv'
    BY <1>0, <1>1, <1>3, NoReplyIsNoStatus
    DEF Retries, TypeOK, ObservedInv, ObservedOK
  <2>3. BudgetInv'
    <3>1. RetryBudget' /\ \A d \in Calls : (kind[d] \notin Reads => attempt[d] = 0)'
      BY <1>0, <1>1, <1>3
      DEF Retries, TypeOK, PhaseInv, BudgetInv, RetryBudget
    <3>2. ASSUME NEW q \in requests PROVE q.attempt <= attempt'[q.call]
      BY <1>0, <1>3, MaxRetriesAssumption
      DEF Retries, TypeOK, BudgetInv, Attempts, Requests
    <3> QED
      BY <1>1, <3>1, <3>2 DEF BudgetInv
  <2>4. EffectInv'
    BY <1>0, <1>1, <1>2, <1>3
    DEF Retries, TypeOK, EffectInv, EffectOK, NoReply, Reads, Writes
  <2> QED
    BY <2>1, <2>2, <2>3, <2>4, <2>5 DEF IInv
<1>4. ASSUME NEW r \in Ambiguous \cup Succeeded \cup Definite, Returns(c, r),
             r \in {"serverErr", "netErr"} /\ kind[c] \in Reads =>
                attempt[c] = MaxRetries,
             r \in Succeeded => reply[c] = 200,
             r \in Definite => reply[c] \in {400, 401, 403, 404, 409}
      PROVE  IInv'
  <2>1. TypeOK'
    BY <1>0, <1>1, <1>4 DEF Returns, TypeOK, Results, NoReply
  <2>2. PhaseInv'
    BY <1>0, <1>1, <1>2, <1>4
    DEF Returns, TypeOK, PhaseInv, Ambiguous, Succeeded, Definite
  <2>5. ObservedInv'
    BY <1>0, <1>1, <1>4, NoReplyIsNoStatus
    DEF Returns, TypeOK, ObservedInv, ObservedOK
  <2>3. BudgetInv'
    BY <1>0, <1>1, <1>4 DEF Returns, TypeOK, BudgetInv, RetryBudget
  <2>4. EffectInv'
    BY <1>0, <1>1, <1>2, <1>4
    DEF Returns, TypeOK, EffectInv, EffectOK, NoReply, Ambiguous, Succeeded, Definite
  <2> QED
    BY <2>1, <2>2, <2>3, <2>4, <2>5 DEF IInv
<1>5. ASSUME NEW r \in Ambiguous, Returns(c, r),
             r # "ctxErr" /\ kind[c] \in Reads => attempt[c] = MaxRetries
      PROVE  IInv'
  BY <1>4, <1>5 DEF Ambiguous, Succeeded, Definite
<1>6. ASSUME NEW r \in Succeeded, reply[c] = 200, Returns(c, r) PROVE IInv'
  BY <1>4, <1>6 DEF Succeeded, Definite
<1>7. CASE /\ reply[c] \in {400, 401, 403, 404, 409}
           /\ Sentinel(reply[c]) \in Definite
           /\ Returns(c, Sentinel(reply[c]))
  BY <1>4, <1>7 DEF Succeeded, Definite
<1> QED
  BY <1>3, <1>5, <1>6, <1>7, AttemptEnds

LEMMA ServeStep ==
    ASSUME IInv, NEW q \in requests, Refuse(q) \/ Serve(q)
    PROVE  IInv'
<1>0. TypeOK /\ PhaseInv /\ BudgetInv /\ EffectInv /\ ObservedInv
  BY DEF IInv
<1> DEFINE d == q.call
<1>1. /\ d \in Calls /\ InFlight(d) /\ pc[d] # "idle"
      /\ UNCHANGED <<kind, pc, attempt, ctxDone, result>>
      /\ requests' = requests \ {q}
  BY <1>0, ServerStep DEF InFlight, PhaseInv, clientVars
<1>2. PICK s \in Statuses :
        /\ reply' = IF pc[d] = "wait" /\ attempt[d] = q.attempt
                    THEN [reply EXCEPT ![d] = s] ELSE reply
        /\ \/ s \in {400, 401, 403, 503} /\ UNCHANGED serverVars
           \/ /\ observed' = [observed EXCEPT ![d] = @ \cup {resource}]
              /\ s = 404 => resource = "absent"
              /\ s = 409 => resource = "present"
              /\ \/ /\ kind[d] \in Writes
                    /\ resource = Before(kind[d])
                    /\ resource' = After(kind[d])
                    /\ effects' = [effects EXCEPT ![d] = @ + 1]
                    /\ s \in {200, 503}
                 \/ /\ UNCHANGED <<resource, effects>>
                    /\ kind[d] \in Writes => s # 200
  BY ServerStep
<1>3. \A e \in Calls : InFlight(e)' => InFlight(e)
  BY <1>1 DEF InFlight
<1>4. kind[d] \in Writes => attempt[d] = 0 /\ q.attempt = 0 /\ ~InFlight(d)'
  <2>1. ASSUME kind[d] \in Writes, NEW u \in requests, u.call = d
        PROVE  attempt[d] = 0 /\ u = [call |-> d, attempt |-> 0]
    <3>1. attempt[d] = 0 /\ u.attempt <= attempt[d] /\ u \in Requests
      BY <1>0, <1>1, <2>1 DEF BudgetInv, TypeOK, Reads, Writes
    <3> QED
      BY <2>1, <3>1, MaxRetriesAssumption DEF Requests, Attempts
  <2> QED
    BY <1>1, <2>1 DEF InFlight
<1>5. TypeOK'
  <2>1. effects' \in [Calls -> Nat] /\ resource' \in {"absent", "present"}
    BY <1>0, <1>1, <1>2 DEF TypeOK, serverVars, After
  <2>2. observed' \in [Calls -> SUBSET {"absent", "present"}]
    BY <1>0, <1>1, <1>2 DEF TypeOK, serverVars
  <2>3. reply' \in [Calls -> Statuses \cup {NoReply}]
    BY <1>0, <1>1, <1>2 DEF TypeOK
  <2>4. requests' \subseteq Requests
    BY <1>0, <1>1 DEF TypeOK
  <2> QED
    BY <1>0, <1>1, <2>1, <2>2, <2>3, <2>4 DEF TypeOK
<1>6. PhaseInv'
  BY <1>0, <1>1, <1>2, <1>3 DEF TypeOK, PhaseInv
<1>7. BudgetInv'
  BY <1>0, <1>1 DEF BudgetInv, RetryBudget
<1>8. EffectInv'
  <2>1. ASSUME NEW e \in Calls, e # d PROVE EffectOK(e)'
    <3>1. UNCHANGED <<effects[e], kind[e], pc[e], reply[e], result[e]>>
      BY <1>0, <1>1, <1>2, <2>1 DEF TypeOK, serverVars
    <3> QED
      BY <1>0, <1>3, <2>1, <3>1 DEF EffectInv, EffectOK
  <2>2. EffectOK(d)'
    <3>1. CASE kind[d] \in Writes
      <4>1. /\ effects[d] = 0 /\ reply[d] = NoReply /\ ~InFlight(d)'
            /\ pc[d] \in {"wait", "returned"}
            /\ result[d] \notin Definite \cup Succeeded \cup {"marshalErr"}
        BY <1>0, <1>1, <1>4, <3>1 DEF EffectInv, EffectOK
      <4>2. \/ effects'[d] = 1 /\ reply'[d] \in {NoReply, 200, 503}
            \/ effects'[d] = 0 /\ reply'[d] \in Statuses \cup {NoReply}
                              /\ reply'[d] # 200
        BY <1>0, <1>1, <1>2, <3>1, <4>1 DEF TypeOK, serverVars, NoReply,
           Statuses
      <4> QED
        BY <1>1, <3>1, <4>1, <4>2, NoReplyIsNoStatus DEF EffectOK
    <3>2. CASE kind[d] \notin Writes
      BY <1>0, <1>1, <1>2, <3>2 DEF EffectInv, EffectOK, serverVars
    <3> QED
      BY <3>1, <3>2
  <2> QED
    BY <2>1, <2>2 DEF EffectInv
<1>9. ObservedInv'
  <2>1. ASSUME NEW e \in Calls, e # d PROVE ObservedOK(e)'
    <3>1. UNCHANGED <<reply[e], observed[e]>>
      BY <1>0, <1>1, <1>2, <2>1 DEF TypeOK, serverVars
    <3> QED
      BY <1>0, <3>1 DEF ObservedInv, ObservedOK
  <2>2. ObservedOK(d)'
    <3>1. observed[d] \subseteq observed'[d]
      BY <1>0, <1>1, <1>2 DEF TypeOK, serverVars
    <3>2. reply'[d] = reply[d] \/ reply'[d] = s
      BY <1>0, <1>1, <1>2 DEF TypeOK
    <3>3. s \in {200, 404, 409} => resource \in observed'[d]
      BY <1>0, <1>1, <1>2 DEF TypeOK
    <3>4. s = 404 => "absent" \in observed'[d]
      <4>1. s = 404 => resource = "absent"
        BY <1>0, <1>2 DEF TypeOK
      <4> QED
        BY <3>3, <4>1
    <3>5. s = 409 => "present" \in observed'[d]
      <4>1. s = 409 => resource = "present"
        BY <1>0, <1>2 DEF TypeOK
      <4> QED
        BY <3>3, <4>1
    <3> QED
      BY <1>0, <1>1, <3>1, <3>2, <3>3, <3>4, <3>5 DEF ObservedInv, ObservedOK
  <2> QED
    BY <2>1, <2>2 DEF ObservedInv
<1> QED
  BY <1>5, <1>6, <1>7, <1>8, <1>9 DEF IInv

LEMMA IdleStep ==
    ASSUME IInv, \/ \E c \in Calls : CancelCtx(c)
                 \/ Terminated
                 \/ UNCHANGED vars
    PROVE  IInv'
<1>0. TypeOK /\ PhaseInv /\ BudgetInv /\ EffectInv /\ ObservedInv
  BY DEF IInv
<1>1. /\ UNCHANGED <<kind, pc, attempt, result, requests, reply, resource,
                     effects, observed>>
      /\ ctxDone' \in [Calls -> BOOLEAN]
  BY <1>0
  DEF CancelCtx, Terminated, vars, clientVars, serverVars, TypeOK
<1>2. TypeOK'
  BY <1>0, <1>1 DEF TypeOK
<1>3. PhaseInv' /\ BudgetInv'
  BY <1>0, <1>1 DEF PhaseInv, InFlight, BudgetInv, RetryBudget
<1>4. EffectInv' /\ ObservedInv'
  BY <1>0, <1>1 DEF EffectInv, EffectOK, ObservedInv, ObservedOK, InFlight
<1> QED
  BY <1>2, <1>3, <1>4 DEF IInv

-----------------------------------------------------------------------------
(* IInv holds in every reachable state of the request path.                *)
THEOREM Invariance == Spec => []IInv
<1>1. IInv /\ [Next]_vars => IInv'
  BY InvokeStep, SendStep, EndStep, ServeStep, IdleStep
  DEF Next, Client, Server
<1> QED
  BY <1>1, InitIInv, PTL DEF Spec

(* Every variable keeps its type: the retry counter stays in its budget.   *)
THEOREM TypeCorrect == Spec => []TypeOK
<1>1. IInv => TypeOK
  BY DEF IInv
<1> QED
  BY <1>1, Invariance, PTL

(* No write is applied twice, for any number of concurrent calls, any      *)
(* retry budget, and any loss, delay and failure of the network.           *)
THEOREM AtMostOnce == Spec => []WritesAtMostOnce
<1>1. IInv => WritesAtMostOnce
  BY DEF IInv, EffectInv, EffectOK, WritesAtMostOnce
<1> QED
  BY <1>1, Invariance, PTL

(* Success means that a write was applied; a 4xx that it never will be.    *)
THEOREM HonestResults == Spec => []ResultsAreHonest
<1>1. IInv => ResultsAreHonest
  BY DEF IInv, EffectInv, EffectOK, ResultsAreHonest
<1> QED
  BY <1>1, Invariance, PTL

(* A read gives up on transient errors only when its budget is spent.      *)
THEOREM BudgetIsSpent == Spec => []RetryBudget
<1>1. IInv => RetryBudget
  BY DEF IInv, BudgetInv
<1> QED
  BY <1>1, Invariance, PTL

-----------------------------------------------------------------------------
(* The request path implements CallContract: the end of the last attempt   *)
(* is its Return, the server's step its Serve; sending, retrying, refusing *)
(* and canceling change nothing a caller could tell.                       *)
THEOREM ImplementsContract == Spec => RefinesContract
<1> USE DEF Contract!Reads, Reads, Contract!Writes, Writes,
            Contract!Definite, Definite, Contract!Ambiguous, Ambiguous,
            Contract!Succeeded, Succeeded
<1>1. Init => Contract!Init
  BY DEF Init, Contract!Init
<1>2. IInv /\ [Next]_vars => [Contract!Next]_(Contract!vars)
  <2> SUFFICES ASSUME IInv, [Next]_vars
               PROVE  [Contract!Next]_(Contract!vars)
    OBVIOUS
  <2>0. TypeOK /\ PhaseInv /\ EffectInv /\ ObservedInv
    BY DEF IInv
  <2>1. ASSUME NEW c \in Calls, Invoke(c) PROVE Contract!Invoke(c)
    BY <2>0, <2>1
    DEF Invoke, PhaseInv, Kinds, serverVars, Contract!Invoke
  <2>2. ASSUME NEW c \in Calls, Receive(c) \/ NetError(c) \/ CtxError(c)
        PROVE  \/ \E r \in Definite \cup Ambiguous \cup Succeeded :
                    Contract!Return(c, r)
               \/ UNCHANGED Contract!vars
    <3>0. /\ UNCHANGED <<kind, resource, effects, observed>>
          /\ result[c] = "pending" /\ kind[c] \in Kinds
      BY <2>0, <2>2, AttemptEnds DEF PhaseInv, TypeOK, serverVars
    <3>1. CASE Retries(c)
      BY <3>0, <3>1 DEF Retries, Contract!vars
    <3>2. ASSUME NEW r \in Ambiguous, Returns(c, r)
          PROVE  Contract!Return(c, r)
      BY <3>0, <3>2 DEF Returns, Contract!Return
    <3>3. ASSUME NEW r \in Succeeded, reply[c] = 200, Returns(c, r)
          PROVE  Contract!Return(c, r)
      BY <2>0, <3>0, <3>3
      DEF Returns, EffectInv, EffectOK, ObservedInv, ObservedOK, Kinds,
          Contract!Return
    <3>4. ASSUME reply[c] \in {400, 401, 403, 404, 409},
                 Sentinel(reply[c]) \in Definite,
                 Returns(c, Sentinel(reply[c]))
          PROVE  Contract!Return(c, Sentinel(reply[c]))
      <4>1. /\ Sentinel(reply[c]) = "ErrNotFound" => reply[c] = 404
            /\ Sentinel(reply[c]) = "ErrConflict" => reply[c] = 409
        BY <3>4, SentinelOf DEF Statuses
      <4>2. effects[c] = 0
        BY <2>0, <3>0, <3>4 DEF EffectInv, EffectOK
      <4> QED
        BY <2>0, <3>0, <3>4, <4>1, <4>2
        DEF Returns, ObservedInv, ObservedOK, Contract!Return
    <3> QED
      BY <2>2, <3>1, <3>2, <3>3, <3>4, AttemptEnds
  <2>3. ASSUME NEW q \in requests, Refuse(q) PROVE UNCHANGED Contract!vars
    BY <2>3 DEF Refuse, Reply, clientVars, serverVars, Contract!vars
  <2>4. ASSUME NEW q \in requests, Serve(q) PROVE Contract!Serve(q.call)
    <3> DEFINE d == q.call
    <3>1. /\ d \in Calls /\ InFlight(d) /\ kind[d] # "none"
          /\ UNCHANGED <<kind, result>>
      BY <2>0, <2>4, ServerStep DEF InFlight, PhaseInv, clientVars
    <3>2. kind[d] \in Writes =>
            effects[d] = 0 /\ result[d] \in {"pending"} \cup Ambiguous
      BY <2>0, <3>1 DEF EffectInv, EffectOK, PhaseInv, TypeOK, Results
    <3>3. observed' = [observed EXCEPT ![d] = @ \cup {resource}]
      BY <2>4 DEF Serve
    <3>4. CASE kind[d] \in Writes /\ resource = Before(kind[d])
      <4>1. /\ resource' = After(kind[d])
            /\ effects' = [effects EXCEPT ![d] = @ + 1]
        BY <2>4, <3>4 DEF Serve
      <4>2. effects' = [effects EXCEPT ![d] = 1]
        <5>1. effects \in [Calls -> Nat] /\ effects[d] = 0 /\ d \in Calls
          BY <2>0, <3>1, <3>2, <3>4 DEF TypeOK
        <5> HIDE DEF d
        <5> QED
          BY <4>1, <5>1
      <4>3. /\ Before(kind[d]) = Contract!Before(kind[d])
            /\ After(kind[d]) = Contract!After(kind[d])
        BY DEF Before, After, Contract!Before, Contract!After
      <4> QED
        BY <3>1, <3>2, <3>3, <3>4, <4>1, <4>2, <4>3 DEF Contract!Serve
    <3>5. CASE ~(kind[d] \in Writes /\ resource = Before(kind[d]))
      <4>1. UNCHANGED <<resource, effects>>
        BY <2>4, <3>5 DEF Serve
      <4> QED
        BY <3>1, <3>3, <4>1 DEF Contract!Serve
    <3> QED
      BY <3>4, <3>5
  <2>5. ASSUME NEW c \in Calls, Send(c) \/ CancelCtx(c)
        PROVE  UNCHANGED Contract!vars
    BY <2>5 DEF Send, CancelCtx, serverVars, Contract!vars
  <2>6. CASE Terminated \/ UNCHANGED vars
    BY <2>6 DEF Terminated, vars, clientVars, serverVars, Contract!vars
  <2>7. \A q \in requests : q.call \in Calls
    BY <2>0 DEF TypeOK, Requests
  <2> QED
    BY <2>1, <2>2, <2>3, <2>4, <2>5, <2>6, <2>7
    DEF Next, Client, Server, Contract!Next
<1> QED
  BY <1>1, <1>2, Invariance, PTL DEF Spec, RefinesContract, Contract!Spec

=============================================================================
