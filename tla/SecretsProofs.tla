---------------------------- MODULE SecretsProofs ----------------------------
(***************************************************************************)
(* Proofs about what guards secrets: the default key of a client, as       *)
(* Reregister replaces it, encrypted data bag items, and the verification  *)
(* of the server's certificate by the Clients of one process. The three    *)
(* modules share no state; where their definitions would have the same     *)
(* name, those of DataBagCrypto begin with Item, and those of SignedClient *)
(* with Signed.                                                            *)
(*                                                                         *)
(* Reregister, for any number of callers. The default key is only ever     *)
(* replaced by one that never existed before, so what was deleted stays    *)
(* revoked; and whoever leaves the client without a default key, or with   *)
(* one nobody holds, has been told of a failure for good.                  *)
(*                                                                         *)
(* DataBagCrypto, for any keys, secrets, clients, numbers and amount of    *)
(* damage. Decryption is argued about one value at a time: what each of    *)
(* its outcomes says of the value and of the secret.                       *)
(*                                                                         *)
(* SignedClient, for any Clients, http.Clients, Transports and options in  *)
(* any order. Only clones, which nobody else has, are changed. The last    *)
(* part is about its calls, for any names, keys and delays: the path that  *)
(* is signed is the path the server reads, where the HTTP client sends it  *)
(* as it stands.                                                           *)
(***************************************************************************)
EXTENDS Reregister, DataBagCrypto, SignedClient, WellFoundedInduction, TLAPS

LEMMA InitIInv == Init => IInv
<1> SUFFICES ASSUME Init PROVE IInv
  OBVIOUS
<1>1. TypeOK
  BY DEF Init, TypeOK, NoKey, FirstKey
<1> QED
  BY <1>1 DEF Init, IInv, KeysInv, RevokedInv, LateInv, NoSilentLoss, NoKey,
      FirstKey

(* A caller who was told of a failure stays told.                          *)
LEMMA ToldStays ==
    ASSUME TypeOK, [Next]_vars
    PROVE  \A c \in Callers : ToldOfFailure(c) => ToldOfFailure(c)'
<1>1. ASSUME NEW d \in Callers, Call(d) \/ Step(d) \/ Recover(d)
      PROVE  \A c \in Callers : ToldOfFailure(c) => ToldOfFailure(c)'
  <2>1. CASE Call(d)
    BY <2>1 DEF Call, ToldOfFailure
  <2>2. CASE Step(d)
    <3>1. pc[d] # "returned" /\ result[d] = "none"
      BY <2>2 DEF TypeOK, Step, DeleteDefault, DeleteFails, CreateDefault,
         CreateFails
    <3>2. \A c \in Callers \ {d} : result'[c] = result[c]
      BY <2>2 DEF TypeOK, Step, DeleteDefault, DeleteFails, CreateDefault,
         CreateFails, Returns
    <3> QED
      BY <3>1, <3>2 DEF ToldOfFailure
  <2>3. CASE Recover(d)
    BY <2>3 DEF TypeOK, Recover, ToldOfFailure
  <2> QED
    BY <1>1, <2>1, <2>2, <2>3
<1>2. UNCHANGED result
      \/ \E d \in Callers : Call(d) \/ Step(d) \/ Recover(d)
  BY DEF Next, ServeLate, Terminated, vars
<1> QED
  BY <1>1, <1>2 DEF ToldOfFailure

-----------------------------------------------------------------------------
(* The type of each variable after a step.                                 *)
LEMMA ReturnsType ==
    ASSUME TypeOK, NEW c \in Callers,
           NEW r \in {"ok", "deleteErr", "createErr"}, Returns(c, r)
    PROVE  /\ pc' \in [Callers -> {"idle", "delete", "create", "returned"}]
           /\ result' \in [Callers -> {"none", "ok", "deleteErr", "createErr",
                                       "recovered", "recoverErr"}]
           /\ \A d \in Callers : pc'[d] = "returned" <=> result'[d] # "none"
           /\ result'[c] = r /\ pc'[c] = "returned"
           /\ \A d \in Callers \ {c} : pc'[d] = pc[d] /\ result'[d] = result[d]
BY DEF TypeOK, Returns

LEMMA AddDefaultType ==
    ASSUME TypeOK, KeysInv, NEW c \in Callers, AddDefault(c)
    PROVE  /\ own' \in [Callers -> Nat] /\ default' \in Nat
           /\ fresh' \in Nat \ {NoKey}
           /\ default' # NoKey /\ default' = fresh /\ own'[c] = fresh
           /\ default' < fresh'
           /\ \A d \in Callers : old[d] < fresh' /\ default' # old[d]
BY DEF TypeOK, KeysInv, AddDefault, NoKey

-----------------------------------------------------------------------------
LEMMA CallStep == ASSUME IInv, NEW c \in Callers, Call(c) PROVE IInv'
<1>0. TypeOK /\ KeysInv /\ RevokedInv /\ LateInv /\ NoSilentLoss
  BY DEF IInv
<1>1. /\ UNCHANGED <<result, got, default, fresh, late, own>>
      /\ pc'[c] = "delete" /\ old'[c] = default /\ result[c] = "none"
      /\ \A d \in Callers \ {c} : pc'[d] = pc[d] /\ old'[d] = old[d]
      /\ pc[c] = "idle"
  BY <1>0 DEF Call, TypeOK
<1>2. TypeOK'
  <2>1. pc' \in [Callers -> {"idle", "delete", "create", "returned"}]
        /\ old' \in [Callers -> Nat]
    BY <1>0 DEF Call, TypeOK
  <2> QED
    BY <1>0, <1>1, <2>1 DEF TypeOK
<1>3. KeysInv' /\ RevokedInv' /\ LateInv'
  BY <1>0, <1>1 DEF KeysInv, RevokedInv, LateInv, ToldOfFailure
<1>4. NoSilentLoss'
  BY <1>0, <1>1 DEF NoSilentLoss, ToldOfFailure
<1> QED
  BY <1>2, <1>3, <1>4 DEF IInv

LEMMA DeleteStep ==
    ASSUME IInv, NEW c \in Callers, DeleteDefault(c) \/ DeleteFails(c)
    PROVE  IInv'
<1>0. TypeOK /\ KeysInv /\ RevokedInv /\ LateInv /\ NoSilentLoss
  BY DEF IInv
<1>1. /\ UNCHANGED <<got, fresh, old, own>>
      /\ default' \in {default, NoKey} /\ pc[c] = "delete"
      /\ late' \in {late, late \cup {[caller |-> c, op |-> "delete"]}}
      /\ late' # late => Returns(c, "deleteErr")
      /\ \/ default' = NoKey /\ UNCHANGED result
            /\ pc' = [pc EXCEPT ![c] = "create"]
         \/ Returns(c, "deleteErr")
  BY DEF DeleteDefault, DeleteFails
<1>2. /\ pc' \in [Callers -> {"idle", "delete", "create", "returned"}]
      /\ result' \in [Callers -> {"none", "ok", "deleteErr", "createErr",
                                  "recovered", "recoverErr"}]
      /\ \A d \in Callers : pc'[d] = "returned" <=> result'[d] # "none"
      /\ \A d \in Callers \ {c} : pc'[d] = pc[d] /\ result'[d] = result[d]
      /\ \/ default' = NoKey /\ pc'[c] = "create" /\ UNCHANGED result
         \/ result'[c] = "deleteErr" /\ pc'[c] = "returned"
  <2>1. CASE Returns(c, "deleteErr")
    BY <1>0, <2>1, ReturnsType
  <2>2. CASE default' = NoKey /\ UNCHANGED result
             /\ pc' = [pc EXCEPT ![c] = "create"]
    BY <1>0, <1>1, <2>2 DEF TypeOK
  <2> QED
    BY <1>1, <2>1, <2>2
<1>3. TypeOK'
  <2>1. [caller |-> c, op |-> "delete"] \in Requests
    BY DEF Requests
  <2> QED
    BY <1>0, <1>1, <1>2, <2>1 DEF TypeOK, NoKey
<1>4. KeysInv'
  BY <1>0, <1>1 DEF KeysInv, TypeOK, NoKey
<1>5. RevokedInv'
  BY <1>0, <1>1, <1>2 DEF RevokedInv
<1>6. /\ result[c] = "none"
      /\ \A d \in Callers : ToldOfFailure(d) => ToldOfFailure(d)'
  BY <1>0, <1>1, <1>2 DEF TypeOK, ToldOfFailure
<1>7. LateInv'
  <2>1. ASSUME NEW q \in late PROVE ToldOfFailure(q.caller)'
    BY <1>0, <1>6, <2>1 DEF LateInv, TypeOK, Requests
  <2>2. late' # late => ToldOfFailure(c)'
    BY <1>0, <1>1, ReturnsType DEF ToldOfFailure
  <2> QED
    BY <1>1, <2>1, <2>2 DEF LateInv
<1>8. NoSilentLoss'
  <2>1. CASE default' = NoKey
    BY <1>2, <2>1 DEF NoSilentLoss, ToldOfFailure
  <2>2. CASE default' # NoKey
    BY <1>0, <1>1, <1>6, <2>2 DEF NoSilentLoss
  <2> QED
    BY <2>1, <2>2
<1> QED
  BY <1>3, <1>4, <1>5, <1>7, <1>8 DEF IInv

LEMMA CreateStep ==
    ASSUME IInv, NEW c \in Callers, CreateDefault(c) \/ CreateFails(c)
    PROVE  IInv'
<1>0. TypeOK /\ KeysInv /\ RevokedInv /\ LateInv /\ NoSilentLoss
  BY DEF IInv
<1>1. PICK r \in {"ok", "createErr"} : Returns(c, r)
  BY DEF CreateDefault, CreateFails
<1>2. /\ pc[c] = "create" /\ result[c] = "none" /\ UNCHANGED old
      /\ AddDefault(c) \/ UNCHANGED <<default, fresh, own>>
      /\ got' = got \/ (got' = [got EXCEPT ![c] = fresh] /\ AddDefault(c))
      /\ late' \in {late, late \cup {[caller |-> c, op |-> "create"]}}
  BY <1>0 DEF CreateDefault, CreateFails, TypeOK
<1>3. \/ r = "createErr"
      \/ AddDefault(c) /\ got' = [got EXCEPT ![c] = fresh] /\ late' = late
  BY <1>0, <1>1, ReturnsType DEF CreateDefault, CreateFails
<1>4. TypeOK'
  <2>1. got' \in [Callers -> Nat]
    BY <1>0, <1>2 DEF TypeOK
  <2>2. late' \subseteq Requests
    BY <1>0, <1>2 DEF TypeOK, Requests
  <2>3. own' \in [Callers -> Nat] /\ default' \in Nat
        /\ fresh' \in Nat \ {NoKey}
    BY <1>0, <1>2, AddDefaultType DEF TypeOK
  <2>4. /\ pc' \in [Callers -> {"idle", "delete", "create", "returned"}]
        /\ result' \in [Callers -> {"none", "ok", "deleteErr", "createErr",
                                    "recovered", "recoverErr"}]
        /\ \A d \in Callers : pc'[d] = "returned" <=> result'[d] # "none"
    BY <1>0, <1>1, ReturnsType
  <2> QED
    BY <1>0, <1>2, <2>1, <2>2, <2>3, <2>4 DEF TypeOK
<1>5. /\ \A d \in Callers \ {c} : pc'[d] = pc[d] /\ result'[d] = result[d]
      /\ pc'[c] = "returned" /\ result'[c] = r
  BY <1>0, <1>1, ReturnsType
<1>6. KeysInv' /\ RevokedInv'
  <2>1. CASE AddDefault(c)
    BY <1>0, <1>2, <2>1, AddDefaultType DEF KeysInv, RevokedInv
  <2>2. CASE UNCHANGED <<default, fresh, own>>
    BY <1>0, <1>2, <1>5, <2>2 DEF KeysInv, RevokedInv
  <2> QED
    BY <1>2, <2>1, <2>2
<1>7. \A d \in Callers : ToldOfFailure(d) => ToldOfFailure(d)'
  BY <1>0, <1>2, <1>5 DEF ToldOfFailure
<1>8. LateInv'
  <2>1. ASSUME NEW q \in late PROVE ToldOfFailure(q.caller)'
    BY <1>0, <1>7, <2>1 DEF LateInv, TypeOK, Requests
  <2>2. late' # late => ToldOfFailure(c)'
    BY <1>3, <1>5 DEF ToldOfFailure
  <2> QED
    BY <1>2, <2>1, <2>2 DEF LateInv
<1>9. NoSilentLoss'
  <2>1. CASE AddDefault(c)
    <3>1. default' # NoKey /\ default' = fresh /\ own'[c] = fresh
      BY <1>0, <2>1, AddDefaultType
    <3>2. CASE r = "createErr"
      BY <1>5, <3>1, <3>2 DEF NoSilentLoss, ToldOfFailure
    <3>3. CASE got' = [got EXCEPT ![c] = fresh]
      <4>1. got'[c] = fresh
        BY <1>0, <3>3 DEF TypeOK
      <4> QED
        BY <3>1, <4>1 DEF NoSilentLoss
    <3> QED
      BY <1>3, <3>2, <3>3
  <2>2. CASE ~AddDefault(c)
    <3>1. r = "createErr" /\ UNCHANGED <<default, fresh, own, got>>
      BY <1>2, <1>3, <2>2
    <3>2. ToldOfFailure(c)'
      BY <1>5, <3>1 DEF ToldOfFailure
    <3> QED
      BY <1>0, <1>7, <3>1, <3>2 DEF NoSilentLoss
  <2> QED
    BY <2>1, <2>2
<1> QED
  BY <1>4, <1>6, <1>8, <1>9 DEF IInv

LEMMA RecoverStep == ASSUME IInv, NEW c \in Callers, Recover(c) PROVE IInv'
<1>0. TypeOK /\ KeysInv /\ RevokedInv /\ LateInv /\ NoSilentLoss
  BY DEF IInv
<1>1. /\ UNCHANGED <<pc, late, old>> /\ result[c] = "createErr"
      /\ \E r \in {"recovered", "recoverErr"} :
            result' = [result EXCEPT ![c] = r]
      /\ \/ AddDefault(c) /\ got' = [got EXCEPT ![c] = fresh]
         \/ UNCHANGED <<got, default, fresh, own>>
  BY DEF Recover
<1>2. /\ result'[c] \in {"recovered", "recoverErr"}
      /\ \A d \in Callers \ {c} : result'[d] = result[d]
  BY <1>0, <1>1 DEF TypeOK
<1>3. TypeOK'
  <2>1. result' \in [Callers -> {"none", "ok", "deleteErr", "createErr",
                                 "recovered", "recoverErr"}]
        /\ got' \in [Callers -> Nat]
    BY <1>0, <1>1 DEF TypeOK
  <2>2. own' \in [Callers -> Nat] /\ default' \in Nat
        /\ fresh' \in Nat \ {NoKey}
    BY <1>0, <1>1, AddDefaultType DEF TypeOK
  <2> QED
    BY <1>0, <1>1, <1>2, <2>1, <2>2 DEF TypeOK
<1>4. KeysInv' /\ RevokedInv'
  <2>1. CASE AddDefault(c)
    BY <1>0, <1>1, <2>1, AddDefaultType DEF KeysInv, RevokedInv
  <2>2. CASE UNCHANGED <<got, default, fresh, own>>
    BY <1>0, <1>1, <1>2, <2>2 DEF KeysInv, RevokedInv
  <2> QED
    BY <1>1, <2>1, <2>2
<1>5. \A d \in Callers : ToldOfFailure(d) => ToldOfFailure(d)'
  BY <1>2 DEF ToldOfFailure
<1>6. LateInv'
  BY <1>0, <1>1, <1>5 DEF LateInv, TypeOK, Requests
<1>7. NoSilentLoss'
  <2>1. CASE AddDefault(c) /\ got' = [got EXCEPT ![c] = fresh]
    <3>1. default' # NoKey /\ default' = fresh
      BY <1>0, <2>1, AddDefaultType
    <3>2. got'[c] = fresh
      BY <1>0, <2>1 DEF TypeOK
    <3> QED
      BY <3>1, <3>2 DEF NoSilentLoss
  <2>2. CASE UNCHANGED <<got, default, fresh, own>>
    BY <1>0, <1>1, <1>5, <2>2 DEF NoSilentLoss
  <2> QED
    BY <1>1, <2>1, <2>2
<1> QED
  BY <1>3, <1>4, <1>6, <1>7 DEF IInv

LEMMA ServeLateStep == ASSUME IInv, NEW q \in late, ServeLate(q) PROVE IInv'
<1>0. TypeOK /\ KeysInv /\ RevokedInv /\ LateInv /\ NoSilentLoss
  BY DEF IInv
<1> DEFINE c == q.caller
<1>1. c \in Callers /\ ToldOfFailure(c)
  BY <1>0 DEF TypeOK, Requests, LateInv
<1>2. /\ UNCHANGED <<pc, result, got, old>> /\ late' \subseteq late
      /\ \/ default' = NoKey /\ UNCHANGED <<fresh, own>>
         \/ AddDefault(c)
         \/ UNCHANGED <<default, fresh, own>>
  BY DEF ServeLate
<1> HIDE DEF c
<1>3. TypeOK'
  <2>1. own' \in [Callers -> Nat] /\ default' \in Nat
        /\ fresh' \in Nat \ {NoKey}
    BY <1>0, <1>1, <1>2, AddDefaultType DEF TypeOK, NoKey
  <2> QED
    BY <1>0, <1>2, <2>1 DEF TypeOK
<1>4. \A d \in Callers : ToldOfFailure(d)' <=> ToldOfFailure(d)
  BY <1>2 DEF ToldOfFailure
<1>5. LateInv'
  BY <1>0, <1>2, <1>4 DEF LateInv, TypeOK, Requests
<1>6. KeysInv' /\ RevokedInv' /\ NoSilentLoss'
  <2>1. CASE default' = NoKey /\ UNCHANGED <<fresh, own>>
    <3>1. KeysInv'
      BY <1>0, <1>2, <2>1 DEF KeysInv, NoKey, TypeOK
    <3> QED
      BY <1>1, <1>2, <1>4, <2>1, <3>1 DEF RevokedInv, NoSilentLoss
  <2>2. CASE AddDefault(c)
    BY <1>0, <1>1, <1>2, <1>4, <2>2, AddDefaultType
    DEF KeysInv, RevokedInv, NoSilentLoss
  <2>3. CASE UNCHANGED <<default, fresh, own>>
    BY <1>0, <1>2, <1>4, <2>3 DEF KeysInv, RevokedInv, NoSilentLoss
  <2> QED
    BY <1>2, <2>1, <2>2, <2>3
<1> QED
  BY <1>3, <1>5, <1>6 DEF IInv

-----------------------------------------------------------------------------
(* Of any number of callers, with requests refused, cut off and served     *)
(* after their calls in any order.                                         *)
THEOREM Invariance == Spec => []IInv
<1>1. IInv /\ [Next]_vars => IInv'
  <2> SUFFICES ASSUME IInv, [Next]_vars PROVE IInv'
    OBVIOUS
  <2>1. CASE UNCHANGED vars
    <3>1. TypeOK'
      BY <2>1 DEF IInv, TypeOK, vars
    <3> QED
      BY <2>1, <3>1 DEF IInv, KeysInv, RevokedInv, LateInv, NoSilentLoss,
         ToldOfFailure, vars
  <2> QED
    BY <2>1, CallStep, DeleteStep, CreateStep, RecoverStep, ServeLateStep
    DEF Next, Step, Terminated
<1> QED
  BY <1>1, InitIInv, PTL DEF Spec

(* The variables always have their types.                                  *)
THEOREM TypeCorrect == Spec => []TypeOK
BY Invariance, PTL DEF IInv

(* Once Reregister has deleted the old key and said so, that key is never  *)
(* the default again, whoever else reregisters.                            *)
THEOREM OldKeyStaysRevoked == Spec => []OldKeyIsRevoked
<1>1. IInv => OldKeyIsRevoked
  BY DEF IInv, RevokedInv, OldKeyIsRevoked
<1> QED
  BY <1>1, Invariance, PTL

(* The client has a default key that somebody holds, or somebody has been  *)
(* told of a failure or is about to make one.                              *)
THEOREM NothingLostInSilence == Spec => []NoSilentLoss
BY Invariance, PTL DEF IInv

(* ... and whoever was told of a failure stays told: no later step takes   *)
(* the warning back.                                                       *)
THEOREM WarningsStay ==
    Spec => [][\A c \in Callers : ToldOfFailure(c) => ToldOfFailure(c)']_vars
<1>1. TypeOK /\ [Next]_vars =>
        [\A c \in Callers : ToldOfFailure(c) => ToldOfFailure(c)']_vars
  BY ToldStays
<1> QED
  BY <1>1, TypeCorrect, PTL DEF Spec

-----------------------------------------------------------------------------
(* DataBagCrypto: the values of an item.                                   *)

Entries == Plain \cup Wrapper

(* What parseWrapper accepts is a wrapper of one of the three versions.    *)
LEMMA Parsed ==
    ASSUME NEW e \in Entries, parseWrapper(e)
    PROVE  e \in Wrapper
BY DEF Entries, parseWrapper, Plain

(* Every outcome of a decryption is what unboxValue makes of a plaintext,  *)
(* or an error on the way there.                                           *)
LEMMA VerifyOutcomes ==
    ASSUME NEW secret, NEW w \in Wrapper
    PROVE  /\ verifyHMAC(secret, w) = {} =>
                secret = w.secret /\ w.encrypted_data = "intact"
           /\ verifyHMAC(secret, w) = NotEncrypted => w.check = "garbled"
           /\ verifyHMAC(secret, w) = Auth =>
                \/ secret # w.secret \/ w.encrypted_data # "intact"
                \/ w.check \in {"changed", "resized", "missing"}
           /\ verifyHMAC(secret, w) \in {{}, NotEncrypted, Auth}
<1>1. NotEncrypted # {} /\ Auth # {} /\ Auth # NotEncrypted
  <2>1. <<"err", "notEncrypted">> # <<"err", "auth">>
    OBVIOUS
  <2> QED
    BY <2>1 DEF NotEncrypted, Auth, Err
<1>2. w.check \in FieldStates
  BY DEF Wrapper
<1> QED
  BY <1>1, <1>2 DEF verifyHMAC, FieldStates, Same

Readable(w) == "missing" \notin {w.encrypted_data, w.iv}
               /\ (w.version \in {2, 3} => w.check # "missing")

Broken(w) == {w.encrypted_data, w.iv, w.check}
                 \cap {"garbled", "missing", "resized"} # {}

LEMMA GCMOutcomes ==
    ASSUME NEW secret, NEW w \in Wrapper, w.version = 3, Readable(w),
           NEW o \in decryptGCM(secret, w)
    PROVE  \/ o = <<"ok", "box">> /\ secret = w.secret
           \/ o = <<"err", "notEncrypted">> /\ Broken(w)
           \/ o = <<"err", "auth">> /\ (secret # w.secret \/ Tampered(w))
<1>1. {w.encrypted_data, w.iv, w.check} \subseteq FieldStates
  BY DEF Wrapper
<1>2. CASE "garbled" \in {w.encrypted_data, w.iv, w.check}
  BY <1>2 DEF decryptGCM, NotEncrypted, Err, Broken
<1>3. CASE /\ "garbled" \notin {w.encrypted_data, w.iv, w.check}
           /\ Same(w.encrypted_data) /\ Same(w.iv) /\ Same(w.check)
           /\ secret = w.secret
  BY <1>3 DEF decryptGCM
<1>4. CASE /\ "garbled" \notin {w.encrypted_data, w.iv, w.check}
           /\ ~ (/\ Same(w.encrypted_data) /\ Same(w.iv) /\ Same(w.check)
                 /\ secret = w.secret)
  <2>1. o \in Auth \cup (IF w.iv = "resized" THEN NotEncrypted ELSE {})
    BY <1>4 DEF decryptGCM
  <2>2. secret # w.secret \/ Tampered(w)
    BY <1>1, <1>4 DEF FieldStates, Same, Readable, Tampered
  <2> QED
    BY <2>1, <2>2 DEF Auth, NotEncrypted, Err, Broken
<1> QED
  BY <1>2, <1>3, <1>4

LEMMA CBCOutcomes ==
    ASSUME NEW secret, NEW w \in Wrapper, w.version \in 1..2, Readable(w),
           NEW o \in decryptCBC(secret, w)
    PROVE  \/ o = <<"ok", "box">> /\ secret = w.secret
           \/ o = <<"err", "notEncrypted">> /\ Broken(w)
           \/ /\ o \in {<<"ok", "noise">>, <<"ok", "otherKey">>}
              /\ secret # w.secret \/ Tampered(w)
           \/ /\ o = <<"ok", "altered">> /\ secret = w.secret
              /\ ~Same(w.encrypted_data)
<1>1. {w.encrypted_data, w.iv, w.check} \subseteq FieldStates
  BY DEF Wrapper
<1>2. CASE w.encrypted_data = "garbled" \/ w.iv \in {"garbled", "resized"}
  BY <1>2 DEF decryptCBC, NotEncrypted, Err, Broken
<1>3. CASE ~(w.encrypted_data = "garbled" \/ w.iv \in {"garbled", "resized"})
  <2>1. CASE secret # w.secret
    BY <1>3, <2>1 DEF decryptCBC
  <2>2. CASE secret = w.secret /\ ~Same(w.encrypted_data)
    <3>1. Tampered(w)
      BY <1>1, <1>3, <2>2 DEF FieldStates, Same, Readable, Tampered
    <3> QED
      BY <1>3, <2>2, <3>1 DEF decryptCBC
  <2>3. CASE secret = w.secret /\ Same(w.encrypted_data) /\ ~Same(w.iv)
    <3>1. Tampered(w)
      BY <1>1, <1>3, <2>3 DEF FieldStates, Same, Readable, Tampered
    <3> QED
      BY <1>3, <2>3, <3>1 DEF decryptCBC
  <2>4. CASE secret = w.secret /\ Same(w.encrypted_data) /\ Same(w.iv)
    BY <1>3, <2>4 DEF decryptCBC
  <2> QED
    BY <2>1, <2>2, <2>3, <2>4
<1> QED
  BY <1>2, <1>3

(* unboxValue, outcome by outcome.                                         *)
LEMMA UnboxOutcomes ==
    ASSUME NEW w
    PROVE  /\ unboxValue("box", w) = {<<"ok", Float64(w.value)>>}
           /\ unboxValue("altered", w) = {<<"ok", Wrong>>}
           /\ unboxValue("otherKey", w) = {<<"err", "auth">>}
           /\ unboxValue("noise", w) = {<<"err", "auth">>}
BY DEF unboxValue, Auth, Err

(* What an outcome says: a value comes out only for the right secret, and  *)
(* it is what was put in, or the wrapper is of version 1 and its data were *)
(* changed; and each of the two errors has its reason.                     *)
Justified(secret, e, o) ==
    \/ /\ \E v : /\ o = <<"ok", v>>
                 /\ \/ v = Float64(e.value)
                    \/ v = Wrong /\ e.version = 1 /\ ~Same(e.encrypted_data)
       /\ e.kind = "wrapper" /\ e.secret = secret
    \/ /\ o = <<"err", "auth">>
       /\ e.kind = "wrapper" /\ (e.secret # secret \/ Tampered(e))
    \/ /\ o = <<"err", "notEncrypted">>
       /\ e.kind = "plain" \/ Broken(e)

Unboxed(o, w) == IF o[1] = "ok" THEN unboxValue(o[2], w) ELSE {o}

LEMMA UnboxGCM ==
    ASSUME NEW secret, NEW w \in Wrapper, w.version = 3, Readable(w),
           NEW o \in decryptGCM(secret, w), NEW r \in Unboxed(o, w)
    PROVE  Justified(secret, w, r)
<1>0. w.kind = "wrapper"
  BY DEF Wrapper
<1>1. CASE o = <<"ok", "box">> /\ secret = w.secret
  <2>1. r = <<"ok", Float64(w.value)>>
    BY <1>1, UnboxOutcomes DEF Unboxed
  <2> QED
    BY <1>0, <1>1, <2>1 DEF Justified
<1>2. CASE o = <<"err", "notEncrypted">> /\ Broken(w)
  <2>1. r = o
    BY <1>2 DEF Unboxed
  <2> QED
    BY <1>2, <2>1 DEF Justified
<1>3. CASE o = <<"err", "auth">> /\ (secret # w.secret \/ Tampered(w))
  <2>1. r = o
    BY <1>3 DEF Unboxed
  <2> QED
    BY <1>0, <1>3, <2>1 DEF Justified
<1> QED
  BY <1>1, <1>2, <1>3, GCMOutcomes

LEMMA UnboxCBC ==
    ASSUME NEW secret, NEW w \in Wrapper, w.version \in 1..2, Readable(w),
           w.version = 2 => w.encrypted_data = "intact",
           NEW o \in decryptCBC(secret, w), NEW r \in Unboxed(o, w)
    PROVE  Justified(secret, w, r)
<1>0. w.kind = "wrapper"
  BY DEF Wrapper
<1>1. CASE o = <<"ok", "box">> /\ secret = w.secret
  <2>1. r = <<"ok", Float64(w.value)>>
    BY <1>1, UnboxOutcomes DEF Unboxed
  <2> QED
    BY <1>0, <1>1, <2>1 DEF Justified
<1>2. CASE o = <<"err", "notEncrypted">> /\ Broken(w)
  <2>1. r = o
    BY <1>2 DEF Unboxed
  <2> QED
    BY <1>2, <2>1 DEF Justified
<1>3. CASE /\ o \in {<<"ok", "noise">>, <<"ok", "otherKey">>}
           /\ secret # w.secret \/ Tampered(w)
  <2>1. r = <<"err", "auth">>
    BY <1>3, UnboxOutcomes DEF Unboxed
  <2> QED
    BY <1>0, <1>3, <2>1 DEF Justified
<1>4. CASE /\ o = <<"ok", "altered">> /\ secret = w.secret
           /\ ~Same(w.encrypted_data)
  <2>1. r = <<"ok", Wrong>>
    BY <1>4, UnboxOutcomes DEF Unboxed
  <2>2. w.version = 1
    BY <1>4 DEF Same
  <2> QED
    BY <1>0, <1>4, <2>1, <2>2 DEF Justified
<1> QED
  BY <1>1, <1>2, <1>3, <1>4, CBCOutcomes

(* Every outcome of decrypting a value has its reason, whatever was done   *)
(* to the value and whatever secret is tried.                              *)
LEMMA OutcomesJustified ==
    ASSUME NEW secret, NEW e \in Entries, NEW r \in Outcomes(secret, e)
    PROVE  Justified(secret, e, r)
<1>1. CASE ~parseWrapper(e)
  <2>1. r = <<"err", "notEncrypted">>
    BY <1>1 DEF Outcomes, NotEncrypted, Err
  <2>2. e.kind = "plain" \/ Broken(e)
    <3>1. CASE e \in Plain
      BY <3>1 DEF Plain
    <3>2. CASE e \in Wrapper
      <4>1. "missing" \in {e.encrypted_data, e.iv, e.check}
        BY <1>1, <3>2 DEF parseWrapper, Wrapper
      <4> QED
        BY <4>1 DEF Broken
    <3> QED
      BY <3>1, <3>2 DEF Entries
  <2> QED
    BY <2>1, <2>2 DEF Justified
<1>2. CASE parseWrapper(e)
  <2>0. e \in Wrapper /\ Readable(e) /\ e.version \in 1..3
        /\ e.kind = "wrapper"
    BY <1>2, Parsed DEF parseWrapper, Readable
  <2>1. r \in decrypt(secret, e)
    BY <1>2 DEF Outcomes
  <2>2. CASE e.version = 3
    <3>1. PICK o \in decryptGCM(secret, e) : r \in Unboxed(o, e)
      BY <2>1, <2>2 DEF decrypt, Unboxed
    <3> QED
      BY <2>0, <2>2, <3>1, UnboxGCM
  <2>3. CASE e.version = 1
    <3>1. PICK o \in decryptCBC(secret, e) : r \in Unboxed(o, e)
      BY <2>1, <2>3 DEF decrypt, Unboxed
    <3> QED
      BY <2>0, <2>3, <3>1, UnboxCBC
  <2>4. CASE e.version = 2 /\ verifyHMAC(secret, e) = {}
    <3>1. PICK o \in decryptCBC(secret, e) : r \in Unboxed(o, e)
      BY <2>1, <2>4 DEF decrypt, Unboxed
    <3> QED
      BY <2>0, <2>4, <3>1, UnboxCBC, VerifyOutcomes
  <2>5. CASE e.version = 2 /\ verifyHMAC(secret, e) # {}
    <3>1. PICK o \in verifyHMAC(secret, e) : r \in Unboxed(o, e)
      BY <2>1, <2>5 DEF decrypt, Unboxed
    <3>2. CASE verifyHMAC(secret, e) = NotEncrypted
      <4>1. r = <<"err", "notEncrypted">>
        BY <3>1, <3>2 DEF Unboxed, NotEncrypted, Err
      <4>2. Broken(e)
        BY <2>0, <3>2, VerifyOutcomes DEF Broken
      <4> QED
        BY <4>1, <4>2 DEF Justified
    <3>3. CASE verifyHMAC(secret, e) = Auth
      <4>1. r = <<"err", "auth">>
        BY <3>1, <3>3 DEF Unboxed, Auth, Err
      <4>2. e.secret # secret \/ Tampered(e)
        BY <2>0, <2>5, <3>3, VerifyOutcomes DEF Readable, Tampered
      <4> QED
        BY <2>0, <4>1, <4>2 DEF Justified
    <3> QED
      BY <2>0, <2>5, <3>2, <3>3, VerifyOutcomes
  <2> QED
    BY <2>0, <2>2, <2>3, <2>4, <2>5
<1> QED
  BY <1>1, <1>2

LEMMA ValueJustified ==
    ASSUME NEW secret, NEW e \in Entries, NEW v,
           <<"ok", v>> \in Outcomes(secret, e)
    PROVE  /\ e.kind = "wrapper" /\ e.secret = secret
           /\ \/ v = Float64(e.value)
              \/ v = Wrong /\ e.version = 1 /\ ~Same(e.encrypted_data)
<1> DEFINE o == <<"ok", v>>
<1>1. o[1] = "ok" /\ o[2] = v
  OBVIOUS
<1>2. Justified(secret, e, o)
  BY OutcomesJustified
<1> HIDE DEF o
<1>3. PICK u : /\ o = <<"ok", u>>
               /\ \/ u = Float64(e.value)
                  \/ u = Wrong /\ e.version = 1 /\ ~Same(e.encrypted_data)
  BY <1>1, <1>2 DEF Justified
<1>4. u = v
  BY <1>1, <1>3
<1> QED
  BY <1>1, <1>2, <1>3, <1>4 DEF Justified

(* A set of natural numbers that is not empty has a least one.             *)
LEMMA LeastNat ==
    ASSUME NEW T \in SUBSET Nat, T # {}
    PROVE  \E x \in T : \A y \in T : x <= y
<1>1. PICK x \in T : \A y \in T : ~ (<<y, x>> \in OpToRel(<, Nat))
  BY WFMin, NatLessThanWellFounded
<1>2. \A y \in T : ~ (y < x)
  BY <1>1 DEF OpToRel
<1> QED
  BY <1>2

(* A number that is rounded is a float64, and stays what it is when it is  *)
(* rounded again.                                                          *)
LEMMA NearestExists ==
    ASSUME NEW n \in Numbers
    PROVE  Nearest(n) # {}
<1>1. Floats \subseteq Nat /\ MaxNumber \in Floats /\ n \in Nat
  BY BoundsAssumption DEF Floats, FloatsOf, Numbers
<1> DEFINE T == {Distance(n, f) : f \in Floats}
<1>2. T \subseteq Nat /\ T # {}
  BY <1>1 DEF Distance
<1>3. PICK d \in T : \A e \in T : d <= e
  BY <1>2, LeastNat
<1>4. PICK f \in Floats : d = Distance(n, f)
  BY <1>3
<1>5. \A g \in Floats : Distance(n, f) <= Distance(n, g)
  BY <1>3, <1>4
<1> QED
  BY <1>4, <1>5 DEF Nearest

LEMMA RoundedIsNearest ==
    ASSUME NEW n \in Numbers
    PROVE  Rounded[n] \in Nearest(n)
<1> DEFINE even == Nearest(n) \cap FloatsOf(Mantissa - 1)
           Fits(f) == even # {} => f \in even
<1>1. \E f \in Nearest(n) : Fits(f)
  <2>1. CASE even = {}
    BY <2>1, NearestExists
  <2>2. CASE even # {}
    BY <2>2
  <2> QED
    BY <2>1, <2>2
<1>2. Rounded[n] = CHOOSE f \in Nearest(n) : Fits(f)
  BY DEF Rounded
<1> HIDE DEF Fits
<1> QED
  BY <1>1, <1>2

LEMMA RoundedOnce ==
    ASSUME NEW v \in Held
    PROVE  /\ Float64(v) \in Held /\ Float64(Float64(v)) = Float64(v)
           /\ Float64(v) = Wrong <=> v = Wrong
<1>1. CASE v = Wrong
  BY <1>1 DEF Float64
<1>2. CASE v # Wrong
  <2>1. v \in Numbers
    BY <1>2 DEF Held
  <2> DEFINE f == Rounded[v]
  <2>2. f \in Floats /\ f \in Numbers /\ f \in Nat
    BY <2>1, RoundedIsNearest DEF Nearest, Floats, FloatsOf, Numbers
  <2>3. f # Wrong /\ Float64(v) = f
    BY <1>2, <2>2, InputsAssumption DEF Float64
  <2> HIDE DEF f
  <2>4. Rounded[f] = f
    <3>1. Rounded[f] \in Floats /\ Rounded[f] \in Nat
          /\ Distance(f, Rounded[f]) <= Distance(f, f)
      BY <2>2, RoundedIsNearest DEF Nearest, Floats, FloatsOf, Numbers
    <3> QED
      BY <2>2, <3>1 DEF Distance
  <2> QED
    BY <1>2, <2>2, <2>3, <2>4 DEF Float64, Held
<1> QED
  BY <1>1, <1>2

-----------------------------------------------------------------------------
(* The steps of the clients, of late updates and of damage.                *)

LEMMA WrapType ==
    ASSUME NEW version \in 1..3, NEW s \in Secrets, NEW v \in Held
    PROVE  /\ Wrap(version, s, v) \in Wrapper
           /\ Wrap(version, s, v).kind = "wrapper"
           /\ Wrap(version, s, v).version = version
           /\ Wrap(version, s, v).value = v
           /\ Wrap(version, s, v).encrypted_data = "intact"
BY DEF Wrap, Wrapper, FieldStates

LEMMA RoundedFromCaller ==
    ASSUME NEW k \in Keys, NEW v \in Held, FromCaller(k, v)
    PROVE  FromCaller(k, Float64(v))
<1>1. CASE v \in Inputs[k]
  BY <1>1 DEF FromCaller
<1>2. ASSUME NEW n \in Inputs[k], v = Float64(n) PROVE FromCaller(k, Float64(v))
  <2>1. n \in Held
    BY InputsAssumption DEF Held
  <2> QED
    BY <1>2, <2>1, RoundedOnce DEF FromCaller
<1>3. CASE v = Wrong /\ k \in forged
  BY <1>3 DEF FromCaller, Float64
<1> QED
  BY <1>1, <1>2, <1>3 DEF FromCaller

LEMMA InitItemInv == ItemInit => ItemInv
<1> SUFFICES ASSUME ItemInit PROVE ItemInv
  OBVIOUS
<1>1. PICK values \in [Keys -> Numbers] :
        /\ \A k \in Keys : values[k] \in Inputs[k]
        /\ \/ stored = [k \in Keys |-> InTheClear(values[k])]
           \/ \E version \in 1..2, s \in Secrets :
                stored = [k \in Keys |-> Wrap(version, s, values[k])]
  BY DEF ItemInit
<1>2. ASSUME NEW k \in Keys
      PROVE  /\ stored[k] \in Plain \cup Wrapper
             /\ stored[k].value = values[k]
             /\ stored[k].kind = "wrapper" => stored[k].encrypted_data = "intact"
  <2>1. values[k] \in Held
    BY <1>1 DEF Held
  <2>2. CASE stored = [j \in Keys |-> InTheClear(values[j])]
    BY <2>1, <2>2 DEF InTheClear, Plain
  <2>3. ASSUME NEW version \in 1..2, NEW s \in Secrets,
               stored = [j \in Keys |-> Wrap(version, s, values[j])]
        PROVE  /\ stored[k] \in Wrapper /\ stored[k].value = values[k]
               /\ stored[k].encrypted_data = "intact"
    <3>1. version \in 1..3
      OBVIOUS
    <3> QED
      BY <2>1, <2>3, <3>1, WrapType
  <2> QED
    BY <1>1, <2>2, <2>3
<1>3. stored \in Items
  <2>1. stored = [k \in Keys |-> stored[k]]
    BY <1>1
  <2> QED
    BY <1>2, <2>1 DEF Items
<1>4. ItemTypeOK
  BY <1>3, BoundsAssumption DEF ItemInit, ItemTypeOK, Held
<1>5. NeverWrong /\ ErrorsTell
  BY DEF ItemInit, NeverWrong, ErrorsTell, Loaded
<1>6. NoDrift /\ SourceInv
  BY <1>1, <1>2 DEF ItemInit, NoDrift, SourceInv, FromCaller, Loaded, Same
<1> QED
  BY <1>4, <1>5, <1>6 DEF ItemInv

(* What NeverWrong says of one value.                                      *)
Faithful(c, k) ==
    /\ seen[c][k].kind = "wrapper" /\ seen[c][k].secret = ReadSecret[c]
    /\ \/ held[c][k] = Float64(seen[c][k].value)
       \/ seen[c][k].version = 1 /\ ~Same(seen[c][k].encrypted_data)

LEMMA LoadStep == ASSUME ItemInv, NEW c \in Users, Load(c) PROVE ItemInv'
<1>0. ItemTypeOK /\ NeverWrong /\ ErrorsTell /\ NoDrift /\ SourceInv
  BY DEF ItemInv
<1>1. /\ UNCHANGED <<stored, lateItems, damage, forged>>
      /\ seen'[c] = stored
      /\ \A d \in Users \ {c} : seen'[d] = seen[d]
      /\ \A k \in Keys : stored[k] \in Entries
  BY <1>0 DEF Load, ItemTypeOK, Items, Entries
<1>2. seen' \in [Users -> Items] /\ NoDrift'
  BY <1>0, <1>1 DEF Load, ItemTypeOK, NoDrift, FromCaller
<1>3. CASE \E values \in [Keys -> Held] :
            /\ \A k \in Keys :
                <<"ok", values[k]>> \in Outcomes(ReadSecret[c], stored[k])
            /\ held' = [held EXCEPT ![c] = values]
            /\ phase' = [phase EXCEPT ![c] = "loaded"]
  <2>1. PICK values \in [Keys -> Held] :
            /\ \A k \in Keys :
                <<"ok", values[k]>> \in Outcomes(ReadSecret[c], stored[k])
            /\ held' = [held EXCEPT ![c] = values]
            /\ phase' = [phase EXCEPT ![c] = "loaded"]
    BY <1>3
  <2>2. /\ held'[c] = values /\ phase'[c] = "loaded"
        /\ \A d \in Users \ {c} : held'[d] = held[d] /\ phase'[d] = phase[d]
    BY <1>0, <2>1 DEF ItemTypeOK
  <2>3. ItemTypeOK'
    BY <1>0, <1>1, <1>2, <2>1 DEF ItemTypeOK
  <2>4. ASSUME NEW k \in Keys
        PROVE  /\ stored[k].kind = "wrapper"
               /\ stored[k].secret = ReadSecret[c]
               /\ \/ values[k] = Float64(stored[k].value)
                  \/ /\ values[k] = Wrong /\ stored[k].version = 1
                     /\ ~Same(stored[k].encrypted_data)
    <3>1. /\ stored[k] \in Entries
          /\ <<"ok", values[k]>> \in Outcomes(ReadSecret[c], stored[k])
      BY <1>1, <2>1
    <3> QED
      BY <3>1, ValueJustified
  <2>5. NeverWrong'
    <3>1. ASSUME NEW d \in Users, NEW k \in Keys, Loaded(d)'
          PROVE  Faithful(d, k)'
      <4>1. CASE d = c
        BY <1>1, <2>2, <2>4, <4>1 DEF Faithful
      <4>2. CASE d # c
        <5>1. Loaded(d)
          BY <2>2, <3>1, <4>2 DEF Loaded
        <5>2. Faithful(d, k)
          BY <1>0, <5>1 DEF NeverWrong, Faithful
        <5> QED
          BY <1>1, <2>2, <4>2, <5>2 DEF Faithful
      <4> QED
        BY <4>1, <4>2
    <3> QED
      BY <3>1 DEF NeverWrong, Faithful
  <2>6. ErrorsTell'
    BY <1>0, <1>1, <2>2 DEF ErrorsTell
  <2>7. ASSUME NEW k \in Keys PROVE FromCaller(k, values[k])
    <3>1. CASE values[k] = Float64(stored[k].value)
      <4>1. stored[k].value \in Held
        BY <1>1 DEF Entries, Plain, Wrapper
      <4>2. FromCaller(k, stored[k].value)
        BY <1>0 DEF NoDrift
      <4> QED
        BY <3>1, <4>1, <4>2, RoundedFromCaller
    <3>2. CASE /\ values[k] = Wrong /\ stored[k].version = 1
               /\ ~Same(stored[k].encrypted_data)
      BY <1>0, <2>4, <3>2 DEF SourceInv, FromCaller
    <3> QED
      BY <2>4, <3>1, <3>2
  <2>8. SourceInv'
    <3>1. ASSUME NEW d \in Users, NEW k \in Keys, Loaded(d)'
          PROVE  FromCaller(k, held[d][k])'
      <4>1. CASE d = c
        BY <1>1, <2>2, <2>7, <4>1 DEF FromCaller
      <4>2. CASE d # c
        <5>1. Loaded(d)
          BY <2>2, <3>1, <4>2 DEF Loaded
        <5> QED
          BY <1>0, <1>1, <2>2, <4>2, <5>1 DEF SourceInv, FromCaller
      <4> QED
        BY <4>1, <4>2
    <3> QED
      BY <1>0, <1>1, <3>1 DEF SourceInv, FromCaller
  <2> QED
    BY <1>2, <2>3, <2>5, <2>6, <2>8 DEF ItemInv
<1>4. CASE \E k \in Keys, e \in {"notEncrypted", "auth"} :
            /\ <<"err", e>> \in Outcomes(ReadSecret[c], stored[k])
            /\ held' = [held EXCEPT ![c] = [j \in Keys |-> Wrong]]
            /\ phase' = [phase EXCEPT ![c] = e]
  <2>1. PICK k \in Keys, e \in {"notEncrypted", "auth"} :
            /\ <<"err", e>> \in Outcomes(ReadSecret[c], stored[k])
            /\ held' = [held EXCEPT ![c] = [j \in Keys |-> Wrong]]
            /\ phase' = [phase EXCEPT ![c] = e]
    BY <1>4
  <2>2. /\ phase'[c] = e
        /\ \A d \in Users \ {c} : held'[d] = held[d] /\ phase'[d] = phase[d]
    BY <1>0, <2>1 DEF ItemTypeOK
  <2>3. ItemTypeOK'
    BY <1>0, <1>1, <1>2, <2>1 DEF ItemTypeOK, Held
  <2>4. /\ e = "auth" =>
            /\ stored[k].kind = "wrapper"
            /\ stored[k].secret # ReadSecret[c] \/ Tampered(stored[k])
        /\ e = "notEncrypted" => stored[k].kind = "plain" \/ Broken(stored[k])
    BY <1>1, <2>1, OutcomesJustified DEF Justified
  <2>5. NeverWrong'
    BY <1>0, <1>1, <2>2 DEF NeverWrong, Loaded
  <2>6. ErrorsTell'
    BY <1>0, <1>1, <2>2, <2>4 DEF ErrorsTell, Broken
  <2>7. SourceInv'
    BY <1>0, <1>1, <2>2 DEF SourceInv, FromCaller, Loaded
  <2> QED
    BY <1>2, <2>3, <2>5, <2>6, <2>7 DEF ItemInv
<1> QED
  BY <1>3, <1>4 DEF Load

(* The other steps leave what has been loaded alone.                       *)
LEMMA KeepsLoaded ==
    ASSUME ItemInv, UNCHANGED <<seen, held>>, forged \subseteq forged',
           \A c \in Users : \/ phase'[c] = phase[c]
                            \/ /\ phase[c] = "loaded"
                               /\ phase'[c] \in {"saved", "encryptErr",
                                                 "updateErr"}
    PROVE  /\ NeverWrong' /\ ErrorsTell'
           /\ \A c \in Users, k \in Keys :
                Loaded(c)' => FromCaller(k, held[c][k])'
<1>1. NeverWrong'
  BY DEF ItemInv, NeverWrong, Loaded
<1>2. ErrorsTell'
  BY DEF ItemInv, ErrorsTell
<1>3. ASSUME NEW c \in Users, NEW k \in Keys, Loaded(c)'
      PROVE  FromCaller(k, held[c][k])'
  <2>1. Loaded(c)
    BY <1>3 DEF Loaded
  <2> QED
    BY <2>1 DEF ItemInv, SourceInv, FromCaller
<1> QED
  BY <1>1, <1>2, <1>3

(* Whatever is sent to be stored has only values of the callers.           *)
Sendable(item) ==
    /\ item \in Items
    /\ \A k \in Keys : FromCaller(k, item[k].value) /\ item[k].version = 3

LEMMA StoredItem ==
    ASSUME NEW item, Sendable(item), stored' = item, UNCHANGED forged
    PROVE  /\ stored' \in Items /\ NoDrift'
           /\ \A k \in Keys : stored'[k].version # 1
BY DEF Sendable, NoDrift, FromCaller

LEMMA UpdateStep ==
    ASSUME ItemInv, NEW c \in Users, phase[c] = "loaded",
           NEW item, Sendable(item), Update(c, item),
           UNCHANGED <<seen, held, damage, forged>>
    PROVE  ItemInv'
<1>0. ItemTypeOK /\ NoDrift /\ SourceInv
  BY DEF ItemInv
<1>1. PICK p \in {"saved", "updateErr"} : phase' = [phase EXCEPT ![c] = p]
  BY DEF Update
<1>2. NeverWrong' /\ ErrorsTell' /\ phase' \in [Users -> {"idle", "loaded",
          "saved", "notEncrypted", "auth", "encryptErr", "updateErr"}]
      /\ \A d \in Users, k \in Keys :
            Loaded(d)' => FromCaller(k, held[d][k])'
  BY <1>0, <1>1, KeepsLoaded DEF ItemTypeOK
<1>3. CASE stored' = item /\ UNCHANGED lateItems
  <2>1. stored' \in Items /\ NoDrift' /\ \A k \in Keys : stored'[k].version # 1
    BY <1>3, StoredItem
  <2>2. ItemTypeOK' /\ SourceInv'
    BY <1>0, <1>2, <1>3, <2>1 DEF ItemTypeOK, SourceInv, FromCaller
  <2> QED
    BY <1>2, <2>1, <2>2 DEF ItemInv
<1>4. CASE UNCHANGED stored /\ (UNCHANGED lateItems
                                \/ lateItems' = lateItems \cup {item})
  <2>1. ItemTypeOK'
    BY <1>0, <1>2, <1>4 DEF ItemTypeOK, Sendable
  <2>2. NoDrift'
    BY <1>0, <1>4 DEF NoDrift, FromCaller
  <2>3. \A i \in lateItems', k \in Keys :
            FromCaller(k, i[k].value)' /\ i[k].version = 3
    BY <1>0, <1>4 DEF SourceInv, Sendable, FromCaller
  <2>4. SourceInv'
    BY <1>0, <1>2, <1>4, <2>3 DEF SourceInv, FromCaller
  <2> QED
    BY <1>2, <2>1, <2>2, <2>4 DEF ItemInv
<1> QED
  BY <1>3, <1>4 DEF Update

LEMMA SaveStep ==
    ASSUME ItemInv, NEW c \in Users, NEW k \in Keys, NEW v \in Inputs[k],
           Save(c, k, v)
    PROVE  ItemInv'
<1> DEFINE Value(j) == IF j = k THEN v ELSE held[c][j]
           item == [j \in Keys |-> encryptValueV3(WriteSecret[c], Value(j))]
<1>0. ItemTypeOK /\ SourceInv /\ phase[c] = "loaded"
  BY DEF ItemInv, Save
<1>1. ASSUME NEW j \in Keys
      PROVE  /\ item[j] \in Wrapper /\ item[j].version = 3
             /\ FromCaller(j, item[j].value)
  <2>1. Value(j) \in Held
    BY <1>0, InputsAssumption DEF ItemTypeOK, Held
  <2>2. FromCaller(j, Value(j))
    BY <1>0 DEF SourceInv, Loaded, FromCaller
  <2>3. item[j] = Wrap(3, WriteSecret[c], Value(j))
    BY DEF encryptValueV3
  <2> HIDE DEF Value, item
  <2>4. item[j] \in Wrapper /\ item[j].version = 3 /\ item[j].value = Value(j)
    BY <2>1, <2>3, UsersAssumption, WrapType
  <2> QED
    BY <2>2, <2>4
<1>2. item = [j \in Keys |-> item[j]]
  OBVIOUS
<1>3. Update(c, item) /\ UNCHANGED <<seen, held, damage, forged>>
  BY DEF Save
<1> HIDE DEF item
<1>4. Sendable(item)
  BY <1>1, <1>2 DEF Sendable, Items
<1> QED
  BY <1>0, <1>3, <1>4, UpdateStep

LEMMA EncryptFailsStep ==
    ASSUME ItemInv, NEW c \in Users, EncryptFails(c) PROVE ItemInv'
<1>1. ItemTypeOK' /\ NoDrift'
  BY DEF ItemInv, EncryptFails, ItemTypeOK, NoDrift, FromCaller
<1>2. NeverWrong' /\ ErrorsTell' /\ \A d \in Users, k \in Keys :
            Loaded(d)' => FromCaller(k, held[d][k])'
  BY KeepsLoaded DEF ItemInv, EncryptFails, ItemTypeOK
<1>3. SourceInv'
  BY <1>2 DEF ItemInv, EncryptFails, SourceInv, FromCaller
<1> QED
  BY <1>1, <1>2, <1>3 DEF ItemInv

LEMMA ServeLateItemStep ==
    ASSUME ItemInv, NEW item \in lateItems, ServeLateItem(item) PROVE ItemInv'
<1>0. ItemTypeOK /\ SourceInv
  BY DEF ItemInv
<1>1. Sendable(item) /\ stored' = item /\ UNCHANGED <<seen, held, forged>>
  BY <1>0 DEF ItemTypeOK, SourceInv, Sendable, ServeLateItem
<1>2. stored' \in Items /\ NoDrift' /\ \A k \in Keys : stored'[k].version # 1
  BY <1>1, StoredItem
<1>3. NeverWrong' /\ ErrorsTell' /\ \A d \in Users, k \in Keys :
            Loaded(d)' => FromCaller(k, held[d][k])'
  BY KeepsLoaded DEF ServeLateItem
<1>4. ItemTypeOK' /\ SourceInv'
  BY <1>0, <1>2, <1>3 DEF ServeLateItem, ItemTypeOK, SourceInv, FromCaller
<1> QED
  BY <1>2, <1>3, <1>4 DEF ItemInv

LEMMA DamageStep ==
    ASSUME ItemInv, NEW k \in Keys, NEW state \in FieldStates, Damage(k, state)
    PROVE  ItemInv'
<1>0. ItemTypeOK /\ NoDrift /\ SourceInv
  BY DEF ItemInv
<1>1. stored[k] \in Wrapper
  BY <1>0 DEF Damage, ItemTypeOK, Items, Plain
<1>2. /\ \A j \in Keys \ {k} : stored'[j] = stored[j]
      /\ stored' = [j \in Keys |-> stored'[j]]
      /\ \/ stored'[k] = [stored[k] EXCEPT !.encrypted_data = state]
         \/ stored'[k] = [stored[k] EXCEPT !.iv = state]
         \/ stored'[k] = [stored[k] EXCEPT !.check = state]
  BY <1>0 DEF Damage, ItemTypeOK, Items
<1>3. /\ stored'[k] \in Wrapper /\ stored'[k].value = stored[k].value
      /\ stored'[k].version = stored[k].version
      /\ stored[k].kind = "wrapper"
  BY <1>1, <1>2 DEF Wrapper
<1>4. /\ forged \subseteq forged' /\ forged' \subseteq Keys
      /\ \/ stored'[k].encrypted_data = stored[k].encrypted_data
         \/ /\ stored'[k].encrypted_data = state
            /\ stored[k].version = 1 /\ ~Same(state) => k \in forged'
  <2>1. CASE /\ stored' = [stored EXCEPT ![k].encrypted_data = state]
             /\ forged' = IF stored[k].version = 1 /\ ~Same(state)
                          THEN forged \cup {k} ELSE forged
    <3>1. stored'[k].encrypted_data = state
      BY <1>0, <1>1, <2>1 DEF ItemTypeOK, Items, Wrapper
    <3> QED
      BY <1>0, <2>1, <3>1 DEF ItemTypeOK
  <2>2. CASE /\ \/ stored' = [stored EXCEPT ![k].iv = state]
                \/ stored' = [stored EXCEPT ![k].check = state]
             /\ UNCHANGED forged
    BY <1>0, <1>1, <2>2 DEF ItemTypeOK, Items, Wrapper
  <2> QED
    BY <2>1, <2>2 DEF Damage
<1>5. ItemTypeOK'
  <2>1. stored' \in Items
    BY <1>0, <1>2, <1>3 DEF ItemTypeOK, Items
  <2>2. damage' \in 0..MaxDamage
    BY <1>0, BoundsAssumption DEF Damage, ItemTypeOK
  <2> QED
    BY <1>0, <1>4, <2>1, <2>2 DEF Damage, ItemTypeOK
<1>6. NoDrift'
  BY <1>0, <1>2, <1>3, <1>4 DEF NoDrift, FromCaller
<1>7. NeverWrong' /\ ErrorsTell' /\ \A d \in Users, j \in Keys :
            Loaded(d)' => FromCaller(j, held[d][j])'
  BY <1>4, KeepsLoaded DEF Damage
<1>8. SourceInv'
  <2>1. UNCHANGED lateItems
    BY DEF Damage
  <2>2. \A item \in lateItems', j \in Keys :
            FromCaller(j, item[j].value)' /\ item[j].version = 3
    BY <1>0, <1>4, <2>1 DEF SourceInv, FromCaller
  <2>3. ASSUME NEW j \in Keys, stored'[j].kind = "wrapper",
               stored'[j].version = 1, ~Same(stored'[j].encrypted_data)
        PROVE  j \in forged'
    <3>1. CASE j # k
      BY <1>0, <1>2, <1>4, <2>3, <3>1 DEF SourceInv
    <3>2. CASE j = k
      BY <1>0, <1>3, <1>4, <2>3, <3>2 DEF SourceInv
    <3> QED
      BY <3>1, <3>2
  <2> QED
    BY <1>7, <2>2, <2>3 DEF SourceInv
<1> QED
  BY <1>5, <1>6, <1>7, <1>8 DEF ItemInv

-----------------------------------------------------------------------------
(* However loads, updates that succeed, fail or are served late, and       *)
(* damage interleave.                                                      *)
THEOREM ItemInvariance == ItemSpec => []ItemInv
<1>1. ItemInv /\ [ItemNext]_itemVars => ItemInv'
  <2> SUFFICES ASSUME ItemInv, [ItemNext]_itemVars PROVE ItemInv'
    OBVIOUS
  <2>1. CASE UNCHANGED itemVars
    <3>1. ItemTypeOK' /\ NoDrift' /\ SourceInv'
      BY <2>1 DEF ItemInv, ItemTypeOK, NoDrift, SourceInv, FromCaller, Loaded,
         itemVars
    <3> QED
      BY <2>1, <3>1, KeepsLoaded DEF ItemInv, itemVars
  <2> QED
    BY <2>1, LoadStep, SaveStep, EncryptFailsStep, ServeLateItemStep,
       DamageStep DEF ItemNext
<1> QED
  BY <1>1, InitItemInv, PTL DEF ItemSpec

(* The variables always have their types.                                  *)
THEOREM ItemTypeCorrect == ItemSpec => []ItemTypeOK
BY ItemInvariance, PTL DEF ItemInv

(* A value comes out of Decrypt only for a caller that has its secret, and *)
(* it is the value that was put there, except from changed data of version *)
(* 1, which authenticates nothing.                                         *)
THEOREM DecryptIsNeverWrong == ItemSpec => []NeverWrong
BY ItemInvariance, PTL DEF ItemInv

(* Decrypt's two errors can be told apart: a wrong secret alone never is   *)
(* ErrNotEncrypted, and ErrDataBagAuth always has a value that is of       *)
(* another secret or tampered with.                                        *)
THEOREM ErrorsAreTold == ItemSpec => []ErrorsTell
BY ItemInvariance, PTL DEF ItemInv

(* Every value that is stored was put under its key by a caller, rounded   *)
(* once at most, however many times it was loaded and saved again.         *)
THEOREM ValuesDoNotDrift == ItemSpec => []NoDrift
BY ItemInvariance, PTL DEF ItemInv

-----------------------------------------------------------------------------
(* SignedClient: the making of Clients.                                    *)

LEMMA TransportUsedType ==
    ASSUME NEW h \in Effective
    PROVE  TransportUsed(h) \in Transports
BY DEF TransportUsed, Transports

LEMMA InitSignedInv == SignedInit => SignedInv
<1> SUFFICES ASSUME SignedInit PROVE SignedInv
  OBVIOUS
<1>1. defaultOptions \in [httpClient : Effective, skipTLSVerify : BOOLEAN,
                         maxRetries : Nat]
  BY DEF defaultOptions, Effective
<1>2. MakingTypes
  BY <1>1, ClientAssumption DEF SignedInit, MakingTypes, Setting
<1>3. MadeInv
  BY DEF SignedInit, MadeInv, Setting
<1> QED
  BY <1>2, <1>3 DEF SignedInv

(* A Client that only moves on keeps what it was made of.                  *)
LEMMA MovesOn ==
    ASSUME SignedInv, NEW c \in Clients,
           UNCHANGED <<opts, timeout, transport, insecure>>,
           NEW s \in Setting \cup {"idle", "attempt", "wait"},
           stage' = [stage EXCEPT ![c] = s],
           stage[c] \in Setting <=> s \in Setting
    PROVE  SignedInv'
<1>1. stage' \in [Clients -> Setting \cup {"idle", "attempt", "wait"}]
      /\ \A d \in Clients : stage'[d] \in Setting <=> stage[d] \in Setting
  BY DEF SignedInv, MakingTypes
<1>2. MakingTypes'
  BY <1>1 DEF SignedInv, MakingTypes
<1>3. MadeInv'
  BY <1>1 DEF SignedInv, MadeInv
<1> QED
  BY <1>2, <1>3 DEF SignedInv

LEMMA OptionStep ==
    ASSUME SignedInv, NEW c \in Clients, NEW o, SetOption(c, o),
           o \in [httpClient : Effective, skipTLSVerify : BOOLEAN,
                  maxRetries : Nat]
    PROVE  SignedInv'
<1>1. /\ UNCHANGED <<stage, timeout, transport, insecure>>
      /\ opts' = [opts EXCEPT ![c] = o] /\ stage[c] \in Setting
  BY DEF SetOption, Setting
<1>2. MakingTypes'
  BY <1>1 DEF SignedInv, MakingTypes
<1>3. \A d \in Clients : stage[d] \notin Setting => opts'[d] = opts[d]
  BY <1>1 DEF SignedInv, MakingTypes
<1>4. MadeInv'
  BY <1>1, <1>3 DEF SignedInv, MadeInv
<1> QED
  BY <1>2, <1>4 DEF SignedInv

LEMMA NewClientStep ==
    ASSUME SignedInv, NEW c \in Clients, NewClient(c)
    PROVE  SignedInv'
<1> DEFINE h == opts[c].httpClient
           skip == opts[c].skipTLSVerify
           used == IF skip THEN c ELSE TransportUsed(h)
<1>0. MakingTypes /\ MadeInv
  BY DEF SignedInv
<1>1. /\ stage[c] \in Setting /\ UNCHANGED opts
      /\ stage' = [stage EXCEPT ![c] = "idle"]
      /\ timeout' = [timeout EXCEPT ![c] = HasTimeout[h]]
      /\ transport' = [transport EXCEPT ![c] = used]
      /\ insecure' = IF skip THEN insecure \cup {c} ELSE insecure
  BY DEF NewClient, Built, Goto, Setting
<1>2. /\ h \in Effective /\ skip \in BOOLEAN /\ HasTimeout[h] \in BOOLEAN
      /\ used \in Transports \cup Clients
  BY <1>0, ClientAssumption, TransportUsedType DEF MakingTypes
<1> HIDE DEF h, skip, used
<1>3. MakingTypes'
  BY <1>0, <1>1, <1>2 DEF MakingTypes
<1>4. /\ stage'[c] \notin Setting /\ timeout'[c] = HasTimeout[h]
      /\ transport'[c] = used
      /\ \A d \in Clients \ {c} : /\ stage'[d] = stage[d]
                                  /\ timeout'[d] = timeout[d]
                                  /\ transport'[d] = transport[d]
  BY <1>0, <1>1 DEF MakingTypes, Setting
<1>5. insecure' = Insecure \cup {d \in Clients : /\ stage'[d] \notin Setting
                                               /\ opts'[d].skipTLSVerify}
  BY <1>0, <1>1, <1>4 DEF MadeInv, skip
<1>6. MadeInv'
  BY <1>0, <1>1, <1>4, <1>5 DEF MadeInv, h, skip, used
<1> QED
  BY <1>3, <1>6 DEF SignedInv

LEMMA SetupStep ==
    ASSUME SignedInv, NEW c \in Clients, Setup(c)
    PROVE  SignedInv'
<1>0. opts[c] \in [httpClient : Effective, skipTLSVerify : BOOLEAN,
                  maxRetries : Nat]
  BY DEF SignedInv, MakingTypes
<1>1. CASE Parse(c)
  <2>1. PICK s \in {"invalid", "options"} : stage' = [stage EXCEPT ![c] = s]
    BY <1>1 DEF Parse, Goto
  <2> QED
    BY <1>1, <2>1, MovesOn DEF Parse, Setting
<1>2. ASSUME NEW g \in Supplied, WithHTTPClient(c, g) PROVE SignedInv'
  <2> DEFINE o == IF g = NilHttpClient THEN opts[c]
                  ELSE [opts[c] EXCEPT !.httpClient = g]
  <2>1. o \in [httpClient : Effective, skipTLSVerify : BOOLEAN,
               maxRetries : Nat]
    BY <1>0 DEF Supplied, Effective
  <2> QED
    BY <1>2, <2>1, OptionStep DEF WithHTTPClient
<1>3. ASSUME NEW skip \in BOOLEAN, WithSkipTLSVerify(c, skip) PROVE SignedInv'
  <2>1. [opts[c] EXCEPT !.skipTLSVerify = skip]
            \in [httpClient : Effective, skipTLSVerify : BOOLEAN,
                 maxRetries : Nat]
    BY <1>0
  <2> QED
    BY <1>3, <2>1, OptionStep DEF WithSkipTLSVerify
<1>4. ASSUME NEW n \in Retries, WithMaxRetries(c, n) PROVE SignedInv'
  <2> DEFINE o == IF n < 0 THEN opts[c] ELSE [opts[c] EXCEPT !.maxRetries = n]
  <2>1. o \in [httpClient : Effective, skipTLSVerify : BOOLEAN,
               maxRetries : Nat]
    <3>1. n \in Int
      BY LimitsAssumption
    <3> QED
      BY <1>0, <3>1
  <2> QED
    BY <1>4, <2>1, OptionStep DEF WithMaxRetries
<1> QED
  BY <1>1, <1>2, <1>3, <1>4, NewClientStep DEF Setup

LEMMA CallingStep ==
    ASSUME SignedInv, NEW c \in Clients,
           BeginCall(c) \/ Proceed(c) \/ NetError(c) \/ Cancel(c)
    PROVE  SignedInv'
<1>1. /\ stage[c] \in {"idle", "attempt", "wait"}
      /\ UNCHANGED <<opts, timeout, transport, insecure>>
      /\ \E s \in {"idle", "attempt", "wait"} :
            stage' = [stage EXCEPT ![c] = s]
  BY DEF BeginCall, Proceed, Send, BuildFails, Receive, TimeOut, NetError,
     Cancel, Goto,
     Ends, Again, Transient, Forget, clientVars
<1>2. PICK s \in {"idle", "attempt", "wait"} :
          stage' = [stage EXCEPT ![c] = s]
  BY <1>1
<1> QED
  BY <1>1, <1>2, MovesOn DEF Setting

LEMMA OtherSignedStep ==
    ASSUME SignedInv, UNCHANGED <<stage, opts, timeout, transport, insecure>>
    PROVE  SignedInv'
BY DEF SignedInv, MakingTypes, MadeInv

(* Whatever options come in whatever order, and however the making and the *)
(* use of Clients interleave.                                              *)
THEOREM SignedInvariance == SignedSpec => []SignedInv
<1>1. SignedInv /\ [SignedNext]_signedVars => SignedInv'
  <2> SUFFICES ASSUME SignedInv, [SignedNext]_signedVars PROVE SignedInv'
    OBVIOUS
  <2>1. ASSUME NEW c \in Clients, Answer(c) PROVE SignedInv'
    BY <2>1, OtherSignedStep DEF Answer, clientVars
  <2>2. CASE Tick \/ Quiet \/ UNCHANGED signedVars
    BY <2>2, OtherSignedStep DEF Tick, Quiet, signedVars, clientVars
  <2> QED
    BY <2>1, <2>2, SetupStep, CallingStep DEF SignedNext
<1> QED
  BY <1>1, InitSignedInv, PTL DEF SignedSpec

(* A Client skips the verification of certificates exactly if it was asked *)
(* to, or uses a Transport that always did: a Client that was asked to     *)
(* does so with a Transport of its own.                                    *)
THEOREM VerificationStays == SignedSpec => []SkipsOnlyIfAsked
<1>1. SignedInv => SkipsOnlyIfAsked
  <2> SUFFICES ASSUME SignedInv PROVE SkipsOnlyIfAsked
    OBVIOUS
  <2>1. insecure \ Clients = Insecure
    BY ClientAssumption DEF SignedInv, MadeInv
  <2>2. ASSUME NEW c \in Clients, stage[c] \notin Setting
        PROVE  transport[c] \in insecure <=>
                   \/ opts[c].skipTLSVerify
                   \/ TransportUsed(opts[c].httpClient) \in Insecure
    <3>1. CASE opts[c].skipTLSVerify
      BY <2>2, <3>1 DEF SignedInv, MadeInv
    <3>2. CASE ~opts[c].skipTLSVerify
      <4>1. TransportUsed(opts[c].httpClient) \notin Clients
        BY ClientAssumption, TransportUsedType DEF SignedInv, MakingTypes
      <4> QED
        BY <2>1, <2>2, <3>2, <4>1 DEF SignedInv, MadeInv
    <3> QED
      BY <3>1, <3>2
  <2> QED
    BY <2>1, <2>2 DEF SkipsOnlyIfAsked
<1> QED
  BY <1>1, SignedInvariance, PTL

(* A Client that is made has the Timeout of the http.Client it was given   *)
(* last, or of the default one: no other option takes it away.             *)
THEOREM TimeoutIsKept ==
    SignedSpec => [](\A c \in Clients : stage[c] \notin Setting =>
                         timeout[c] = HasTimeout[opts[c].httpClient])
<1>1. SignedInv => \A c \in Clients : stage[c] \notin Setting =>
                       timeout[c] = HasTimeout[opts[c].httpClient]
  BY DEF SignedInv, MadeInv
<1> QED
  BY <1>1, SignedInvariance, PTL

-----------------------------------------------------------------------------
(* SignedClient: paths. The characters Kept keeps are found one after the  *)
(* other.                                                                  *)

LEMMA Upwards ==
    ASSUME NEW m \in Nat, NEW n \in Nat, NEW T, m \in T,
           \A k \in m..n : k # n /\ k \in T => k + 1 \in T
    PROVE  m..n \subseteq T
<1> DEFINE Left == {k \in Nat : k \in m..n /\ k \notin T}
<1> SUFFICES ASSUME Left # {} PROVE FALSE
  OBVIOUS
<1>1. PICK k \in Left : \A j \in Left : k <= j
  <2>1. Left \in SUBSET Nat
    OBVIOUS
  <2> HIDE DEF Left
  <2> QED
    BY <2>1, LeastNat
<1>2. k \in m..n /\ k # m /\ k \notin T /\ k \in Nat
  OBVIOUS
<1>3. k - 1 \in m..n /\ k - 1 \in Nat /\ k - 1 # n /\ (k - 1) + 1 = k
      /\ ~(k <= k - 1)
  BY <1>2
<1>4. k - 1 \in T
  BY <1>1, <1>3
<1> QED
  BY <1>2, <1>3, <1>4

KeptTo(p, places, n, g) ==
    g = [k \in 0..n |-> IF k = 0 THEN <<>>
                        ELSE IF k \in places THEN Append(g[k - 1], p[k])
                        ELSE g[k - 1]]

LEMMA KeptExists ==
    ASSUME NEW p, NEW places, NEW n \in Nat
    PROVE  \E g : KeptTo(p, places, n, g)
<1> DEFINE T == {m \in Nat : \E g : KeptTo(p, places, m, g)}
<1>1. 0 \in T
  <2> DEFINE g == [k \in 0..0 |-> <<>>]
  <2>1. KeptTo(p, places, 0, g)
    BY DEF KeptTo
  <2> QED
    BY <2>1
<1>2. ASSUME NEW m \in 0..n, m \in T PROVE m + 1 \in T
  <2>1. PICK g : KeptTo(p, places, m, g)
    BY <1>2
  <2> DEFINE more == IF m + 1 \in places THEN Append(g[m], p[m + 1]) ELSE g[m]
             h == [k \in 0..(m + 1) |-> IF k = m + 1 THEN more ELSE g[k]]
  <2>2. m \in Nat /\ m + 1 \in Nat /\ (m + 1) - 1 = m
    OBVIOUS
  <2>3. ASSUME NEW k \in 0..(m + 1)
        PROVE  h[k] = IF k = 0 THEN <<>>
                      ELSE IF k \in places THEN Append(h[k - 1], p[k])
                      ELSE h[k - 1]
    <3>1. CASE k = m + 1
      <4>1. h[k] = more /\ h[k - 1] = g[m] /\ k # 0
        BY <2>2, <3>1
      <4> HIDE DEF h
      <4> QED
        BY <3>1, <4>1
    <3>2. CASE k # m + 1
      <4>1. k \in 0..m /\ h[k] = g[k]
        BY <2>2, <3>2
      <4>2. k # 0 => k - 1 \in 0..m /\ h[k - 1] = g[k - 1]
        BY <2>2, <4>1
      <4> HIDE DEF h
      <4> QED
        BY <2>1, <4>1, <4>2 DEF KeptTo
    <3> QED
      BY <3>1, <3>2
  <2>4. KeptTo(p, places, m + 1, h)
    BY <2>3 DEF KeptTo
  <2> QED
    BY <2>2, <2>4
<1>3. 0..n \subseteq T
  <2> HIDE DEF T
  <2>1. 0 \in Nat
    OBVIOUS
  <2> QED
    BY <1>1, <1>2, <2>1, Upwards
<1> QED
  BY <1>3

Grows(p, places, g) ==
    /\ g[0] = <<>>
    /\ \A n \in 1..Len(p) :
        g[n] = IF n \in places THEN Append(g[n - 1], p[n]) ELSE g[n - 1]

LEMMA KeptGrows ==
    ASSUME NEW S, NEW p \in Seq(S), NEW places
    PROVE  \E g : Grows(p, places, g) /\ Kept(p, places) = g[Len(p)]
<1> DEFINE g == CHOOSE f : KeptTo(p, places, Len(p), f)
<1>1. KeptTo(p, places, Len(p), g)
  <2>1. Len(p) \in Nat
    OBVIOUS
  <2> QED
    BY <2>1, KeptExists
<1>2. Kept(p, places) = g[Len(p)]
  BY DEF Kept, KeptTo
<1> HIDE DEF g
<1>3. Grows(p, places, g)
  <2>1. 0 \in 0..Len(p)
        /\ \A n \in 1..Len(p) : n \in 0..Len(p) /\ n # 0
    OBVIOUS
  <2> QED
    BY <1>1, <2>1 DEF KeptTo, Grows
<1> QED
  BY <1>2, <1>3

(* What is kept of the first n characters.                                 *)
LEMMA GrowsFacts ==
    ASSUME NEW S, NEW p \in Seq(S), NEW A, NEW B, NEW g, NEW h,
           Grows(p, A, g), Grows(p, B, h)
    PROVE  /\ \A n \in 0..Len(p) : g[n] \in Seq(S)
           /\ \A m \in 0..Len(p) :
                (\A i \in 1..m : i \in A <=> i \in B) => g[m] = h[m]
           /\ \A m \in 0..Len(p) :
                (\A i \in (m + 1)..Len(p) : i \notin A) => g[Len(p)] = g[m]
           /\ (\A i \in 1..Len(p) : i \in A) => g[Len(p)] = p
<1> DEFINE L == Len(p)
<1>0. L \in Nat /\ 0 \in Nat /\ \A n \in 1..L : p[n] \in S
  OBVIOUS
<1>1. /\ g[0] = <<>> /\ h[0] = <<>>
      /\ \A n \in 0..L : n # L =>
           /\ n + 1 \in 1..L /\ n + 1 \in Nat
           /\ g[n + 1] = IF n + 1 \in A THEN Append(g[n], p[n + 1]) ELSE g[n]
           /\ h[n + 1] = IF n + 1 \in B THEN Append(h[n], p[n + 1]) ELSE h[n]
  <2>1. \A n \in 0..L : n # L => n + 1 \in 1..L /\ (n + 1) - 1 = n
                                 /\ n + 1 \in Nat
    BY <1>0
  <2> QED
    BY <2>1 DEF Grows
<1> HIDE DEF L
<1>2. \A n \in 0..L : g[n] \in Seq(S)
  <2> DEFINE T == {n \in Nat : g[n] \in Seq(S)}
  <2>1. 0 \in T
    <3>1. <<>> \in Seq(S)
      OBVIOUS
    <3> QED
      BY <1>0, <1>1, <3>1
  <2>2. ASSUME NEW k \in 0..L, k # L, k \in T PROVE k + 1 \in T
    <3> DEFINE s == g[k]
               x == p[k + 1]
    <3>1. s \in Seq(S) /\ x \in S /\ k + 1 \in Nat
          /\ (g[k + 1] = Append(s, x) \/ g[k + 1] = s)
      BY <1>0, <1>1, <2>2
    <3> HIDE DEF s, x
    <3>2. Append(s, x) \in Seq(S)
      BY <3>1
    <3>3. g[k + 1] \in Seq(S)
      BY <3>1, <3>2, Zenon
    <3> QED
      BY <3>1, <3>3
  <2> HIDE DEF T
  <2>3. 0..L \subseteq T
    BY <1>0, <2>1, <2>2, Upwards
  <2> QED
    BY <2>3 DEF T
<1>3. ASSUME NEW m \in 0..L, \A i \in 1..m : i \in A <=> i \in B
      PROVE  g[m] = h[m]
  <2> DEFINE T == {n \in Nat : g[n] = h[n]}
  <2>1. 0 \in T /\ m \in Nat
    BY <1>0, <1>1
  <2>2. ASSUME NEW k \in 0..m, k # m, k \in T PROVE k + 1 \in T
    <3>1. k \in 0..L /\ k # L /\ k + 1 \in 1..m
      BY <1>0, <2>2
    <3> QED
      BY <1>1, <1>3, <2>2, <3>1
  <2> HIDE DEF T
  <2>3. 0..m \subseteq T
    BY <1>0, <2>1, <2>2, Upwards
  <2>4. m \in 0..m
    BY <2>1
  <2> QED
    BY <2>3, <2>4 DEF T
<1>4. ASSUME NEW m \in 0..L, \A i \in (m + 1)..L : i \notin A
      PROVE  g[L] = g[m]
  <2> DEFINE T == {n \in Nat : g[n] = g[m]}
  <2>1. m \in T /\ m \in Nat
    BY <1>0
  <2>2. ASSUME NEW k \in m..L, k # L, k \in T PROVE k + 1 \in T
    <3>1. k \in 0..L /\ k + 1 \in (m + 1)..L
      BY <1>0, <2>1, <2>2
    <3> QED
      BY <1>1, <1>4, <2>2, <3>1
  <2> HIDE DEF T
  <2>3. m..L \subseteq T
    BY <1>0, <2>1, <2>2, Upwards
  <2>4. L \in m..L
    BY <1>0, <2>1
  <2> QED
    BY <2>3, <2>4 DEF T
<1>5. ASSUME \A i \in 1..L : i \in A
      PROVE  g[L] = p
  <2> DEFINE T == {n \in Nat : Len(g[n]) = n /\ \A i \in 1..n : g[n][i] = p[i]}
  <2>1. 0 \in T
    BY <1>0, <1>1
  <2>2. ASSUME NEW k \in 0..L, k # L, k \in T PROVE k + 1 \in T
    <3> DEFINE s == g[k]
               x == p[k + 1]
               t == Append(s, x)
    <3>1. s \in Seq(S) /\ x \in S /\ Len(s) = k /\ k \in Nat /\ k + 1 \in Nat
          /\ \A i \in 1..k : s[i] = p[i]
      BY <1>0, <1>1, <1>2, <2>2
    <3>2. g[k + 1] = t
      BY <1>1, <1>5, <2>2
    <3> HIDE DEF s
    <3>3. Len(t) = k + 1 /\ t[k + 1] = x /\ \A i \in 1..k : t[i] = s[i]
      BY <3>1
    <3> HIDE DEF t
    <3>4. \A i \in 1..(k + 1) : t[i] = p[i]
      BY <3>1, <3>3
    <3>5. Len(g[k + 1]) = k + 1 /\ \A i \in 1..(k + 1) : g[k + 1][i] = p[i]
      BY <3>2, <3>3, <3>4
    <3> QED
      BY <3>1, <3>5
  <2> HIDE DEF T
  <2>3. 0..L \subseteq T
    BY <1>0, <2>1, <2>2, Upwards
  <2>4. L \in 0..L
    BY <1>0
  <2>5. Len(g[L]) = L /\ (\A i \in 1..L : g[L][i] = p[i]) /\ g[L] \in Seq(S)
    BY <1>2, <2>3, <2>4 DEF T
  <2> DEFINE w == g[L]
  <2>6. Len(w) = Len(p) /\ (\A i \in 1..Len(p) : w[i] = p[i]) /\ w \in Seq(S)
    BY <2>5 DEF L
  <2> HIDE DEF w
  <2>7. w = p
    BY <2>6
  <2> QED
    BY <2>7 DEF w
<1> QED
  BY <1>2, <1>3, <1>4, <1>5 DEF L

LEMMA StripFacts ==
    ASSUME NEW S, NEW s \in Seq(S), NEW x \in S
    PROVE  StripLast(Append(s, x)) = IF IsSlash(x) /\ s # <<>> THEN s
                                     ELSE Append(s, x)
<1> DEFINE t == Append(s, x)
<1>1. t \in Seq(S) /\ Len(t) = Len(s) + 1 /\ t[Len(t)] = x
      /\ \A i \in 1..Len(s) : t[i] = s[i]
  OBVIOUS
<1>2. Len(s) \in Nat /\ (s # <<>> <=> Len(s) > 0) /\ Len(t) - 1 = Len(s)
  BY <1>1
<1>3. SubSeq(t, 1, Len(s)) = s
  <2>1. Len(s) \in 0..Len(t)
    BY <1>1, <1>2
  <2> HIDE DEF t
  <2> DEFINE u == SubSeq(t, 1, Len(s))
  <2>2. u \in Seq(S) /\ Len(u) = Len(s) /\ \A i \in 1..Len(s) : u[i] = t[i]
    BY <1>1, <1>2, <2>1
  <2> HIDE DEF u
  <2>3. u = s
    BY <1>1, <2>2
  <2> QED
    BY <2>3 DEF u
<1> HIDE DEF t
<1>4. StripLast(t) = IF IsSlash(x) /\ s # <<>> THEN s ELSE t
  <2>1. (Len(t) > 1 <=> s # <<>>) /\ SubSeq(t, 1, Len(t) - 1) = s
    BY <1>1, <1>2, <1>3
  <2>2. StripLast(t) = IF Len(t) > 1 /\ IsSlash(t[Len(t)])
                       THEN SubSeq(t, 1, Len(t) - 1) ELSE t
    BY DEF StripLast
  <2> QED
    BY <1>1, <2>1, <2>2
<1> QED
  BY <1>4 DEF t

(* The path that is signed is the path the server reads: of a run of       *)
(* slashes one is left, and none at the end.                               *)
LEMMA CanonicalIsCounted ==
    ASSUME NEW S, NEW p \in Seq(S), p # <<>>
    PROVE  CanonicalPath(p) = Kept(p, Counted(p))
<1> DEFINE L == Len(p)
           A == Written(p)
           B == Counted(p)
           slash == {i \in 1..L : IsSlash(p[i])}
<1>0. L \in Nat /\ L # 0 /\ L - 1 \in Nat /\ L \in 1..L /\ L \in 0..L
      /\ L - 1 \in 0..L /\ 0 \in 0..L /\ DOMAIN p = 1..L
      /\ 1 \in 1..L /\ 1 \in 0..L /\ \A i \in 1..L : p[i] \in S /\ i - 1 \in 0..L
  OBVIOUS
<1>1. /\ \A i \in 1..L : i \in A <=>
           i = 1 \/ i \notin slash \/ i - 1 \notin slash
      /\ \A i \in 1..L : i \in B <=>
           \/ i \notin slash \/ i = 1
           \/ i - 1 \notin slash /\ \E j \in i..L : j \notin slash
  <2>1. \A i \in 1..L : /\ i \in slash <=> IsSlash(p[i])
                        /\ i # 1 => (i - 1 \in slash <=> IsSlash(p[i - 1]))
                        /\ \A j \in i..L : j \in slash <=> IsSlash(p[j])
    BY <1>0
  <2> HIDE DEF slash
  <2>2. \A i \in 1..L : i \in A <=> i = 1 \/ ~IsSlash(p[i]) \/ ~IsSlash(p[i - 1])
    BY <1>0 DEF Written
  <2>3. \A i \in 1..L : i \in B <=>
            \/ ~IsSlash(p[i]) \/ i = 1
            \/ ~IsSlash(p[i - 1]) /\ \E j \in i..L : ~IsSlash(p[j])
    BY <1>0 DEF Counted
  <2> HIDE DEF A, B, L
  <2> QED
    BY <2>1, <2>2, <2>3
<1>2. PICK g : Grows(p, A, g) /\ Kept(p, A) = g[L]
  BY KeptGrows
<1>3. PICK h : Grows(p, B, h) /\ Kept(p, B) = h[L]
  BY KeptGrows
<1>4. /\ \A n \in 0..L : g[n] \in Seq(S) /\ h[n] \in Seq(S)
      /\ \A m \in 0..L : (\A i \in 1..m : i \in A <=> i \in B) => g[m] = h[m]
      /\ \A m \in 0..L : (\A i \in (m + 1)..L : i \notin A) => g[L] = g[m]
      /\ \A m \in 0..L : (\A i \in (m + 1)..L : i \notin B) => h[L] = h[m]
      /\ (\A i \in 1..L : i \in A) => g[L] = p
  BY <1>2, <1>3, GrowsFacts
<1>5. CanonicalPath(p) = StripLast(g[L])
  <2>1. CASE HasDouble(p)
    BY <1>2, <2>1 DEF CanonicalPath, Collapse
  <2>2. CASE ~HasDouble(p)
    <3>1. \A i \in 1..L : i \in A
      BY <1>0, <2>2 DEF HasDouble, Written
    <3> QED
      BY <1>4, <2>2, <3>1 DEF CanonicalPath
  <2> QED
    BY <2>1, <2>2
<1>6. /\ g[0] = <<>> /\ h[0] = <<>>
      /\ \A i \in 1..L :
           /\ g[i] = IF i \in A THEN Append(g[i - 1], p[i]) ELSE g[i - 1]
           /\ h[i] = IF i \in B THEN Append(h[i - 1], p[i]) ELSE h[i - 1]
  BY <1>2, <1>3 DEF Grows
<1>7. \A i \in 1..L : i \in A =>
          StripLast(g[i]) = IF i \in slash /\ g[i - 1] # <<>> THEN g[i - 1]
                            ELSE g[i]
  <2> SUFFICES ASSUME NEW i \in 1..L, i \in A
               PROVE  StripLast(g[i]) =
                          IF i \in slash /\ g[i - 1] # <<>> THEN g[i - 1]
                          ELSE g[i]
    OBVIOUS
  <2>1. i \in slash <=> IsSlash(p[i])
    OBVIOUS
  <2>2. g[i] = Append(g[i - 1], p[i]) /\ g[i - 1] \in Seq(S) /\ p[i] \in S
    BY <1>0, <1>4, <1>6
  <2> HIDE DEF slash, A, L
  <2> DEFINE s == g[i - 1]
             x == p[i]
  <2>3. s \in Seq(S) /\ x \in S /\ g[i] = Append(s, x)
    BY <2>2
  <2> HIDE DEF s, x
  <2>4. StripLast(g[i]) = IF IsSlash(x) /\ s # <<>> THEN s ELSE g[i]
    BY <2>3, StripFacts
  <2> QED
    BY <2>1, <2>4 DEF s, x
<1>8. slash \subseteq 1..L
  OBVIOUS
<1> HIDE DEF L, A, B, slash
<1>9. StripLast(g[L]) = h[L]
  <2>1. CASE L \notin slash
    <3>1. L \in A /\ \A i \in 1..L : i \in A <=> i \in B
      BY <1>0, <1>1, <2>1
    <3> QED
      BY <1>0, <1>4, <1>7, <2>1, <3>1
  <2>2. CASE L \in slash
    <3> DEFINE T == {k \in Nat : k \in 1..L /\ \A j \in k..L : j \in slash}
    <3>1. PICK t \in T : \A k \in T : t <= k
      <4>1. T \in SUBSET Nat
        OBVIOUS
      <4>2. L \in T
        <5>1. \A j \in L..L : j = L
          BY <1>0
        <5> QED
          BY <1>0, <2>2, <5>1
      <4> HIDE DEF T
      <4> QED
        BY <4>1, <4>2, LeastNat
    <3>2. t \in Nat /\ t \in 1..L /\ \A j \in t..L : j \in slash
      OBVIOUS
    <3>3. \A i \in (t + 1)..L :
              i \in 1..L /\ i # 1 /\ i \in slash /\ i - 1 \in slash
      <4>1. \A i \in (t + 1)..L : i \in t..L /\ i - 1 \in t..L
                                  /\ i \in 1..L /\ i # 1
        BY <1>0, <3>2
      <4> HIDE DEF T
      <4> QED
        BY <3>2, <4>1
    <3>4. \A i \in (t + 1)..L : i \notin A /\ i \notin B
      <4> HIDE DEF T
      <4> QED
        BY <1>1, <3>3
    <3>5. t \in 0..L /\ g[L] = g[t] /\ h[L] = h[t]
      <4>1. t \in 0..L
        BY <1>0, <3>2
      <4> HIDE DEF T
      <4> QED
        BY <1>4, <3>4, <4>1
    <3>6. CASE t = 1
      <4>1. 1 \in A /\ 1 \in B /\ g[1] = h[1] /\ 1 - 1 = 0
        <5>1. \A i \in 1..1 : i = 1
          OBVIOUS
        <5>2. 1 \in A /\ 1 \in B
          BY <1>0, <1>1
        <5> QED
          BY <1>0, <1>4, <5>1, <5>2
      <4>2. StripLast(g[1]) = g[1]
        BY <1>0, <1>6, <1>7, <4>1
      <4> QED
        BY <3>5, <3>6, <4>1, <4>2
    <3>7. CASE t # 1
      <4>1. /\ t - 1 \in 1..L /\ t - 1 \in 0..L /\ t - 1 \in Nat
            /\ (t - 1) - 1 \in 0..L /\ ~(t <= t - 1)
        BY <1>0, <3>2, <3>7
      <4>2. t - 1 \notin slash
        <5>1. \A j \in (t - 1)..L : j = t - 1 \/ j \in t..L
          BY <1>0, <3>2, <4>1
        <5>2. t - 1 \in slash => t - 1 \in T
          BY <3>2, <4>1, <5>1
        <5> QED
          BY <3>1, <4>1, <5>2
      <4>3. t \in A /\ t \notin B
        BY <1>1, <3>2, <3>7, <4>2
      <4>4. \A i \in 1..(t - 1) : i \in A <=> i \in B
        <5>1. \A i \in 1..(t - 1) : i \in 1..L /\ t - 1 \in i..L
          BY <1>0, <3>2, <4>1
        <5> HIDE DEF T
        <5> QED
          BY <1>1, <4>2, <5>1
      <4>5. g[t - 1] = h[t - 1] /\ h[t] = h[t - 1]
        BY <1>4, <1>6, <3>2, <4>1, <4>3, <4>4
      <4>6. g[t - 1] # <<>>
        <5>1. t - 1 \in A
          BY <1>1, <4>1, <4>2
        <5>2. /\ g[t - 1] = Append(g[(t - 1) - 1], p[t - 1])
              /\ g[(t - 1) - 1] \in Seq(S) /\ p[t - 1] \in S
          BY <1>0, <1>4, <1>6, <4>1, <5>1
        <5> QED
          BY <5>2
      <4>7. t \in slash
        BY <3>2
      <4> HIDE DEF T
      <4> QED
        BY <1>7, <3>2, <3>5, <4>3, <4>5, <4>6, <4>7
    <3> QED
      BY <3>6, <3>7
  <2> QED
    BY <2>1, <2>2
<1> QED
  BY <1>3, <1>5, <1>9 DEF B, L

(* The least of a sequence's places with some property.                    *)
LEMMA FirstPlace ==
    ASSUME NEW S, NEW p \in Seq(S), NEW marks, marks \subseteq DOMAIN p,
           marks # {}
    PROVE  LET m == CHOOSE i \in marks : \A j \in marks : i <= j
           IN  m \in marks /\ m \in 1..Len(p)
<1>1. marks \subseteq Nat /\ marks \subseteq 1..Len(p)
  OBVIOUS
<1>2. \E i \in marks : \A j \in marks : i <= j
  BY <1>1, LeastNat
<1> QED
  BY <1>1, <1>2

(* What stands before a mark ends at the mark, or is all there is.         *)
EndsAt(p, mark, n) ==
    /\ n \in 0..Len(p) /\ \A i \in 1..n : p[i] # mark
    /\ n = Len(p) \/ p[n + 1] = mark

LEMMA BeforeIs ==
    ASSUME NEW S, NEW p \in Seq(S), NEW mark
    PROVE  \E n : EndsAt(p, mark, n) /\ Before(p, mark) = SubSeq(p, 1, n)
<1> DEFINE marks == {i \in DOMAIN p : p[i] = mark}
           m == CHOOSE i \in marks : \A j \in marks : i <= j
<1>1. CASE marks = {}
  <2>1. Before(p, mark) = p /\ SubSeq(p, 1, Len(p)) = p
    BY <1>1 DEF Before
  <2>2. \A i \in 1..Len(p) : p[i] # mark
    BY <1>1
  <2>3. Len(p) \in 0..Len(p)
    OBVIOUS
  <2> QED
    BY <2>1, <2>2, <2>3 DEF EndsAt
<1>2. CASE marks # {}
  <2>1. m \in marks /\ m \in 1..Len(p) /\ \A j \in marks : m <= j
    <3>1. marks \subseteq Nat /\ marks \subseteq 1..Len(p)
      OBVIOUS
    <3>2. \E i \in marks : \A j \in marks : i <= j
      <4> HIDE DEF marks
      <4> QED
        BY <1>2, <3>1, LeastNat
    <3> QED
      BY <3>1, <3>2
  <2>2. Before(p, mark) = SubSeq(p, 1, m - 1)
    BY <1>2 DEF Before
  <2>3. p[m] = mark
    BY <2>1
  <2>4. \A i \in 1..(m - 1) : i \in DOMAIN p /\ i < m
    BY <2>1
  <2>5. \A i \in 1..(m - 1) : p[i] # mark
    BY <2>1, <2>4
  <2> HIDE DEF m, marks
  <2>6. m - 1 \in 0..Len(p) /\ (m - 1) + 1 = m
    BY <2>1
  <2> QED
    BY <2>2, <2>3, <2>5, <2>6 DEF EndsAt
<1> QED
  BY <1>1, <1>2

LEMMA EndIsUnique ==
    ASSUME NEW S, NEW p \in Seq(S), NEW mark,
           NEW n, EndsAt(p, mark, n), NEW m, EndsAt(p, mark, m)
    PROVE  n = m
<1>1. n \in 0..Len(p) /\ m \in 0..Len(p) /\ Len(p) \in Nat
  BY DEF EndsAt
<1>2. ~(n < m)
  <2> SUFFICES ASSUME n < m PROVE FALSE
    OBVIOUS
  <2>1. n + 1 \in 1..m /\ n # Len(p)
    BY <1>1
  <2> QED
    BY <2>1 DEF EndsAt
<1>3. ~(m < n)
  <2> SUFFICES ASSUME m < n PROVE FALSE
    OBVIOUS
  <2>1. m + 1 \in 1..n /\ m # Len(p)
    BY <1>1
  <2> QED
    BY <2>1 DEF EndsAt
<1> QED
  BY <1>1, <1>2, <1>3

LEMMA BeforeQueryFacts ==
    ASSUME NEW S, NEW p \in Seq(S), p # <<>>, p[1] # "?"
    PROVE  BeforeQuery(p) \in Seq(S) /\ BeforeQuery(p) # <<>>
<1>1. PICK n : EndsAt(p, "?", n) /\ BeforeQuery(p) = SubSeq(p, 1, n)
  BY BeforeIs DEF BeforeQuery
<1>2. n \in 1..Len(p)
  <2>1. n \in 0..Len(p) /\ (n = Len(p) \/ p[n + 1] = "?") /\ Len(p) # 0
    BY <1>1 DEF EndsAt
  <2>2. n # 0
    <3> SUFFICES ASSUME n = 0 PROVE FALSE
      OBVIOUS
    <3>1. p[n + 1] = p[1]
      OBVIOUS
    <3> QED
      BY <2>1, <3>1
  <2> QED
    BY <2>1, <2>2
<1>3. /\ SubSeq(p, 1, n) \in Seq(S) /\ Len(SubSeq(p, 1, n)) = n /\ n # 0
  BY <1>2
<1>4. SubSeq(p, 1, n) # <<>>
  BY <1>3
<1> QED
  BY <1>1, <1>3, <1>4

(* A path that is sent as it stands loses at most a fragment behind its    *)
(* query.                                                                  *)
LEMMA SentBeforeQuery ==
    ASSUME NEW S, NEW p \in Seq(S), AsItStands(p)
    PROVE  BeforeQuery(SentPath(p)) = BeforeQuery(p)
<1> DEFINE v == Visible(p)
<1>1. PICK n : EndsAt(p, "?", n) /\ BeforeQuery(p) = SubSeq(p, 1, n)
  BY BeforeIs DEF BeforeQuery
<1>2. PICK m : EndsAt(p, "#", m) /\ v = SubSeq(p, 1, m)
  BY BeforeIs DEF Visible
<1>3. n \in 0..Len(p) /\ m \in 0..Len(p) /\ Len(p) \in Nat
  BY <1>1, <1>2 DEF EndsAt
<1>4. \A i \in 1..n : p[i] # "#" /\ p[i] # " "
  <2>1. DOMAIN BeforeQuery(p) = 1..n
    BY <1>1, <1>3
  <2> QED
    BY <2>1 DEF AsItStands
<1>5. n <= m
  <2> SUFFICES ASSUME m < n PROVE FALSE
    BY <1>3
  <2>1. m + 1 \in 1..n /\ m # Len(p)
    BY <1>3
  <2> QED
    BY <1>2, <1>4, <2>1 DEF EndsAt
<1>6. /\ v \in Seq(S) /\ Len(v) = m /\ DOMAIN v = 1..m
      /\ \A i \in 1..m : v[i] = p[i]
  BY <1>2, <1>3
<1> HIDE DEF v
<1>7. EndsAt(v, "?", n)
  <2>1. n \in 0..Len(v) /\ \A i \in 1..n : v[i] # "?"
    <3>1. n \in 0..Len(v) /\ \A i \in 1..n : i \in 1..m
      BY <1>3, <1>5, <1>6
    <3> QED
      BY <1>1, <1>6, <3>1 DEF EndsAt
  <2>2. ASSUME n # Len(v) PROVE v[n + 1] = "?"
    <3>1. n + 1 \in 1..m /\ n # Len(p)
      BY <1>3, <1>5, <1>6, <2>2
    <3>2. p[n + 1] = "?"
      BY <1>1, <3>1 DEF EndsAt
    <3> QED
      BY <1>6, <3>1, <3>2
  <2> QED
    BY <2>1, <2>2 DEF EndsAt
<1>8. BeforeQuery(v) = SubSeq(v, 1, n)
  <2>1. PICK k : EndsAt(v, "?", k) /\ BeforeQuery(v) = SubSeq(v, 1, k)
    BY <1>6, BeforeIs DEF BeforeQuery
  <2>2. k = n
    BY <1>6, <1>7, <2>1, EndIsUnique
  <2> QED
    BY <2>1, <2>2
<1>9. DOMAIN BeforeQuery(v) = 1..n
  BY <1>3, <1>5, <1>6, <1>8
<1>10. SentPath(p) = v
  <2>1. SentPath(p) = [i \in 1..m |->
            IF p[i] = " " /\ i \in 1..n THEN "%20" ELSE p[i]]
    BY <1>6, <1>9 DEF SentPath, v
  <2>2. SentPath(p) = [i \in 1..m |-> p[i]]
    BY <1>4, <2>1
  <2>3. v = [i \in 1..m |-> v[i]]
    BY <1>6
  <2>4. [i \in 1..m |-> v[i]] = [i \in 1..m |-> p[i]]
    BY <1>6
  <2> QED
    BY <2>2, <2>3, <2>4
<1>11. SubSeq(v, 1, n) = SubSeq(p, 1, n)
  BY <1>3, <1>5, <1>6
<1> QED
  BY <1>1, <1>8, <1>10, <1>11

LEMMA TrimLeftType ==
    ASSUME NEW S, NEW p \in Seq(S)
    PROVE  TrimLeft(p) \in Seq(S)
<1> DEFINE solid == {i \in DOMAIN p : ~IsSlash(p[i])}
           m == CHOOSE i \in solid : \A j \in solid : i <= j
<1>1. CASE solid = {}
  BY <1>1 DEF TrimLeft
<1>2. CASE solid # {}
  <2>1. m \in 1..Len(p)
    <3>1. solid \subseteq DOMAIN p
      OBVIOUS
    <3> HIDE DEF solid
    <3> QED
      BY <1>2, <3>1, FirstPlace
  <2>2. TrimLeft(p) = SubSeq(p, m, Len(p))
    BY <1>2 DEF TrimLeft
  <2> HIDE DEF m, solid
  <2>3. SubSeq(p, m, Len(p)) \in Seq(S)
    BY <2>1
  <2> QED
    BY <2>2, <2>3
<1> QED
  BY <1>1, <1>2

(* Every path of a call is a sequence that begins with a slash.            *)
Rooted(S, p) == p \in Seq(S) /\ p # <<>> /\ p[1] = "/"

LEMMA RootedAppends ==
    ASSUME NEW S, NEW p, Rooted(S, p), NEW q \in Seq(S)
    PROVE  Rooted(S, p \o q)
<1>1. p \in Seq(S) /\ Len(p) \in Nat \ {0} /\ p[1] = "/"
  BY DEF Rooted
<1>2. p \o q \in Seq(S) /\ Len(p \o q) = Len(p) + Len(q) /\ (p \o q)[1] = p[1]
  BY <1>1
<1>3. p \o q # <<>>
  BY <1>1, <1>2
<1> QED
  BY <1>1, <1>2, <1>3 DEF Rooted

LEMMA SeqOfMore ==
    ASSUME NEW S, NEW T, S \subseteq T, NEW s \in Seq(S)
    PROVE  s \in Seq(T)
<1>1. Len(s) \in Nat /\ s = [i \in 1..Len(s) |-> s[i]]
      /\ \A i \in 1..Len(s) : s[i] \in T
  OBVIOUS
<1> QED
  BY <1>1

LEMMA PathsFacts ==
    ASSUME NEW o, NEW p \in Paths(o)
    PROVE  \E S : Rooted(S, p)
<1> DEFINE S == STRING \cup {"/", "?", "organizations", "nodes", "search", "node",
                            "query", "clients", "keys", o}
           root == <<"/", "organizations", "/", o, "/">>
<1>1. /\ Rooted(S, root)
      /\ <<"/", "nodes">> \in Seq(S) /\ <<"/", "nodes", "/">> \in Seq(S)
      /\ <<"/", "search", "/", "node">> \in Seq(S) /\ <<"?", "query">> \in Seq(S)
      /\ <<"/", "clients", "/">> \in Seq(S) /\ <<"/", "keys">> \in Seq(S)
  BY DEF Rooted
<1>2. \A name \in Names : name \in Seq(S)
  <2>1. STRING \subseteq S
    OBVIOUS
  <2> HIDE DEF S
  <2> TAKE name \in Names
  <2>2. name \in Seq(STRING)
    BY PathAssumption
  <2> QED
    BY <2>1, <2>2, SeqOfMore
<1> HIDE DEF S
<1>3. ASSUME NEW q \in Seq(S) PROVE Rooted(S, orgPath(o, q))
  <2>1. orgPath(o, q) = root \o TrimLeft(q) /\ TrimLeft(q) \in Seq(S)
    BY TrimLeftType DEF orgPath
  <2> HIDE DEF root
  <2> QED
    BY <1>1, <2>1, RootedAppends
<1>4. \A s \in Seq(S), t \in Seq(S) : s \o t \in Seq(S)
  OBVIOUS
<1> HIDE DEF root
<1>5. CASE p = collPath(o)
  BY <1>1, <1>3, <1>5 DEF collPath
<1>6. CASE p = searchPath(o)
  BY <1>1, <1>3, <1>6, RootedAppends DEF searchPath
<1>7. ASSUME NEW name \in Names, p = itemPath(o, name)
      PROVE  Rooted(S, p)
  BY <1>1, <1>2, <1>3, <1>4, <1>7 DEF itemPath
<1>8. ASSUME NEW name \in Names, p = keysPath(o, name)
      PROVE  Rooted(S, p)
  BY <1>1, <1>2, <1>3, <1>4, <1>8 DEF keysPath
<1> QED
  BY <1>5, <1>6, <1>7, <1>8 DEF Paths

(* What is signed for a call is what the server reads of the path sent for *)
(* it, if that path is sent as it stands.                                  *)
LEMMA SignedAsServed ==
    ASSUME NEW o, NEW p \in Paths(o), AsItStands(p)
    PROVE  CanonicalPath(BeforeQuery(p)) = Served(SentPath(p))
<1>1. PICK S : Rooted(S, p)
  BY PathsFacts
<1>2. p \in Seq(S) /\ p # <<>> /\ p[1] # "?"
  BY <1>1 DEF Rooted
<1>3. BeforeQuery(p) \in Seq(S) /\ BeforeQuery(p) # <<>>
  BY <1>2, BeforeQueryFacts
<1>4. BeforeQuery(SentPath(p)) = BeforeQuery(p)
  BY <1>2, SentBeforeQuery
<1> QED
  BY <1>3, <1>4, CanonicalIsCounted DEF Served

(* The lines make up a signature of any length, and none is empty or       *)
(* longer than 60 characters.                                              *)
LEMMA SignatureIsWhole ==
    ASSUME NEW length \in Nat
    PROVE  Whole(chunk60(length), length)
<1> DEFINE n == (length + 59) \div 60
           lines == chunk60(length)
<1>1. n \in Nat /\ 60 * n >= length /\ (n = 0 <=> length = 0)
      /\ (n # 0 => 60 * (n - 1) < length)
  OBVIOUS
<1> HIDE DEF n
<1>2. lines = [k \in 1..n |-> <<60 * (k - 1) + 1,
                               IF 60 * k < length THEN 60 * k ELSE length>>]
  BY DEF chunk60, n
<1> HIDE DEF lines
<1>3. Len(lines) = n /\ (lines = <<>> <=> n = 0)
  <2> DEFINE X == {lines[k] : k \in 1..n}
  <2>1. lines \in [1..n -> X]
    BY <1>2
  <2> HIDE DEF X
  <2>2. lines \in Seq(X) /\ Len(lines) = n
    BY <1>1, <2>1
  <2> QED
    BY <2>2
<1>4. \A k \in 1..n :
          /\ lines[k][1] = 60 * (k - 1) + 1
          /\ lines[k][2] = IF 60 * k < length THEN 60 * k ELSE length
  BY <1>2
<1>5. \A k \in 2..n : /\ k \in 1..n /\ k - 1 \in 1..n
                      /\ 60 * (k - 1) < length
  BY <1>1
<1>6. \A k \in 2..n : lines[k][1] = lines[k - 1][2] + 1
  BY <1>4, <1>5
<1>7. n # 0 => lines[1][1] = 1 /\ lines[n][2] = length
  <2>1. ASSUME n # 0 PROVE lines[1][1] = 1 /\ lines[n][2] = length
    <3>1. 1 \in 1..n /\ n \in 1..n /\ 60 * (1 - 1) + 1 = 1 /\ ~(60 * n < length)
      BY <1>1, <2>1
    <3> QED
      BY <1>4, <3>1
  <2> QED
    BY <2>1
<1>8. \A k \in 1..n : lines[k][2] - lines[k][1] \in 0..59
  <2> TAKE k \in 1..n
  <2>1. 60 * (k - 1) < length
    BY <1>1
  <2> QED
    BY <1>4, <2>1
<1>9. Whole(lines, length)
  BY <1>1, <1>3, <1>6, <1>7, <1>8 DEF Whole
<1> QED
  BY <1>9 DEF lines

-----------------------------------------------------------------------------
(* SignedClient: the calls. What the invariant says of one Client.         *)

Own(c) ==
    /\ stage[c] \in {"attempt", "wait"} => path[c] \in Paths(org[c])
    /\ stage[c] # "wait" => request[c] = None /\ reply[c] = None
    /\ request[c] # None =>
        /\ request[c].path = SentPath(path[c]) /\ request[c].sent \in Nat
        /\ request[c].signature =
              [path |-> CanonicalPath(BeforeQuery(path[c])),
               time |-> request[c].sent,
               lines |-> chunk60(SignatureLength[c])]
    /\ reply[c] # None /\ reply[c].status = 401 =>
           reply[c].time - request[c].sent > Skew \/ ~AsItStands(path[c])

LEMMA CallInvIs == CallInv <=> CallTypes /\ \A c \in Clients : Own(c)
BY DEF CallInv, RequestInv, RefusedOnlyIfLate, Own

(* One Client takes a step, the others do not.                             *)
LEMMA OneMoves ==
    ASSUME CallInv, NEW c \in Clients, CallTypes', Own(c)',
           \A d \in Clients \ {c} :
               /\ stage'[d] = stage[d] /\ org'[d] = org[d]
               /\ path'[d] = path[d]
               /\ request'[d] = request[d] /\ reply'[d] = reply[d]
    PROVE  CallInv'
<1>1. ASSUME NEW d \in Clients PROVE Own(d)'
  <2>1. CASE d # c
    <3>1. /\ Own(d) /\ stage'[d] = stage[d] /\ org'[d] = org[d]
          /\ path'[d] = path[d]
          /\ request'[d] = request[d] /\ reply'[d] = reply[d]
      BY <2>1, CallInvIs
    <3> QED
      BY <3>1 DEF Own
  <2> QED
    BY <2>1
<1> QED
  BY <1>1 DEF CallInv, RequestInv, RefusedOnlyIfLate, Own

LEMMA CallInvBegins == SignedInit => CallInv
BY DEF SignedInit, CallInv, CallTypes, RequestInv, RefusedOnlyIfLate, Setting

LEMMA MakingKeepsCalls ==
    ASSUME MakingTypes, CallInv, NEW c \in Clients, Setup(c)
    PROVE  CallInv'
<1>1. /\ stage[c] \in Setting /\ DOMAIN org' = Clients
      /\ UNCHANGED <<path, request, reply, now>>
      /\ \A d \in Clients \ {c} : stage'[d] = stage[d] /\ org'[d] = org[d]
      /\ stage'[c] \notin {"attempt", "wait"}
  BY DEF Setup, Parse, WithHTTPClient, WithSkipTLSVerify, WithMaxRetries,
     SetOption, NewClient, Built, Goto, Setting, callVars, MakingTypes,
     CallInv, CallTypes
<1>2. CallTypes'
  BY <1>1 DEF CallInv, CallTypes
<1>3. request[c] = None /\ reply[c] = None
  BY <1>1 DEF CallInv, RequestInv, Setting
<1>4. Own(c)'
  BY <1>1, <1>3 DEF Own
<1> QED
  BY <1>1, <1>2, <1>4, OneMoves

LEMMA BeginCallKeepsCalls ==
    ASSUME MakingTypes, CallInv, NEW c \in Clients, BeginCall(c)
    PROVE  CallInv'
<1>1. /\ stage[c] = "idle" /\ stage' = [stage EXCEPT ![c] = "attempt"]
      /\ \E p \in Paths(org[c]) : path' = [path EXCEPT ![c] = p]
      /\ UNCHANGED <<org, request, reply, now>>
  BY DEF BeginCall, Goto, clientVars
<1>2. CallTypes'
  BY <1>1 DEF CallInv, CallTypes
<1>3. /\ request[c] = None /\ reply[c] = None
      /\ stage'[c] = "attempt" /\ path'[c] \in Paths(org[c])
      /\ \A d \in Clients \ {c} :
            stage'[d] = stage[d] /\ path'[d] = path[d]
  BY <1>1 DEF CallInv, CallTypes, RequestInv, MakingTypes
<1>4. Own(c)'
  BY <1>1, <1>3 DEF Own
<1> QED
  BY <1>1, <1>2, <1>3, <1>4, OneMoves

LEMMA SendKeepsCalls ==
    ASSUME MakingTypes, CallInv, NEW c \in Clients, Send(c)
    PROVE  CallInv'
<1> DEFINE q == [path |-> SentPath(path[c]), signature |-> Sign(c),
                 sent |-> now]
<1>1. /\ stage[c] = "attempt" /\ stage' = [stage EXCEPT ![c] = "wait"]
      /\ request' = [request EXCEPT ![c] = q]
      /\ UNCHANGED <<org, path, reply, now>>
  BY DEF Send, Goto, clientVars, callVars
<1>2. /\ q.path = SentPath(path[c]) /\ q.sent = now
      /\ q.signature = [path |-> CanonicalPath(BeforeQuery(path[c])),
                        time |-> now, lines |-> chunk60(SignatureLength[c])]
  BY DEF Sign
<1> HIDE DEF q
<1>3. CallTypes'
  BY <1>1 DEF CallInv, CallTypes
<1>4. /\ path[c] \in Paths(org[c]) /\ reply[c] = None /\ now \in Nat
      /\ stage'[c] = "wait" /\ request'[c] = q
      /\ \A d \in Clients \ {c} :
            stage'[d] = stage[d] /\ request'[d] = request[d]
  BY <1>1 DEF CallInv, CallTypes, RequestInv, MakingTypes
<1>5. Own(c)'
  BY <1>1, <1>2, <1>4 DEF Own
<1> QED
  BY <1>1, <1>3, <1>4, <1>5, OneMoves

LEMMA BuildFailsKeepsCalls ==
    ASSUME MakingTypes, CallInv, NEW c \in Clients, BuildFails(c)
    PROVE  CallInv'
<1>1. /\ stage[c] = "attempt"
      /\ \E s \in {"idle", "attempt"} : stage' = [stage EXCEPT ![c] = s]
      /\ UNCHANGED <<org, path, request, reply, now>>
  BY DEF BuildFails, Transient, Ends, Again, Goto, clientVars
<1>2. CallTypes'
  BY <1>1 DEF CallInv, CallTypes
<1>3. /\ path[c] \in Paths(org[c]) /\ stage'[c] # "wait"
      /\ request[c] = None /\ reply[c] = None
      /\ \A d \in Clients \ {c} : stage'[d] = stage[d]
  BY <1>1 DEF CallInv, CallTypes, RequestInv, MakingTypes
<1>4. Own(c)'
  BY <1>1, <1>3 DEF Own
<1> QED
  BY <1>1, <1>2, <1>3, <1>4, OneMoves

LEMMA EndKeepsCalls ==
    ASSUME MakingTypes, CallInv, NEW c \in Clients,
           Receive(c) \/ TimeOut(c) \/ NetError(c) \/ Cancel(c)
    PROVE  CallInv'
<1>1. /\ stage[c] = "wait"
      /\ \E s \in {"idle", "attempt"} : stage' = [stage EXCEPT ![c] = s]
      /\ request' = [request EXCEPT ![c] = None]
      /\ reply' = [reply EXCEPT ![c] = None]
      /\ UNCHANGED <<org, path, now>>
  BY DEF Receive, TimeOut, NetError, Cancel, Transient, Ends, Again, Forget,
     Goto, clientVars
<1>2. CallTypes'
  BY <1>1 DEF CallInv, CallTypes
<1>3. /\ path[c] \in Paths(org[c]) /\ stage'[c] # "wait"
      /\ request'[c] = None /\ reply'[c] = None
      /\ \A d \in Clients \ {c} :
            /\ stage'[d] = stage[d]
            /\ request'[d] = request[d] /\ reply'[d] = reply[d]
  BY <1>1 DEF CallInv, CallTypes, RequestInv, MakingTypes
<1>4. Own(c)'
  BY <1>1, <1>3 DEF Own
<1> QED
  BY <1>1, <1>2, <1>3, <1>4, OneMoves

(* The server refuses what is late, and of what is sent as it stands       *)
(* nothing else.                                                           *)
LEMMA AnswerKeepsCalls ==
    ASSUME MakingTypes, CallInv, NEW c \in Clients, Answer(c)
    PROVE  CallInv'
<1>1. /\ stage[c] = "wait" /\ request[c] # None
      /\ UNCHANGED <<stage, org, path, request, now>>
      /\ \E status \in IF Verified(c) THEN {200, 404, 503} ELSE {401} :
            reply' = [reply EXCEPT ![c] = [status |-> status, time |-> now]]
  BY DEF Answer, clientVars, callVars
<1>2. CallTypes'
  BY <1>1 DEF CallInv, CallTypes
<1>3. /\ path[c] \in Paths(org[c])
      /\ request[c].path = SentPath(path[c]) /\ request[c].sent \in Nat
      /\ request[c].signature.path = CanonicalPath(BeforeQuery(path[c]))
      /\ request[c].signature.time = request[c].sent
      /\ request[c].signature.lines = chunk60(SignatureLength[c])
      /\ now \in Nat
  <2> DEFINE signature == request[c].signature
             wanted    == CanonicalPath(BeforeQuery(path[c]))
             sent      == request[c].sent
             header    == chunk60(SignatureLength[c])
  <2>1. /\ path[c] \in Paths(org[c])
        /\ request[c].path = SentPath(path[c]) /\ sent \in Nat
        /\ signature = [path |-> wanted, time |-> sent, lines |-> header]
    BY <1>1 DEF CallInv, RequestInv
  <2>2. now \in Nat
    BY DEF CallInv, CallTypes
  <2> HIDE DEF signature, wanted, sent, header
  <2>3. /\ signature.path = wanted /\ signature.time = sent
        /\ signature.lines = header
    BY <2>1
  <2>4. /\ request[c].signature.path = wanted
        /\ request[c].signature.time = request[c].sent
        /\ request[c].signature.lines = header
    BY <2>3, Zenon DEF signature, sent
  <2>5. request[c].sent \in Nat
    BY <2>1 DEF sent
  <2> QED
    BY <2>1, <2>2, <2>4, <2>5, Zenon DEF wanted, header
<1>4. AsItStands(path[c]) => (Verified(c) <=> now - request[c].sent <= Skew)
  <2> SUFFICES ASSUME AsItStands(path[c])
               PROVE  Verified(c) <=> now - request[c].sent <= Skew
    OBVIOUS
  <2>1. request[c].signature.path = Served(request[c].path)
    BY <1>3, SignedAsServed
  <2>2. Whole(request[c].signature.lines, SignatureLength[c])
    BY <1>3, SignatureIsWhole, LimitsAssumption
  <2> QED
    BY <1>3, <2>1, <2>2 DEF Verified
<1>5. /\ reply'[c].status = 401 => ~Verified(c)
      /\ reply'[c].time = now
      /\ \A d \in Clients \ {c} : reply'[d] = reply[d]
  BY <1>1 DEF CallInv, CallTypes
<1>6. reply'[c].status = 401 =>
          reply'[c].time - request[c].sent > Skew \/ ~AsItStands(path[c])
  BY <1>3, <1>4, <1>5, LimitsAssumption
<1>7. Own(c)'
  BY <1>1, <1>6, CallInvIs DEF Own
<1> QED
  BY <1>1, <1>2, <1>5, <1>7, OneMoves

LEMMA OthersKeepCalls ==
    ASSUME CallInv, Tick \/ UNCHANGED signedVars
    PROVE  CallInv'
<1>1. /\ UNCHANGED <<stage, org, path, request, reply>>
      /\ now' \in Nat
  BY DEF Tick, signedVars, clientVars, callVars, CallInv, CallTypes
<1> QED
  BY <1>1 DEF CallInv, CallTypes, RequestInv, RefusedOnlyIfLate

(* What every call of SignedClient keeps: a request has the path that was  *)
(* made of the one it was built for (http.NewRequestWithContext) and the   *)
(* signature of the latter, made at the time it was sent (doOnce,          *)
(* SignHeaders), and an answer belongs to the request under way.           *)
THEOREM CallInvariance == SignedSpec => []CallInv
<1>1. MakingTypes /\ CallInv /\ [SignedNext]_signedVars => CallInv'
  <2> SUFFICES ASSUME MakingTypes, CallInv, [SignedNext]_signedVars
               PROVE  CallInv'
    OBVIOUS
  <2>1. ASSUME NEW c \in Clients, Proceed(c) PROVE CallInv'
    BY <2>1, SendKeepsCalls, BuildFailsKeepsCalls, EndKeepsCalls DEF Proceed
  <2>2. CASE Tick \/ Quiet \/ UNCHANGED signedVars
    BY <2>2, OthersKeepCalls DEF Quiet
  <2> QED
    BY <2>1, <2>2, MakingKeepsCalls, BeginCallKeepsCalls, EndKeepsCalls,
       AnswerKeepsCalls DEF SignedNext
<1>2. SignedInv => MakingTypes
  BY DEF SignedInv
<1> QED
  BY <1>1, <1>2, CallInvBegins, SignedInvariance, PTL DEF SignedSpec

(* The signature covers the path, the time and the key the server checks,  *)
(* whatever slashes and query marks a name puts into the path              *)
(* (CanonicalPath, doOnce), whatever attempt it is (SignHeaders is called  *)
(* anew for each) and however long the signature is (chunk60): of the      *)
(* requests whose path is sent as it stands, without a fragment cut off or *)
(* a character escaped, only those under way too long are refused.         *)
THEOREM RefusalsAreLate == SignedSpec => []RefusedOnlyIfLate
<1>1. CallInv => RefusedOnlyIfLate
  BY DEF CallInv
<1> QED
  BY <1>1, CallInvariance, PTL

=============================================================================
