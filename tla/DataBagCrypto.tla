---------------------------- MODULE DataBagCrypto ----------------------------
(***************************************************************************)
(* Encrypted data bag items (databag_crypto.go) over the requests of       *)
(* databags.go: several clients load, decrypt, edit, encrypt and save the  *)
(* same item, again and again, some of them to move it to another secret,  *)
(* while the item may still be in the clear or in the formats of versions  *)
(* 1 and 2 that other tools wrote, and what is stored may be damaged. An   *)
(* update may fail, and be served nevertheless, at once or late.           *)
(*                                                                         *)
(* The ciphers are external and ideal. A wrapper records what was          *)
(* encrypted and under which secret, and of each of its fields whether it  *)
(* still is what was written. Whatever is authenticated decrypts only if   *)
(* nothing of it changed; CBC without authentication decrypts changed data *)
(* to something else, and data of another secret to noise.                 *)
(*                                                                         *)
(* The next-state relation and its like are named ItemInit, ItemNext, ...  *)
(* so that a module can extend this one along with another.                *)
(***************************************************************************)
EXTENDS Naturals, FiniteSets

CONSTANTS
    Keys,              \* the keys of the item other than "id"
    Inputs,            \* the numbers that are put under each key
    Mantissa,          \* bits of precision of a float64 (53)
    MaxNumber,         \* bound on the numbers
    Wrong,             \* a value nobody has put there
    Secrets,           \* shared secrets
    Users,             \* callers that edit the item
    ReadSecret,        \* the secret each of them decrypts with
    WriteSecret,       \* and the one it encrypts with
    MaxLate,           \* bound on the updates still under way
    MaxDamage          \* bound on the damaged fields

Numbers == 0..MaxNumber

(* The numbers of so many bits of precision.                               *)
FloatsOf(bits) ==
    {n \in Numbers : \E e \in 0..n : /\ n % 2 ^ e = 0
                                    /\ n \div 2 ^ e <= 2 ^ bits}
Floats == FloatsOf(Mantissa)

ASSUME InputsAssumption == /\ Inputs \in [Keys -> SUBSET Numbers]
                           /\ Wrong \notin Numbers
ASSUME UsersAssumption == /\ ReadSecret \in [Users -> Secrets]
                          /\ WriteSecret \in [Users -> Secrets]
ASSUME BoundsAssumption ==
    /\ Mantissa \in Nat \ {0, 1}
    /\ MaxNumber \in Nat /\ MaxNumber \in Floats
    /\ MaxLate \in Nat /\ MaxDamage \in Nat

VARIABLES
    stored,            \* the item on the server
    phase,             \* "idle", "loaded", "saved", "notEncrypted", ...
    seen,              \* the item each client received
    held,              \* and what Decrypt made of it
    lateItems,         \* what failed updates may still write
    damage,            \* how many fields have been damaged
    forged             \* the keys whose data were when in version 1

itemVars == <<stored, phase, seen, held, lateItems, damage, forged>>

(* A field is as it was written; or that with other white space; or other  *)
(* data of the same or of another length; or no base64; or not there.      *)
FieldStates ==
    {"intact", "reflowed", "changed", "resized", "garbled", "missing"}
Same(field) == field \in {"intact", "reflowed"}

(* check is the hmac of version 2 and the auth_tag of version 3.           *)
Held == Numbers \cup {Wrong}
Plain == [kind : {"plain"}, value : Held]
Wrapper == [kind : {"wrapper"}, version : 1..3, secret : Secrets,
            value : Held, encrypted_data : FieldStates,
            iv : FieldStates, check : FieldStates]
Items == [Keys -> Plain \cup Wrapper]

(* Every variable has its type: all numbers that come out of the encoding  *)
(* are numbers again, and every error is one of those of the file.         *)
ItemTypeOK ==
    /\ stored \in Items
    /\ phase \in [Users -> {"idle", "loaded", "saved", "notEncrypted",
                              "auth", "encryptErr", "updateErr"}]
    /\ seen \in [Users -> Items]
    /\ held \in [Users -> [Keys -> Held]]
    /\ lateItems \subseteq Items
    /\ damage \in 0..MaxDamage
    /\ forged \subseteq Keys

InTheClear(v) == [kind |-> "plain", value |-> v]

Wrap(version, secret, v) ==
    [kind |-> "wrapper", version |-> version, secret |-> secret, value |-> v,
     encrypted_data |-> "intact", iv |-> "intact", check |-> "intact"]

encryptValueV3(secret, v) == Wrap(3, secret, v)

(* The item is in the clear, or was encrypted by one of the older tools.   *)
ItemInit ==
    /\ \E values \in [Keys -> Numbers] :
        /\ \A k \in Keys : values[k] \in Inputs[k]
        /\ \/ stored = [k \in Keys |-> InTheClear(values[k])]
           \/ \E version \in 1..2, s \in Secrets :
                stored = [k \in Keys |-> Wrap(version, s, values[k])]
    /\ phase = [c \in Users |-> "idle"]
    /\ seen = [c \in Users |-> stored]
    /\ held = [c \in Users |-> [k \in Keys |-> Wrong]]
    /\ lateItems = {}
    /\ damage = 0
    /\ forged = {}

-----------------------------------------------------------------------------
(* Decryption. What may come out of a step is a set of pairs <<"ok", ...>> *)
(* and <<"err", ...>>.                                                     *)

Err(e) == {<<"err", e>>}
NotEncrypted == Err("notEncrypted")
Auth == Err("auth")

(* parseWrapper returns no error.                                          *)
parseWrapper(e) ==
    /\ e.kind = "wrapper"
    /\ e.version \in 1..3
    /\ e.encrypted_data # "missing"
    /\ e.iv # "missing"
    /\ e.version \in {2, 3} => e.check # "missing"

(* Mutated: the HMAC is made over the decoded data, which are not what was *)
(* signed.                                                                 *)
verifyHMACDecoded(secret, w) == Auth

(* The errors of verifyHMAC. The message is encrypted_data as it is        *)
(* stored, white space and all, the key the secret itself.                 *)
verifyHMAC(secret, w) ==
    IF w.check = "garbled" THEN NotEncrypted
    ELSE IF /\ Same(w.check) /\ w.encrypted_data = "intact"
            /\ secret = w.secret
         THEN {} ELSE Auth

(* An empty nonce is refused; one of any other length is tried.            *)
decryptGCM(secret, w) ==
    IF "garbled" \in {w.encrypted_data, w.iv, w.check} THEN NotEncrypted
    ELSE IF /\ Same(w.encrypted_data) /\ Same(w.iv) /\ Same(w.check)
            /\ secret = w.secret
         THEN {<<"ok", "box">>}
         ELSE Auth \cup (IF w.iv = "resized" THEN NotEncrypted ELSE {})

(* The plaintext is the box that was encrypted, or noise that has no valid *)
(* padding or is no JSON object, or an object with another key, or the box *)
(* of an altered value. {"json_wrapper": is 16 bytes long, the whole first *)
(* block: another iv changes the key and nothing else.                     *)
decryptCBC(secret, w) ==
    IF w.encrypted_data = "garbled" \/ w.iv \in {"garbled", "resized"}
    THEN NotEncrypted
    ELSE IF secret # w.secret THEN {<<"ok", "noise">>}
    ELSE IF ~Same(w.encrypted_data)
         THEN {<<"ok", "noise">>, <<"ok", "altered">>}
    ELSE IF ~Same(w.iv) THEN {<<"ok", "noise">>, <<"ok", "otherKey">>}
    ELSE {<<"ok", "box">>}

(* What json.Unmarshal makes of a number: the nearest float64, and of two  *)
(* the one with the even mantissa, which needs a bit less.                 *)
Distance(n, f) == IF n < f THEN f - n ELSE n - f
Nearest(n) ==
    {f \in Floats : \A g \in Floats : Distance(n, f) <= Distance(n, g)}
Rounded ==
    [n \in Numbers |->
        LET even == Nearest(n) \cap FloatsOf(Mantissa - 1)
        IN  CHOOSE f \in Nearest(n) : even # {} => f \in even]
Float64(n) == IF n = Wrong THEN n ELSE Rounded[n]

(* Mutated: a missing json_wrapper is no error, and its value is nil.      *)
unboxValueAnyKey(plaintext, w) ==
    CASE plaintext = "box" -> {<<"ok", Float64(w.value)>>}
      [] plaintext \in {"altered", "otherKey"} -> {<<"ok", Wrong>>}
      [] plaintext = "noise" -> Auth

unboxValue(plaintext, w) ==
    CASE plaintext = "box" -> {<<"ok", Float64(w.value)>>}
      [] plaintext = "altered" -> {<<"ok", Wrong>>}
      [] plaintext \in {"otherKey", "noise"} -> Auth

(* Mutated: the HMAC of version 2 is not verified.                         *)
decryptUnverified(secret, w) ==
    LET opened == IF w.version = 3 THEN decryptGCM(secret, w)
                  ELSE decryptCBC(secret, w)
    IN  UNION {IF o[1] = "ok" THEN unboxValue(o[2], w) ELSE {o} : o \in opened}

decrypt(secret, w) ==
    LET mac == IF w.version = 2 THEN verifyHMAC(secret, w) ELSE {}
        opened == IF w.version = 3 THEN decryptGCM(secret, w)
                  ELSE IF mac # {} THEN mac
                  ELSE decryptCBC(secret, w)
    IN  UNION {IF o[1] = "ok" THEN unboxValue(o[2], w) ELSE {o} : o \in opened}

(* Decrypt, of one value.                                                  *)
Outcomes(secret, e) ==
    IF parseWrapper(e) THEN decrypt(secret, e) ELSE NotEncrypted

-----------------------------------------------------------------------------
(* The clients.                                                            *)

(* Items.Get and DataBagItem.Decrypt. The values are decrypted in the      *)
(* random order of a Go map, so that any error may be the one returned.    *)
Load(c) ==
    /\ seen' = [seen EXCEPT ![c] = stored]
    /\ \/ \E values \in [Keys -> Held] :
            /\ \A k \in Keys :
                <<"ok", values[k]>> \in Outcomes(ReadSecret[c], stored[k])
            /\ held' = [held EXCEPT ![c] = values]
            /\ phase' = [phase EXCEPT ![c] = "loaded"]
       \/ \E k \in Keys, e \in {"notEncrypted", "auth"} :
            /\ <<"err", e>> \in Outcomes(ReadSecret[c], stored[k])
            /\ held' = [held EXCEPT ![c] = [j \in Keys |-> Wrong]]
            /\ phase' = [phase EXCEPT ![c] = e]
    /\ UNCHANGED <<stored, lateItems, damage, forged>>

(* Items.Update, a PUT that is sent once: it is served, and the reply may  *)
(* be lost; or it fails and is not served, or only later.                  *)
Update(c, item) ==
    \/ /\ stored' = item
       /\ \E p \in {"saved", "updateErr"} : phase' = [phase EXCEPT ![c] = p]
       /\ UNCHANGED lateItems
    \/ /\ phase' = [phase EXCEPT ![c] = "updateErr"]
       /\ \/ UNCHANGED lateItems
          \/ /\ Cardinality(lateItems) < MaxLate
             /\ lateItems' = lateItems \cup {item}
       /\ UNCHANGED stored

(* The caller sets one value; DataBagItem.Encrypt, of all values, and      *)
(* Items.Update.                                                           *)
Save(c, k, v) ==
    /\ phase[c] = "loaded"
    /\ Update(c, [j \in Keys |->
                    encryptValueV3(WriteSecret[c],
                                   IF j = k THEN v ELSE held[c][j])])
    /\ UNCHANGED <<seen, held, damage, forged>>

(* The caller has set a value that json.Marshal refuses, or removed the id *)
(* without which Encrypt and Update refuse the item: nothing is sent.      *)
EncryptFails(c) ==
    /\ phase[c] = "loaded"
    /\ phase' = [phase EXCEPT ![c] = "encryptErr"]
    /\ UNCHANGED <<stored, seen, held, lateItems, damage, forged>>

(* External: an update is served whose caller has long been told that it   *)
(* failed.                                                                 *)
ServeLateItem(item) ==
    /\ stored' = item
    /\ lateItems' = lateItems \ {item}
    /\ UNCHANGED <<phase, seen, held, damage, forged>>

(* External: a field of a stored wrapper is damaged.                       *)
Damage(k, state) ==
    /\ damage < MaxDamage
    /\ stored[k].kind = "wrapper"
    /\ \/ /\ stored' = [stored EXCEPT ![k].encrypted_data = state]
          /\ forged' = IF stored[k].version = 1 /\ ~Same(state)
                       THEN forged \cup {k} ELSE forged
       \/ /\ \/ stored' = [stored EXCEPT ![k].iv = state]
             \/ stored' = [stored EXCEPT ![k].check = state]
          /\ UNCHANGED forged
    /\ damage' = damage + 1
    /\ UNCHANGED <<phase, seen, held, lateItems>>

ItemNext ==
    \/ \E c \in Users : Load(c) \/ EncryptFails(c)
    \/ \E c \in Users, k \in Keys : \E v \in Inputs[k] : Save(c, k, v)
    \/ \E item \in lateItems : ServeLateItem(item)
    \/ \E k \in Keys, state \in FieldStates \ {"intact"} : Damage(k, state)

ItemSpec == ItemInit /\ [][ItemNext]_itemVars

-----------------------------------------------------------------------------
(* Properties.                                                             *)

Loaded(c) == phase[c] \in {"loaded", "saved", "encryptErr", "updateErr"}

(* Decrypt returns a value only to a caller that has its secret, and then  *)
(* the value that was put there, whatever was damaged: versions 2 and 3    *)
(* notice all of it. The HMAC of version 2 does not cover the iv; what it  *)
(* would change is the json_wrapper key, which unboxValue looks for. Only  *)
(* changed data of version 1 may come out as another value.                *)
NeverWrong ==
    \A c \in Users, k \in Keys :
        Loaded(c) =>
            LET e == seen[c][k] IN
            /\ e.kind = "wrapper" /\ e.secret = ReadSecret[c]
            /\ \/ held[c][k] = Float64(e.value)
               \/ e.version = 1 /\ ~Same(e.encrypted_data)

Tampered(e) == \/ {e.encrypted_data, e.iv, e.check}
                    \cap {"changed", "resized"} # {}
               \/ e.version = 2 /\ e.encrypted_data # "intact"

(* Decrypt's two errors can be told apart. ErrDataBagAuth: some value is   *)
(* of another secret or its wrapper was tampered with, so that trying      *)
(* another secret makes sense. ErrNotEncrypted: some value is no wrapper,  *)
(* or its wrapper is broken; never merely the wrong secret.                *)
ErrorsTell ==
    \A c \in Users :
        /\ phase[c] = "auth" =>
            \E k \in Keys : LET e == seen[c][k] IN
                /\ e.kind = "wrapper"
                /\ e.secret # ReadSecret[c] \/ Tampered(e)
        /\ phase[c] = "notEncrypted" =>
            \E k \in Keys : LET e == seen[c][k] IN
                \/ e.kind = "plain"
                \/ {e.encrypted_data, e.iv, e.check}
                    \cap {"garbled", "missing", "resized"} # {}

(* Nothing drifts and nothing wrong spreads: however often the item is     *)
(* loaded, and all its values saved again, by callers with different       *)
(* secrets, at once, late or in updates reported as failed, each value is  *)
(* one that was put under that key, rounded to a float64 once at most.     *)
(* Damage is refused before it can be saved as a value, except where       *)
(* changed data of version 1 have passed for one.                          *)
FromCaller(k, v) ==
    \/ v \in Inputs[k] \/ \E n \in Inputs[k] : v = Float64(n)
    \/ v = Wrong /\ k \in forged

NoDrift == \A k \in Keys : FromCaller(k, stored[k].value)

-----------------------------------------------------------------------------
(* The inductive invariant: not only what is stored, but also what is held *)
(* and what is still under way comes from the callers.                     *)

SourceInv ==
    /\ \A item \in lateItems, k \in Keys :
        FromCaller(k, item[k].value) /\ item[k].version = 3
    /\ \A c \in Users, k \in Keys : Loaded(c) => FromCaller(k, held[c][k])
    /\ \A k \in Keys :
        /\ stored[k].kind = "wrapper" /\ stored[k].version = 1
        /\ ~Same(stored[k].encrypted_data)
        => k \in forged

ItemInv == ItemTypeOK /\ NeverWrong /\ ErrorsTell /\ NoDrift /\ SourceInv

=============================================================================
