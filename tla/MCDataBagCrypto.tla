-------------------------- MODULE MCDataBagCrypto --------------------------
(***************************************************************************)
(* Two clients that edit an item of two values: one moves it from the old  *)
(* secret to the new one, the other uses the new one only. With a mantissa *)
(* of two bits, 5 and 7 are numbers that a float64 cannot hold.            *)
(***************************************************************************)
EXTENDS DataBagCrypto

CONSTANTS k1, k2, old, new, mover, user

MCKeys == {k1, k2}
MCInputs == [k \in MCKeys |-> IF k = k1 THEN {5} ELSE {7}]
MCSecrets == {old, new}
MCUsers == {mover, user}
MCReadSecret == [c \in MCUsers |-> IF c = mover THEN old ELSE new]
MCWriteSecret == [c \in MCUsers |-> new]

=============================================================================
