------------------------------ MODULE MCAclEdit ------------------------------
(* A grant of all permissions, which some entries hold already, a          *)
(* revocation of one of them, a grant that changes nothing and one with an *)
(* unknown permission, at once.                                            *)
EXTENDS AclEdit, TLC

CONSTANTS alice, bob, admins, ops, e1, e2, e3, e4

MCActors == {alice, bob}
MCGroups == {admins, ops}
MCEditors == {e1, e2, e3, e4}
MCPermOf == e1 :> "all" @@ e2 :> "update" @@ e3 :> "grant" @@ e4 :> "bogus"
MCOpOf == [e \in MCEditors |-> IF e = e2 THEN "remove" ELSE "add"]
MCActorsOf == e1 :> <<bob, bob>> @@ e2 :> <<alice, bob>> @@ e3 :> <<alice>>
              @@ e4 :> <<bob>>
MCGroupsOf == e1 :> <<ops>> @@ e2 :> <<ops>> @@ e3 :> <<>> @@ e4 :> <<>>
MCInitialACL ==
    [p \in Perms |->
        CASE p = "read" -> [actors |-> <<alice, bob>>, groups |-> <<ops>>]
          [] p = "update" -> [actors |-> <<alice>>, groups |-> <<admins, ops>>]
          [] OTHER -> [actors |-> <<alice>>, groups |-> <<admins>>]]
=============================================================================
