----------------------------- MODULE MCNodeEdit -----------------------------
(* Four editors at once: one adds and removes tags, one of them twice; one *)
(* edits the run list and reports automatic attributes; one deletes the    *)
(* node, and one creates it anew. Among the tags is a value that is no     *)
(* string, or the tags are no array, and an attribute is in several scopes *)
(* and nested in some of them.                                             *)
EXTENDS NodeEdit, TLC

CONSTANTS web, db, core, policy, tagger, lister, remover, maker

MCStrings == {web, db, core}
MCKeys == {"tags", "net", "ip", "v4"}
MCEditors == {tagger, lister, remover, maker}
E(op, items) == [op |-> op, items |-> items]
MCEditsOf ==
    tagger :> <<E("addTags", <<db, web, db>>), E("removeTags", <<web>>)>> @@
    lister :> <<E("addRunList", <<db, core, db>>),
                E("removeRunList", <<web>>), E("report", <<>>)>> @@
    remover :> <<>> @@
    maker :> <<E("addTags", <<web, web>>)>>
MCMethodOf == [e \in MCEditors |-> CASE e = remover -> "remove"
                                     [] e = maker -> "create"
                                     [] OTHER -> "update"]

Ip(s) == "net" :> Map("ip" :> String(s))
MCReportOf == [e \in MCEditors |-> Ip(db)]
MCNodes ==
    {[NewNode EXCEPT !.runList = <<web, core>>,
          !.normal = "tags" :> Array(<<String(web), Number, String(core)>>)
                     @@ Ip(web),
          !.settings = policy,
          !.override = "net" :> Array(<<String(core)>>),
          !.default = "net" :> Map("ip" :> Map("v4" :> String(core)))],
     [NewNode EXCEPT !.normal = "tags" :> String(web) @@ "net" :> Map(EmptyMap),
          !.override = "ip" :> Array(<<>>), !.default = Ip(core)]}
MCNames == {<<"tags">>, <<"net">>, <<"net", "ip">>, <<"net", "ip", "v4">>,
            <<"ip">>}
=============================================================================
