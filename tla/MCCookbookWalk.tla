---------------------------- MODULE MCCookbookWalk ----------------------------
(* A recipe, two files of tests in nested directories and one of a nested  *)
(* directory of the same name; patterns for a bare name, for the entries   *)
(* of a directory, for a nested path and for names with an extension.      *)
EXTENDS CookbookWalk

MCDirs == {<<"spec">>, <<"spec", "unit">>, <<"lib">>, <<"lib", "spec">>}
MCTreeFiles == {<<"a.rb">>, <<"spec", "b.rb">>, <<"spec", "unit", "c.md">>,
            <<"lib", "spec", "d.rb">>}
MCGlobs == {"*", "*.md", "spec", "lib", "unit"}
MCGlobMatches == [g \in MCGlobs |->
    CASE g = "*" -> {"a.rb", "b.rb", "c.md", "d.rb", "spec", "unit", "lib"}
      [] g = "*.md" -> {"c.md"}
      [] OTHER -> {g}]
MCLines == {<<"unit">>, <<"spec", "*">>, <<"lib", "spec">>, <<"*.md">>, <<"spec">>}
=============================================================================
