-------------------------- MODULE MCCookbookDownload --------------------------
(* Two versions of a cookbook are downloaded to the same directory, one    *)
(* with a flat manifest and one with segments and a path that leaves the   *)
(* directory and comes back. A third is downloaded to the directory above  *)
(* and writes there too, with a file in the place of a directory of its    *)
(* own; a fourth manifest has a path that leads out. The contents of one   *)
(* file are of different lengths.                                          *)
EXTENDS CookbookDownload, TLC

CONSTANTS d1, d2, d3, d4, b1, b2

MCBytes == {b1, b2}
v1 == <<b1, b1>>
v2 == <<b2>>

F(path, content) == [path |-> path, content |-> content]
MCDownloads == {d1, d2, d3, d4}
MCDirOf == d1 :> <<"tmp", "cb">> @@ d2 :> <<"tmp", "cb">>
           @@ d3 :> <<"tmp">> @@ d4 :> <<"tmp", "cb4">>
MCAllFiles == d1 :> <<F(<<"a.rb">>, v1), F(<<"recipes", "x.rb">>, v1)>>
              @@ d2 :> <<>>
              @@ d3 :> <<F(<<"cb", "a.rb">>, v2), F(<<"cb", "a.rb", "x">>, v1)>>
              @@ d4 :> <<F(<<"x">>, v1), F(<<"x", "..", "..", "cb5">>, v1)>>
MCSegments == [d \in MCDownloads |->
    IF d = d2 THEN << <<>>, <<F(<<"..", "cb", "recipes", "x.rb">>, v2)>> >>
              ELSE <<>>]
=============================================================================
