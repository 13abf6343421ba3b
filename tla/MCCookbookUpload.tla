-------------------------- MODULE MCCookbookUpload --------------------------
(* Two structs that share a content, one of them with the same content in  *)
(* two files; one struct is uploaded as a version and as an artifact at    *)
(* the same time. One caller repeats a failed upload, and one uploads an   *)
(* artifact without an identifier.                                         *)
EXTENDS CookbookUpload, TLC

CONSTANTS a, b, app, base, u1, u2, u3

MCChecksums == {a, b}
MCCookbooks == {app, base}
MCFilesOf == app :> <<a, b, a>> @@ base :> <<b>>
MCUploads == {u1, u2, u3}
MCCookbookOf == u1 :> app @@ u2 :> app @@ u3 :> base
MCMaxCalls == u1 :> 2 @@ u2 :> 1 @@ u3 :> 1
MCIsArtifact == u1 :> FALSE @@ u2 :> TRUE @@ u3 :> TRUE
MCIdentifiers == {"", "id1", "id2"}
MCIdentifierOf == u1 :> "" @@ u2 :> "id1" @@ u3 :> ""
MCFieldOf == app :> "" @@ base :> "id2"
=============================================================================
