--------------------------- MODULE MCSignedClient ---------------------------
(* Two Clients, of one http.Client with a Timeout and a Transport, of one  *)
(* without Timeout and with a Transport that skips the verification, or of *)
(* the default one. Names that are empty or begin a query make the paths   *)
(* that have to be made canonical, and the others those that are not sent  *)
(* as they were signed, or not at all. One key makes signatures that fill  *)
(* their last line. The unit of time is longer than the server's patience, *)
(* so that each attempt of a call, and each retry, may come too late.      *)
EXTENDS SignedClient, TLC

CONSTANTS c1, c2, tuned, bare, default, nilClient, tuning, other

MCHttpClients == {tuned, bare}
MCHasTimeout == tuned :> TRUE @@ bare :> FALSE @@ default :> TRUE
MCTransportOf == tuned :> tuning @@ bare :> other @@ default :> NilTransport
MCInsecure == {other}
MCRetries == {-1, 0}
MCURLs == {<<"/", "organizations", "/", Org, "/">>, <<"/", "organizations">>,
           <<"/", "organizations", "/", "/", Org>>}
MCNames == {<<>>, <<"/", "?", "name">>, <<"#">>, <<" ">>, <<"%">>}
MCSignatureLength == c1 :> 344 @@ c2 :> 240
=============================================================================
