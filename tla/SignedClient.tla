---------------------------- MODULE SignedClient ----------------------------
(***************************************************************************)
(* How a Client is made and how each of its requests is signed: the server *)
(* URL is parsed (serverurl.go), NewClient (client.go) applies the options *)
(* (options.go) one after the other, and every call builds its path, and   *)
(* signs each attempt of doRaw's loop anew (transport.go and               *)
(* internal/signing). Several Clients are made in one process, of the same *)
(* http.Client or of others, before or after others are in use.            *)
(* Initial predicate, next-state relation and their like are named         *)
(* SignedInit, SignedNext, ... so that a module can extend this one along  *)
(* with another.                                                           *)
(*                                                                         *)
(* A URL path is a sequence of the characters "/", "?" and "#", of " " for *)
(* any character that a URL holds only in escaped form, of "%" for an      *)
(* escape that is malformed, and of words of other characters; behind "?"  *)
(* nothing matters. Times are in units of the server's patience. The       *)
(* server is external: it checks every signature against the path as it    *)
(* was sent and the time at which it gets the request, and may take its    *)
(* time, hang or fail. What a request does there, also when it arrives     *)
(* late, is the subject of Transport.                                      *)
(***************************************************************************)
EXTENDS Integers, Sequences, SequencesExt

CONSTANTS
    Clients,           \* Clients that are made
    HttpClients,       \* http.Clients of the caller
    NilHttpClient,     \* nil in place of one
    DefaultClient,     \* the http.Client of defaultOptions
    HasTimeout,        \* whether the Timeout of each is set
    TransportOf,       \* the Transport of each
    NilTransport,      \* nil in place of one
    DefaultTransport,  \* http.DefaultTransport
    Insecure,          \* Transports with InsecureSkipVerify from the start
    Retries,           \* arguments of WithMaxRetries
    URLs,              \* paths of the URLs that hold server and organization
    Names,             \* names of objects, as they stand in a path
    SignatureLength,   \* characters of a signature, by the Client's key
    Skew,              \* how much older than now a timestamp may be
    MaxTime,           \* bound on the clock
    MaxCalls           \* bound on the calls of all Clients together

Supplied == HttpClients \cup {NilHttpClient}
Effective == HttpClients \cup {DefaultClient}
Transports == ({TransportOf[h] : h \in Effective} \ {NilTransport})
                  \cup {DefaultTransport}

ASSUME ClientAssumption ==
    /\ NilHttpClient \notin Effective
    /\ HasTimeout \in [Effective -> BOOLEAN]
    /\ DOMAIN TransportOf = Effective
    /\ HasTimeout[DefaultClient] /\ TransportOf[DefaultClient] = NilTransport
    /\ Insecure \subseteq Transports /\ Transports \cap Clients = {}
ASSUME PathAssumption == Names \subseteq Seq(STRING)
ASSUME LimitsAssumption ==
    /\ Retries \subseteq Int
    /\ SignatureLength \in [Clients -> Nat]
    /\ Skew \in Nat /\ MaxTime \in Nat /\ MaxCalls \in Nat

VARIABLES
    stage,             \* where each Client is
    org,               \* its organization
    opts,              \* its options
    timeout,           \* its http.Client has a Timeout
    transport,         \* the Transport it uses; a clone has the Client's name
    insecure,          \* Transports that do not verify certificates
    method, path,      \* of the call it makes
    attempt,           \* doRaw's retry counter
    request,           \* the request of the current attempt
    reply,             \* what the server made of it
    calls,             \* calls begun so far
    now                \* the clock

clientVars == <<org, opts, timeout, transport, insecure>>
callVars == <<method, path, attempt>>
signedVars == <<stage, clientVars, callVars, request, reply, calls, now>>

defaultOptions ==
    [httpClient |-> DefaultClient, skipTLSVerify |-> FALSE, maxRetries |-> 2]

None == [none |-> TRUE]
Org == "org"
NoOrg == ""

SignedInit ==
    /\ stage = [c \in Clients |-> "url"]
    /\ org = [c \in Clients |-> NoOrg]
    /\ opts = [c \in Clients |-> defaultOptions]
    /\ timeout = [c \in Clients |-> FALSE]
    /\ transport = [c \in Clients |-> NilTransport]
    /\ insecure = Insecure
    /\ method = [c \in Clients |-> "GET"]
    /\ path = [c \in Clients |-> <<>>]
    /\ attempt = [c \in Clients |-> 0]
    /\ request = [c \in Clients |-> None]
    /\ reply = [c \in Clients |-> None]
    /\ calls = 0
    /\ now = 0

(* Where a Client is that is not made, or not yet.                         *)
Setting == {"url", "invalid", "options"}

Goto(c, step) == stage' = [stage EXCEPT ![c] = step]

-----------------------------------------------------------------------------
(* Paths.                                                                  *)

IsSlash(t) == t = "/"

(* strings.TrimLeft and TrimRight of "/".                                  *)
TrimLeft(p) ==
    LET solid == {i \in DOMAIN p : ~IsSlash(p[i])}
    IN  IF solid = {} THEN <<>>
        ELSE SubSeq(p, CHOOSE i \in solid : \A j \in solid : i <= j, Len(p))
TrimRight(p) == Reverse(TrimLeft(Reverse(p)))

(* ParseServerURL: exactly "organizations" and a word, or an error.        *)
ParseServerURL(p) ==
    LET trimmed == TrimRight(TrimLeft(p))
    IN  IF Len(trimmed) = 3 /\ SubSeq(trimmed, 1, 2) = <<"organizations", "/">>
        THEN trimmed[3] ELSE NoOrg

orgPath(o, p) == <<"/", "organizations", "/", o, "/">> \o TrimLeft(p)

(* The paths of the services: of a collection, of one object, of a search  *)
(* and of the keys of a client. Names go in as they are, empty ones too.   *)
collPath(o) == orgPath(o, <<"/", "nodes">>)
itemPath(o, name) == orgPath(o, <<"/", "nodes", "/">> \o name)
searchPath(o) == orgPath(o, <<"/", "search", "/", "node">>) \o <<"?", "query">>
keysPath(o, name) ==
    orgPath(o, <<"/", "clients", "/">> \o name \o <<"/", "keys">>)

Paths(o) == {collPath(o), searchPath(o)}
                \cup {itemPath(o, name) : name \in Names}
                \cup {keysPath(o, name) : name \in Names}

HasDouble(p) == \E i \in 2..Len(p) : IsSlash(p[i]) /\ IsSlash(p[i - 1])

StripLast(p) ==
    IF Len(p) > 1 /\ IsSlash(p[Len(p)]) THEN SubSeq(p, 1, Len(p) - 1) ELSE p

(* The characters at some places of a path.                                *)
Kept(p, places) ==
    LET kept[n \in 0..Len(p)] ==
            IF n = 0 THEN <<>>
            ELSE IF n \in places THEN Append(kept[n - 1], p[n])
            ELSE kept[n - 1]
    IN  kept[Len(p)]

(* The loop of CanonicalPath: a slash after a slash is not written.        *)
Written(p) ==
    {i \in DOMAIN p : i = 1 \/ ~IsSlash(p[i]) \/ ~IsSlash(p[i - 1])}
Collapse(p) == Kept(p, Written(p))

(* CanonicalPath, with its fast path.                                      *)
CanonicalPath(p) ==
    IF p = <<>> THEN <<"/">>
    ELSE IF HasDouble(p) THEN StripLast(Collapse(p)) ELSE StripLast(p)

(* What stands before the first mark.                                      *)
Before(p, mark) ==
    LET marks == {i \in DOMAIN p : p[i] = mark}
    IN  IF marks = {} THEN p
        ELSE SubSeq(p, 1, (CHOOSE i \in marks : \A j \in marks : i <= j) - 1)

(* The path without the query string.                                      *)
BeforeQuery(p) == Before(p, "?")

(* What http.NewRequestWithContext makes of a path, and http.Client sends: *)
(* a fragment is cut off, and before the query every character is escaped  *)
(* that has to be. A malformed escape there or in the fragment is an error.*)
Visible(p) == Before(p, "#")
SentPath(p) ==
    [i \in DOMAIN Visible(p) |->
        IF p[i] = " " /\ i \in DOMAIN BeforeQuery(Visible(p)) THEN "%20"
        ELSE p[i]]
Malformed(p) ==
    \E i \in DOMAIN p :
        p[i] = "%" /\ \/ i \in DOMAIN BeforeQuery(Visible(p))
                      \/ i \notin DOMAIN Visible(p)

(* chunk60: the signature in header lines, as first and last character.    *)
chunk60(length) ==
    [k \in 1..((length + 59) \div 60) |->
         <<60 * (k - 1) + 1, IF 60 * k < length THEN 60 * k ELSE length>>]

-----------------------------------------------------------------------------
(* Making a Client.                                                        *)

Parse(c) ==
    /\ stage[c] = "url"
    /\ \E url \in URLs :
        /\ org' = [org EXCEPT ![c] = ParseServerURL(url)]
        /\ Goto(c, IF ParseServerURL(url) = NoOrg THEN "invalid"
                                                  ELSE "options")
    /\ UNCHANGED <<opts, timeout, transport, insecure, callVars, request,
                   reply, calls, now>>

SetOption(c, o) ==
    /\ stage[c] = "options"
    /\ opts' = [opts EXCEPT ![c] = o]
    /\ UNCHANGED <<stage, org, timeout, transport, insecure, callVars, request,
                   reply, calls, now>>

WithHTTPClient(c, h) ==
    SetOption(c, IF h = NilHttpClient THEN opts[c]
                 ELSE [opts[c] EXCEPT !.httpClient = h])
WithSkipTLSVerify(c, skip) ==
    SetOption(c, [opts[c] EXCEPT !.skipTLSVerify = skip])
WithMaxRetries(c, n) ==
    SetOption(c, IF n < 0 THEN opts[c] ELSE [opts[c] EXCEPT !.maxRetries = n])

TransportUsed(h) == IF TransportOf[h] = NilTransport THEN DefaultTransport
                                                     ELSE TransportOf[h]

Built(c) == Goto(c, "idle") /\ UNCHANGED <<org, opts, callVars, request, reply,
                                           calls, now>>

(* Mutated: the Transport is not cloned, but changed.                      *)
NewClientInPlace(c) ==
    /\ stage[c] = "options"
    /\ LET h == opts[c].httpClient
       IN  /\ timeout' = [timeout EXCEPT ![c] = HasTimeout[h]]
           /\ transport' = [transport EXCEPT ![c] = TransportUsed(h)]
           /\ insecure' = IF opts[c].skipTLSVerify
                          THEN insecure \cup {TransportUsed(h)} ELSE insecure
    /\ Built(c)

(* Mutated: the Timeout is not taken over.                                 *)
NewClientNoTimeout(c) ==
    /\ stage[c] = "options"
    /\ LET h == opts[c].httpClient
           skip == opts[c].skipTLSVerify
       IN  /\ timeout' = [timeout EXCEPT ![c] = HasTimeout[h] /\ ~skip]
           /\ transport' = [transport EXCEPT
                  ![c] = IF skip THEN c ELSE TransportUsed(h)]
           /\ insecure' = IF skip THEN insecure \cup {c} ELSE insecure
    /\ Built(c)

(* NewClient after the options. A clone, of the Transport in use or of     *)
(* http.DefaultTransport if that one is no *http.Transport, is a Transport *)
(* of its own that does not verify.                                        *)
NewClient(c) ==
    /\ stage[c] = "options"
    /\ LET h == opts[c].httpClient
       IN  /\ timeout' = [timeout EXCEPT ![c] = HasTimeout[h]]
           /\ IF opts[c].skipTLSVerify
              THEN /\ transport' = [transport EXCEPT ![c] = c]
                   /\ insecure' = insecure \cup {c}
              ELSE /\ transport' = [transport EXCEPT ![c] = TransportUsed(h)]
                   /\ UNCHANGED insecure
    /\ Built(c)

-----------------------------------------------------------------------------
(* Calls.                                                                  *)

BeginCall(c) ==
    /\ stage[c] = "idle"
    /\ calls < MaxCalls
    /\ calls' = calls + 1
    /\ \E m \in {"GET", "PUT"}, p \in Paths(org[c]) :
        /\ method' = [method EXCEPT ![c] = m]
        /\ path' = [path EXCEPT ![c] = p]
    /\ attempt' = [attempt EXCEPT ![c] = 0]
    /\ Goto(c, "attempt")
    /\ UNCHANGED <<clientVars, request, reply, now>>

(* Mutated: the timestamp is taken once, when the process begins.          *)
SignCachedTime(c) == [path |-> CanonicalPath(BeforeQuery(path[c])),
                      time |-> 0, lines |-> chunk60(SignatureLength[c])]

(* SignHeaders, with the time of this attempt.                             *)
Sign(c) == [path |-> CanonicalPath(BeforeQuery(path[c])), time |-> now,
            lines |-> chunk60(SignatureLength[c])]

(* doOnce builds the request, signs the path it was given and sends the    *)
(* path that was made of it.                                               *)
Send(c) ==
    /\ stage[c] = "attempt"
    /\ ~Malformed(path[c])
    /\ request' = [request EXCEPT ![c] =
           [path |-> SentPath(path[c]), signature |-> Sign(c), sent |-> now]]
    /\ Goto(c, "wait")
    /\ UNCHANGED <<clientVars, callVars, reply, calls, now>>

Ends(c) == Goto(c, "idle") /\ UNCHANGED attempt

(* The decision of doRaw, as in Transport.                                 *)
Again(c) == Goto(c, "attempt") /\ attempt' = [attempt EXCEPT ![c] = @ + 1]

Transient(c) ==
    IF method[c] = "GET" /\ attempt[c] < opts[c].maxRetries
    THEN Again(c) ELSE Ends(c)

Forget(c) == /\ request' = [request EXCEPT ![c] = None]
             /\ reply' = [reply EXCEPT ![c] = None]
             /\ UNCHANGED <<clientVars, method, path, calls, now>>

(* The request cannot be built. There is no response, and doRaw takes the  *)
(* error for one of the network.                                           *)
BuildFails(c) ==
    /\ stage[c] = "attempt"
    /\ Malformed(path[c])
    /\ Transient(c)
    /\ UNCHANGED <<clientVars, method, path, request, reply, calls, now>>

(* A reply arrives, or the connection breaks.                              *)
Receive(c) ==
    /\ stage[c] = "wait"
    /\ reply[c] # None
    /\ IF reply[c].status = 503 THEN Transient(c) ELSE Ends(c)
    /\ Forget(c)

NetError(c) ==
    /\ stage[c] = "wait"
    /\ Transient(c)
    /\ Forget(c)

(* The Timeout of the http.Client ends the call, without another attempt,  *)
(* and so does the context of the call.                                    *)
TimeOut(c) ==
    /\ stage[c] = "wait"
    /\ timeout[c]
    /\ Ends(c)
    /\ Forget(c)

Cancel(c) ==
    /\ stage[c] = "wait"
    /\ Ends(c)
    /\ Forget(c)

-----------------------------------------------------------------------------
(* The server (external), and time.                                        *)

(* Its own reading of a path: of each run of slashes the first counts, and *)
(* not even that one at the end of the path.                               *)
Counted(p) ==
    {i \in DOMAIN p :
        \/ ~IsSlash(p[i])
        \/ i = 1
        \/ ~IsSlash(p[i - 1]) /\ \E j \in i..Len(p) : ~IsSlash(p[j])}
Served(p) == Kept(BeforeQuery(p), Counted(BeforeQuery(p)))

(* The lines of the signature: none is empty or too long, and joined they  *)
(* are the signature.                                                      *)
Whole(lines, length) ==
    /\ IF lines = <<>> THEN length = 0
       ELSE lines[1][1] = 1 /\ lines[Len(lines)][2] = length
    /\ \A k \in 2..Len(lines) : lines[k][1] = lines[k - 1][2] + 1
    /\ \A k \in 1..Len(lines) : lines[k][2] - lines[k][1] \in 0..59

Verified(c) ==
    LET signature == request[c].signature
    IN  /\ signature.path = Served(request[c].path)
        /\ now - signature.time <= Skew
        /\ Whole(signature.lines, SignatureLength[c])

Answer(c) ==
    /\ stage[c] = "wait"
    /\ request[c] # None /\ reply[c] = None
    /\ \E status \in IF Verified(c) THEN {200, 404, 503} ELSE {401} :
        reply' = [reply EXCEPT ![c] = [status |-> status, time |-> now]]
    /\ UNCHANGED <<stage, clientVars, callVars, request, calls, now>>

Tick ==
    /\ now < MaxTime
    /\ now' = now + 1
    /\ UNCHANGED <<stage, clientVars, callVars, request, reply, calls>>

-----------------------------------------------------------------------------
Setup(c) ==
    \/ Parse(c)
    \/ \E h \in Supplied : WithHTTPClient(c, h)
    \/ \E skip \in BOOLEAN : WithSkipTLSVerify(c, skip)
    \/ \E n \in Retries : WithMaxRetries(c, n)
    \/ NewClient(c)

Proceed(c) == Send(c) \/ BuildFails(c) \/ Receive(c) \/ TimeOut(c)

Quiet ==
    /\ \A c \in Clients : stage[c] \in {"idle", "invalid"}
    /\ UNCHANGED signedVars

SignedNext ==
    \/ \E c \in Clients : \/ Setup(c) \/ BeginCall(c) \/ Proceed(c)
                          \/ NetError(c) \/ Cancel(c) \/ Answer(c)
    \/ Tick
    \/ Quiet

SignedSpec == SignedInit /\ [][SignedNext]_signedVars

(* A goroutine runs on, and a Timeout that is set passes. Nothing is       *)
(* assumed of the server, of the caller or of other Timeouts.              *)
SignedFairSpec == SignedSpec /\ \A c \in Clients : WF_signedVars(Proceed(c))

-----------------------------------------------------------------------------
(* Correctness.                                                            *)

(* A path that is sent as it stands, but for a fragment of the query.      *)
AsItStands(p) == \A i \in DOMAIN BeforeQuery(p) : p[i] \notin {"#", " "}

(* No request for such a path is refused for its signature unless it was   *)
(* under way for longer than the server allows, whatever slashes and query *)
(* marks a name puts into the path, however long earlier attempts of the   *)
(* call have taken and however long a signature the key makes. (The path   *)
(* that is signed is the one before "#" is cut off and other characters    *)
(* are escaped: names with these are not covered.)                         *)
RefusedOnlyIfLate ==
    \A c \in Clients :
        reply[c] # None /\ reply[c].status = 401 =>
            reply[c].time - request[c].sent > Skew \/ ~AsItStands(path[c])

(* A Client skips the verification of certificates exactly if it was asked *)
(* to, or uses a Transport of the caller that always did: no Client made   *)
(* before or after, of the same http.Client or of none, changes that.      *)
SkipsOnlyIfAsked ==
    /\ insecure \ Clients = Insecure
    /\ \A c \in Clients : stage[c] \notin Setting =>
        (transport[c] \in insecure <=>
             \/ opts[c].skipTLSVerify
             \/ TransportUsed(opts[c].httpClient) \in Insecure)

(* Every call returns, although the server hangs and the caller waits, if  *)
(* the http.Client in use (the default one, or the last one supplied) has  *)
(* a Timeout, whatever the other options were and in whatever order.       *)
TimedCallsReturn ==
    \A c \in Clients :
        stage[c] = "attempt" /\ HasTimeout[opts[c].httpClient]
            ~> stage[c] = "idle"

-----------------------------------------------------------------------------
(* The inductive invariant: what NewClient has decided stands, as no       *)
(* option is applied to a Client that is made, and the only Transports     *)
(* that come to skip the verification are the clones.                      *)

MakingTypes ==
    /\ stage \in [Clients -> Setting \cup {"idle", "attempt", "wait"}]
    /\ opts \in [Clients -> [httpClient : Effective, skipTLSVerify : BOOLEAN,
                            maxRetries : Nat]]
    /\ timeout \in [Clients -> BOOLEAN]
    /\ transport \in [Clients -> Transports \cup Clients \cup {NilTransport}]
    /\ insecure \subseteq Transports \cup Clients

MadeInv ==
    /\ insecure = Insecure \cup {c \in Clients : /\ stage[c] \notin Setting
                                               /\ opts[c].skipTLSVerify}
    /\ \A c \in Clients : stage[c] \notin Setting =>
        /\ transport[c] = IF opts[c].skipTLSVerify THEN c
                          ELSE TransportUsed(opts[c].httpClient)
        /\ timeout[c] = HasTimeout[opts[c].httpClient]

SignedInv == MakingTypes /\ MadeInv

(* A call has a path of its organization. A request is there only while    *)
(* the call waits, is for that path and was signed as it was sent; so a    *)
(* reply there is one to this request.                                     *)
CallTypes ==
    /\ DOMAIN org = Clients /\ DOMAIN path = Clients
    /\ DOMAIN request = Clients /\ DOMAIN reply = Clients
    /\ now \in Nat

RequestInv ==
    \A c \in Clients :
        /\ stage[c] \in {"attempt", "wait"} => path[c] \in Paths(org[c])
        /\ stage[c] # "wait" => request[c] = None /\ reply[c] = None
        /\ request[c] # None =>
            /\ request[c].path = SentPath(path[c]) /\ request[c].sent \in Nat
            /\ request[c].signature =
                  [path |-> CanonicalPath(BeforeQuery(path[c])),
                   time |-> request[c].sent,
                   lines |-> chunk60(SignatureLength[c])]

CallInv == CallTypes /\ RequestInv /\ RefusedOnlyIfLate

=============================================================================
