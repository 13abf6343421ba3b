SPECIFICATION SignedFairSpec
CONSTANTS
    c1 = c1
    c2 = c2
    tuned = tuned
    bare = bare
    default = default
    nilClient = nilClient
    tuning = tuning
    other = other
    Clients = {c1, c2}
    HttpClients <- MCHttpClients
    NilHttpClient = nilClient
    DefaultClient = default
    HasTimeout <- MCHasTimeout
    TransportOf <- MCTransportOf
    NilTransport = NilTransport
    DefaultTransport = DefaultTransport
    Insecure <- MCInsecure
    Retries <- MCRetries
    URLs <- MCURLs
    Names <- MCNames
    SignatureLength <- MCSignatureLength
    Skew = 0
    MaxTime = 1
    MaxCalls = 1
INVARIANTS
    RefusedOnlyIfLate
    SkipsOnlyIfAsked
PROPERTIES
    TimedCallsReturn
