SPECIFICATION FairSpec
CONSTANTS
    a = a
    b = b
    app = app
    base = base
    u1 = u1
    u2 = u2
    u3 = u3
    Checksums <- MCChecksums
    Cookbooks <- MCCookbooks
    FilesOf <- MCFilesOf
    Uploads <- MCUploads
    CookbookOf <- MCCookbookOf
    IsArtifact <- MCIsArtifact
    IdentifierOf <- MCIdentifierOf
    Identifiers <- MCIdentifiers
    FieldOf <- MCFieldOf
    MaxCalls <- MCMaxCalls
INVARIANTS
    CommittedIsStored
    ManifestComplete
    ManifestMatchesEndpoint
PROPERTIES
    UploadEnds
    RefinesPublish
