SPECIFICATION NodeSpec
CONSTANTS
    web = web
    db = db
    core = core
    policy = policy
    tagger = tagger
    lister = lister
    remover = remover
    maker = maker
    Strings <- MCStrings
    Keys <- MCKeys
    Editors <- MCEditors
    EditsOf <- MCEditsOf
    MethodOf <- MCMethodOf
    ReportOf <- MCReportOf
    Nodes <- MCNodes
    Names <- MCNames
INVARIANTS
    
    NothingListedTwice
    LookupByPrecedence
