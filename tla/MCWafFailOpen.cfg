SPECIFICATION Spec
CONSTANTS
    main = main
    vhost1 = vhost1
    vhost2 = vhost2
    dir = dir
    loc = loc
    files = files
    ht = ht
    badht = badht
    ServerList <- MCServerList
    Sections <- MCSections
    Kind <- MCKind
    Threads = {t1, t2}
    Texts <- FailureTexts
    Refused <- MCRefused
    NoConf = NoConf
    NoThread = NoThread
    Libraries <- OneLibrary
    MaxFailures = 1
    Urls <- MCUrls
    HtText <- MCHtText
    Hash <- MCHash
    CacheMax = 1
    MaxRequests = 3
INVARIANTS
    FailedRulesRefused
