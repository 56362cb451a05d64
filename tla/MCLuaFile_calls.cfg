SPECIFICATION Spec
CONSTANTS
    Misspelt = {"--typo"}
    Files <- MCFiles
    Text <- MCText
    Digest <- MCDigest
    LastPart <- MCLastPart
    Zips = {"src.zip"}
    Rooted = {"dl/x"}
    Dotted = {"./conf", "./repo/"}
    Repos <- MCRepos
    Commits = {"c0"}
    Environment <- MCEnvironment
    Base <- MCBase
    ArgLists <- MCArgLists
INVARIANTS
    TypeOK
    AnswersAgree
    NoKeyPassedOver
    SameInfoSameBuild
