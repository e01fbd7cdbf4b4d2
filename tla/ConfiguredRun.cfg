SPECIFICATION RunSpec
CONSTANTS
    Number <- MCNumber
    Documents <- MCDocuments
    five = five
    NonStrings = {five}
    VersionOne = "#1"
    Dashed <- MCDashed
    WithNul = {"nul"}
    WithEquals = {"A=B"}
    NoExecutable = {"", "sh -c"}
    NoToken = {"", "a b"}
    LowerCase <- MCLowerCase
    OnePlaceholder = {"{}", "{}nul"}
    NoHeaderText = {"{}nul"}
    Requests <- MCRequests
    Accounts <- MCAccounts
    Stdouts <- MCStdouts
    Inherited <- MCInherited
CHECK_DEADLOCK FALSE
INVARIANTS
    RunTypeOK
    VerdictCoversTheWhole
    OriginsAreRecognised
    RuntimeReadsThePolicy
    EnvironmentIsDeclared
    TransferIsSound
    LookupsSucceed
    OneTokenPerProvider
    TokenIsStdout
    ExitTellsStage
