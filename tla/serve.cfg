SPECIFICATION FairSpec
CONSTANTS
    here = here  there = there  padded = padded  Spaces = Spaces
    Clients = {c1, c2}
    Nobody = Nobody
    Blank = Blank
    Trimmed <- Trims
    Number <- Numbers
    Default <- Defaults
    Sends <- Requests
    Environments <- FourEnvironments
    Files <- FiveFiles
    FaultKinds = {"start", "listen", "statement", "kill"}
    MaxFaults = 1
INVARIANTS ServerInv ErrorsHaveCause CorsFollowsSettings
PROPERTIES CutOffOnlyBySignal WaitersGetOn EndsOnSignal
