\* The manual /unlock path, in seconds: 9 attempts, 1s backoff, 5s steps, 10s cap.
SPECIFICATION FairSpec
CONSTANTS
    MaxRetries = 8
    TotalCap = 10
    OpCap = 5
    RetryInterval = 1
    Probe = FALSE
INVARIANTS OneOpenFrame QuietAfterCancel DurationBound OutcomeNormalised ReplyHonest
PROPERTY Terminates
