SPECIFICATION FairSpec
CONSTANTS
    Api = api
    Workers = {w1, w2}
    Reviews = {r1}
    NoReview = noReview
    Keys = {k1, k2}
    NoKey = noKey
    MaxTasks = 1
    MaxRetries = 1
    RemovalFails = TRUE
PROPERTY
    QueueDrains
