SPECIFICATION FairSpec
CONSTANTS
    Api = api
    Workers = {w1}
    Reviews = {r1}
    NoReview = noReview
    Keys = {k1}
    NoKey = noKey
    MaxTasks = 1
    MaxRetries = 0
    RemovalFails = FALSE
PROPERTY
    OriginalsExpire
