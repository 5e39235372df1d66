SPECIFICATION Spec
CONSTANTS
    Api = api
    Workers = {w1}
    Reviews = {r1}
    NoReview = noReview
    Keys = {k1}
    NoKey = noKey
    MaxTasks = 2
    MaxRetries = 1
    RemovalFails = FALSE
INVARIANT
    ReviewRespected
