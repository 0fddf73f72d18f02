CONSTANTS
    MaxConsecutiveRestarts = 2
    Chosen = {{},
              {"kafkaMode", "secondaryApiGroup", "leaderElect"},
              {"kafkaserviceMode", "watchKafkaUsersCollectNamespace"},
              {"kafkaserviceMode", "watchAkhqCollectNamespace"},
              {"kafkaserviceMode", "kmmEnabled", "secondaryApiGroup",
               "leaderElect"}}
    MaxHours = 1
SPECIFICATION PoolFairSpec
INVARIANT
    StopsAtTheLimit
PROPERTIES
    JobsSupervised
CHECK_DEADLOCK FALSE
