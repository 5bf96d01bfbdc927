SPECIFICATION FairSpec
CONSTANTS
    Cameras = {"north", "south"}
    Rules = {"night", "any"}
    RuleOf <- TwoRules
    Webhooks = {"board"}
    WebhookOf <- OneWebhook
    Routed <- PersonsRouted
    Frames <- SomeFrames
    Zones = {"gate", "unzoned"}
    Day = 5
    Hours = {3}
    Boots = {1}
    MaxTime = 5
    MaxFrames = 3
CHECK_DEADLOCK FALSE
INVARIANTS
    CooldownHolds
    SilenceExplained
    ClientOpenWhenUsed
    RowsAccounted
PROPERTIES
    ShutdownEnds
