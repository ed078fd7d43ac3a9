CONSTANTS
    ann = ann
    bob = bob
    Users = {ann, bob}
    MaxWrites = 4
    Limit = 3
    MaxRefusals = 1
    MaxTroubles = 2
SPECIFICATION AnnFirstSpec
INVARIANTS TypeOK AnswersMatch PipelineIsFront StreamWhileNeeded ToldItsOutcome ReadYourWrites
PROPERTIES NeverBack KeepsItsPromise EventuallySettled
CHECK_DEADLOCK FALSE
