CONSTANTS
    c1 = c1
    c2 = c2
    Client = {c1, c2}
    Deployment = {1, 2, 3}
    SquadOf <- MCSquadOf
    SquadConcurrency <- MCSquadConcurrency
    Window = 1
    CooldownShape = "ids"
    Hash <- MCHash
    Ask <- MCAsk
    Retries = 1
    Cooldown = 2
    Turns = 3
SPECIFICATION Spec
INVARIANTS TypeOK
PROPERTIES RoutedAround NoDogpile
