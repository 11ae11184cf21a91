CONSTANTS
    Clients = {c1, c2}
    Models = {m1}
    Providers = {p1, p2}
    Reporters = {r1}
    MaxCopies <- Once
    ProviderChoices = {p1, p2}
    Outcomes = {"success", "rejected"}
    NoProvider = NoProvider
    NoModel = NoModel
SPECIFICATION Spec
INVARIANT AvailableIsListed
