SPECIFICATION Spec
CONSTANTS
    phone = phone
    tablet = tablet
    original = original
    None = None
    Clients = {cli, web}
    Names <- MCNames
    Default = original
    Imports <- MCImports
    MaxBackends = 2
    MaxSecretsPerBackend = 2
    MaxProfiles = 3
    MaxSecrets = 2
    MaxCalls = 3
    MaxFaults = 2
SYMMETRY ClientSymmetry
INVARIANTS TypeOK QuietMeansInService SecretsFit OnlyAffectedRestart RetiredStaysRetired
