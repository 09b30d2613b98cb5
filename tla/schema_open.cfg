SPECIFICATION Spec
CONSTANTS
    OldDatabases <- SomeReleases
    Years = {2025, 2026}
    MaxCuts = 2
    MaxRows = 3
INVARIANTS TypeOK SchemaComplete UpgradedAsWritten NumbersDiffer
PROPERTIES NoSettingLost
