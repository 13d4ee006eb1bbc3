CONSTANTS
    None = None
    Unprefixed <- MCUnprefixed
    Sources <- MCSources
    MaxImports = 2
    Environments <- MCEnvironments
    Wired <- MCWired
    ConfigVersions <- MCNames
    LoggedEvents <- MCNames
SPECIFICATION StartupSpec
INVARIANTS StartupTypeOK AcceptedExactly OneRole  OneImport LoadedWhole ImportUsable
