SPECIFICATION InstallSpec
CONSTANTS
    Dlls <- MCDlls
    Values <- MCValues
    MaxUpgrades = 1
INVARIANTS
    InstallTypeOK
    RollbackRestores
    ServerKept
