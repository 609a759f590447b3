SPECIFICATION Spec
CONSTANTS
    Byte <- MCByte
    Files <- AllFiles
    Boot <- MCBoot
    ChunkSizes = {1, 2}
    FileIds = {1}
    DeviceLimit = 3
    MaxInFlight = 2
    Crc <- MCCrc
    Verdict <- MCVerdict
INVARIANTS TypeOK SessionFits OnlyWholePackages PassedDryRun CleanUploadLands
PROPERTIES IntactOkIsTrue ImplementsPackageStore
