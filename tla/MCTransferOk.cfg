SPECIFICATION Spec
CONSTANTS
    Byte <- MCByte
    Files <- ThreeFiles
    Boot <- MCBoot
    ChunkSizes = {1, 2}
    FileIds = {1}
    DeviceLimit = 3
    MaxInFlight = 1
    Crc <- MCCrc
    Verdict <- MCVerdict
PROPERTIES OkIsTrue
