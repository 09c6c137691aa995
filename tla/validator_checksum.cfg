SPECIFICATION GeneratorSpec
CONSTANTS
    Sizes = {0, 13, 14, 22, 33, 34, 42, 50, 58, 62, 70, 78, 90, 106}
    Lengths = {0, 1, 3, 4, 8, 12, 16, 26, 32, 36, 44, 1016}
    HeaderWords = {4, 5, 6}
    OptionLengths = {0, 2, 4, 255}
    Modulus = 1024
    MaxSegmentBytes = 40
    MaxEntries = 1
    MaxOptions = 2
    MaxLayers = 4
    PayloadSizes = {0, 4, 40}
    Addresses = {61439}
INVARIANT BuiltChecksumAccepted
