SPECIFICATION SystemSpec
CONSTANTS
    p1 = p1
    p2 = p2
    p3 = p3
    Pairs <- MCPairs
    None = None
    Torn = Torn
    Unsigned = Unsigned
    Headers = 2
    Lengths = {1, 7, 8}
PROPERTY EnrolsInstalledSigner
