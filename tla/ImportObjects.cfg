SPECIFICATION Spec
CONSTANTS
    r1 = r1
    r2 = r2
    r3 = r3
    small = small
    large = large
    None = None
    Refs = {r1, r2, r3}
    Identifier <- TwoToOne
    Object <- TwoToOne
    Large = {large}
    Bytes <- OneOrTwo
    Chunks <- OneOrTwo
    Schemas = {"orders", "lineitem"}
    Formats = {"kCsv", "kParquet"}
    Faults = {"open", "read", "construct", "corrupt", "decode", "reader"}
INVARIANTS ImportIsComplete NoCrashWithoutFault
