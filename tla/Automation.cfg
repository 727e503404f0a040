SPECIFICATION FlagsSpec
CONSTANTS
    Handlers = {h1, h2, h3}
    Default <- MCDefault
    Nobody = Nobody
    NoFile = NoFile
    Torn = Torn
SYMMETRY Symmetry
INVARIANTS
    Durable
    NoRedundantWrite
