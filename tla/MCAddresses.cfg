CONSTANTS
    Size = 6
    Samples <- MCSamples
    Chars <- MCChars
    MaxEdits = 2
SPECIFICATION Spec
INVARIANTS
    AcceptsAddresses
    TextComesBack
    AddressComesBack
