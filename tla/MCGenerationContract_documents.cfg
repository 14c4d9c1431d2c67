SPECIFICATION Spec
CONSTANTS
    Segment <- MCSegment
    Versions = {"", "1.0.0"}
    Entries <- MCEntries
    Payloads <- MCPayloads
    Stripped <- MCStripped
    Length <- MCLength
    Digits <- MCDigits
    SecretLike = {"token"}
INVARIANTS
    ContractIsToBlame
    PatchedAsBound
