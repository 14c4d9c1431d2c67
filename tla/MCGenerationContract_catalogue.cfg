SPECIFICATION Spec
CONSTANTS
    Segment <- MCSegment
    Versions = {""}
    Entries <- MCEntries
    Payloads <- MCPayloads
    Stripped <- MCStripped
    Length <- MCLength
    Digits <- MCDigits
    SecretLike = {"token"}
INVARIANTS
    CataloguedJobsAreServed
