CONSTANT Files <- Examples
SPECIFICATION Spec
INVARIANTS DigestIsSha256
CHECK_DEADLOCK FALSE
