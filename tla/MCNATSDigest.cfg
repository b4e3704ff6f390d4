\* Round trip of SanitizeNATSDigest over every hash of up to four bytes
\* (all three padding cases, several groups).
CONSTANTS
    HashBytes <- MCHashBytes
    Prefix <- MCPrefix
    MaxLen = 4

SPECIFICATION Spec

INVARIANT DigestRoundTrip

\* The hash stops growing at MaxLen; nothing else happens in this model.
CHECK_DEADLOCK FALSE
