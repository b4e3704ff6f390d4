----------------------------- MODULE NATSDigest -----------------------------
(***************************************************************************)
(* SanitizeNATSDigest of src/control-api/utils.go.  A NATS object digest   *)
(* is "SHA-256=" followed by the hash in padded base64 URL encoding; the   *)
(* function cuts the input at its first '=' and decodes what follows,      *)
(* returning the raw hash bytes, the undecodable remainder, or the input   *)
(* when it has no '='.  Go strings are byte sequences here.               *)
(*                                                                         *)
(* The hash bytes are grown one byte at a time from a small set, so that   *)
(* every length modulo 3 (no, two and one padding '=') and every 6-bit    *)
(* group value class of the URL alphabet (letters, digits, '-' and '_')    *)
(* occurs, and each one is encoded the way NATS does and sanitized.        *)
(***************************************************************************)
EXTENDS Naturals, SequencesExt

CONSTANTS
    HashBytes,  \* byte values a hash may contain
    Prefix,     \* the algorithm name before the '=' (bytes)
    MaxLen      \* bound on the hash length

Eq == 61       \* '='

ASSUME DigestAssumption ==
    /\ HashBytes \subseteq 0..255
    /\ Prefix \in Seq(0..255) /\ Eq \notin ToSet(Prefix)
    /\ MaxLen \in Nat

\* The URL-safe alphabet of RFC 4648: A-Z, a-z, 0-9, '-', '_'.
Alphabet ==
    [v \in 0..63 |-> CASE v < 26 -> 65 + v
                       [] v < 52 -> 97 + v - 26
                       [] v < 62 -> 48 + v - 52
                       [] v = 62 -> 45
                       [] v = 63 -> 95]

AlphabetValue(c) == CHOOSE v \in 0..63 : Alphabet[v] = c

-----------------------------------------------------------------------------
\* Reference: base64.URLEncoding.EncodeToString, as NATS computes a digest.
\* Every 3 bytes become 4 characters; a last group of 1 or 2 bytes is
\* zero-filled and padded with '=' to 4 characters.
Encode(b) ==
    LET L == Len(b)
        Byte(i) == IF i <= L THEN b[i] ELSE 0
        Group(g) == Byte(3*g + 1) * 65536 + Byte(3*g + 2) * 256 + Byte(3*g + 3)
        Char(k) == LET g == (k - 1) \div 4
                       p == (k - 1) % 4
                   IN IF p <= 1 \/ 3*g + p <= L
                        THEN Alphabet[(Group(g) \div 2^(6 * (3 - p))) % 64]
                        ELSE Eq
    IN [k \in 1..4 * ((L + 2) \div 3) |-> Char(k)]

\* base64.URLEncoding.DecodeString: carriage returns and newlines are
\* skipped; the rest must be whole 4-character groups of the alphabet, the
\* last of which may end in one or two '='.  Bits below the last byte are
\* not checked (the encoding is not Strict).
Decode(str) ==
    LET s   == SelectSeq(str, LAMBDA c : c \notin {10, 13})
        L   == Len(s)
        pad == CASE L >= 2 /\ s[L] = Eq /\ s[L - 1] = Eq -> 2
                 [] L >= 1 /\ s[L] = Eq -> 1
                 [] OTHER -> 0
        Val(k) == IF k <= L - pad THEN AlphabetValue(s[k]) ELSE 0
        Group(g) == Val(4*g + 1) * 2^18 + Val(4*g + 2) * 2^12
                    + Val(4*g + 3) * 2^6 + Val(4*g + 4)
        Byte(i) == LET g == (i - 1) \div 3
                       p == (i - 1) % 3
                   IN (Group(g) \div 2^(8 * (2 - p))) % 256
    IN IF /\ L % 4 = 0
          /\ \A k \in 1..(L - pad) : s[k] \in Range(Alphabet)
       THEN [ok |-> TRUE, val |-> [i \in 1..(3 * (L \div 4) - pad) |-> Byte(i)]]
       ELSE [ok |-> FALSE, val |-> <<>>]

\* strings.Cut(input, "=") at the first '='.
CutIndex(input) == SelectInSeq(input, LAMBDA c : c = Eq)

\* Bug variant: the input is cut at its last '='.
SanitizeCutLast(input) ==
    LET i     == SelectLastInSeq(input, LAMBDA c : c = Eq)
        after == SubSeq(input, i + 1, Len(input))
        d     == Decode(after)
    IN CASE i = 0 -> input
         [] ~d.ok -> after
         [] OTHER -> d.val

\* No '=': the input is returned as it is.  Otherwise the part after the
\* first '=' is decoded; on an error that part is returned undecoded.
SanitizeNATSDigest(input) ==
    LET i     == CutIndex(input)
        after == SubSeq(input, i + 1, Len(input))
        d     == Decode(after)
    IN CASE i = 0 -> input
         [] ~d.ok -> after
         [] OTHER -> d.val

-----------------------------------------------------------------------------
VARIABLE hash

Init == hash = <<>>

\* The hash grows by one byte.
Extend == Len(hash) < MaxLen /\ \E x \in HashBytes : hash' = Append(hash, x)

Spec == Init /\ [][Extend]_hash

\* The digest NATS reports for the hash.
Digest == Prefix \o <<Eq>> \o Encode(hash)

\* SanitizeNATSDigest recovers the raw hash from every digest NATS forms,
\* padded or not: the cut happens at the separator after the algorithm
\* name, not at a padding '=' of the encoded hash.
DigestRoundTrip == SanitizeNATSDigest(Digest) = hash

=============================================================================
