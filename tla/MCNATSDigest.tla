---------------------------- MODULE MCNATSDigest ----------------------------
(***************************************************************************)
(* NATSDigest for TLC: the "SHA-256" prefix of NATS object digests and    *)
(* hashes of up to four bytes from a set whose 6-bit groups cover upper-   *)
(* and lower-case letters, digits, '-' and '_'.                           *)
(***************************************************************************)
EXTENDS NATSDigest

\* "SHA-256"
MCPrefix == <<83, 72, 65, 45, 50, 53, 54>>

MCHashBytes == {0, 107, 190, 251, 255}
=============================================================================
