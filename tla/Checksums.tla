------------------------------ MODULE Checksums ------------------------------
(***************************************************************************)
(* The one's-complement checksum of an IPv4 header, which the library      *)
(* computes in four places.  Bytes are taken in 16-bit words; a header is  *)
(* a sequence of words.                                                    *)
(***************************************************************************)
EXTENDS Integers, Sequences

LOCAL INSTANCE Functions

Word == 2^16

\* The position of the checksum in the words of an IPv4 header (byte 10).
ChecksumWord == 6

SumOf(words) == FoldFunction(+, 0, words)

\* while (sum >> 16) sum = (sum & 0xFFFF) + (sum >> 16): three turns fold
\* any 32-bit sum.
Carry(sum) == (sum % Word) + (sum \div Word)

Folded(sum) == Carry(Carry(Carry(sum)))

Complement(sum) == Word - 1 - Folded(sum)

\* IPv4Builder::build sums its header while the checksum is still zero.
BuilderChecksum(header) == Complement(SumOf([header EXCEPT ![ChecksumWord] = 0]))

\* IPv4Decoder: a header sums to zero together with its checksum.
DecoderChecksumValid(header) == Complement(SumOf(header)) = 0

\* Checksum::ipv4_checksum skips the checksum.
Ipv4Checksum(header) == Complement(SumOf(header) - header[ChecksumWord])
==============================================================================
