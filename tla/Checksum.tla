------------------------------ MODULE Checksum ------------------------------
(***************************************************************************)
(* Packets as bytes: createPDU and processPDU of pdu.c and the Internet    *)
(* checksum of checksum.c.  Pdu abstracts from all of this to a packet     *)
(* that is either as it was sent or CORRUPT; ErrorLibrary checks that it   *)
(* may.  Words are read as the little-endian machines of the build do.     *)
(***************************************************************************)
EXTENDS Integers, Sequences

Byte == 0 .. 255

PDU_HEADER_LEN == 7

\* The largest buffer size that rcopy's checkArgs lets pass.
MaxPayload == 1400

\* sum of the while loop: the 16-bit words, and the odd byte as a low byte.
WordSum(buf) ==
  LET sum[i \in 0 .. Len(buf)] ==
        IF i = 0 THEN 0
        ELSE sum[i - 1] + (IF i % 2 = 1 THEN 1 ELSE 256) * buf[i]
  IN  sum[Len(buf)]

\* Mutant: the carry of the first addition is lost.
fold_once(sum) == ((sum \div 65536) + (sum % 65536)) % 65536

\* The two statements that add back the carries, cut to 16 bits.
Fold(sum) ==
  LET once == (sum \div 65536) + (sum % 65536)
  IN  (once + (once \div 65536)) % 65536

\* answer = ~sum
in_cksum(buf) == 65535 - Fold(WordSum(buf))

(***************************************************************************)
(* A 32-bit number is written as its two halves (TLC's integers have a     *)
(* sign): network order puts the high byte of each half first.             *)
(***************************************************************************)
Word32 == (0 .. 65535) \X (0 .. 65535)

htonl(n) == <<n[1] \div 256, n[1] % 256, n[2] \div 256, n[2] % 256>>

ntohl(bytes) == <<256 * bytes[1] + bytes[2], 256 * bytes[3] + bytes[4]>>

\* The packet while its checksum field is zero.
zeroedPDU(fields) ==
  htonl(fields.seq) \o <<0, 0, fields.flag>> \o fields.payload

createPDU(fields) ==
  LET buf == zeroedPDU(fields)
      checksum == in_cksum(buf)
  IN  [buf EXCEPT ![5] = checksum % 256, ![6] = checksum \div 256]

\* What processPDU stores through its pointers, and what it returns.
processPDU(buf) ==
  [result |-> IF in_cksum(buf) # 0 THEN -1 ELSE 0,
   fields |-> [seq     |-> ntohl(SubSeq(buf, 1, 4)),
               flag    |-> buf[7],
               payload |-> SubSeq(buf, PDU_HEADER_LEN + 1, Len(buf))]]
=============================================================================
