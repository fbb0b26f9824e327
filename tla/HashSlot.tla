------------------------------ MODULE HashSlot ------------------------------
(***************************************************************************)
(* The slot of a key (pkg/hashkit/crc16.go): the CRC over the key or over  *)
(* its hash tag, with the table the code carries.  A key is a sequence of  *)
(* bytes.  The state machine only grows a key byte by byte, so that TLC    *)
(* meets every key over Alphabet up to MaxLen.                             *)
(***************************************************************************)
EXTENDS Integers, Sequences, Bitwise

CONSTANTS Alphabet, MaxLen

VARIABLE key

Open == 123      \* "{"
Close == 125     \* "}"
Slots == 16384

crc16tab ==
  <<\h0000, \h1021, \h2042, \h3063, \h4084, \h50a5, \h60c6, \h70e7,
    \h8108, \h9129, \ha14a, \hb16b, \hc18c, \hd1ad, \he1ce, \hf1ef,
    \h1231, \h0210, \h3273, \h2252, \h52b5, \h4294, \h72f7, \h62d6,
    \h9339, \h8318, \hb37b, \ha35a, \hd3bd, \hc39c, \hf3ff, \he3de,
    \h2462, \h3443, \h0420, \h1401, \h64e6, \h74c7, \h44a4, \h5485,
    \ha56a, \hb54b, \h8528, \h9509, \he5ee, \hf5cf, \hc5ac, \hd58d,
    \h3653, \h2672, \h1611, \h0630, \h76d7, \h66f6, \h5695, \h46b4,
    \hb75b, \ha77a, \h9719, \h8738, \hf7df, \he7fe, \hd79d, \hc7bc,
    \h48c4, \h58e5, \h6886, \h78a7, \h0840, \h1861, \h2802, \h3823,
    \hc9cc, \hd9ed, \he98e, \hf9af, \h8948, \h9969, \ha90a, \hb92b,
    \h5af5, \h4ad4, \h7ab7, \h6a96, \h1a71, \h0a50, \h3a33, \h2a12,
    \hdbfd, \hcbdc, \hfbbf, \heb9e, \h9b79, \h8b58, \hbb3b, \hab1a,
    \h6ca6, \h7c87, \h4ce4, \h5cc5, \h2c22, \h3c03, \h0c60, \h1c41,
    \hedae, \hfd8f, \hcdec, \hddcd, \had2a, \hbd0b, \h8d68, \h9d49,
    \h7e97, \h6eb6, \h5ed5, \h4ef4, \h3e13, \h2e32, \h1e51, \h0e70,
    \hff9f, \hefbe, \hdfdd, \hcffc, \hbf1b, \haf3a, \h9f59, \h8f78,
    \h9188, \h81a9, \hb1ca, \ha1eb, \hd10c, \hc12d, \hf14e, \he16f,
    \h1080, \h00a1, \h30c2, \h20e3, \h5004, \h4025, \h7046, \h6067,
    \h83b9, \h9398, \ha3fb, \hb3da, \hc33d, \hd31c, \he37f, \hf35e,
    \h02b1, \h1290, \h22f3, \h32d2, \h4235, \h5214, \h6277, \h7256,
    \hb5ea, \ha5cb, \h95a8, \h8589, \hf56e, \he54f, \hd52c, \hc50d,
    \h34e2, \h24c3, \h14a0, \h0481, \h7466, \h6447, \h5424, \h4405,
    \ha7db, \hb7fa, \h8799, \h97b8, \he75f, \hf77e, \hc71d, \hd73c,
    \h26d3, \h36f2, \h0691, \h16b0, \h6657, \h7676, \h4615, \h5634,
    \hd94c, \hc96d, \hf90e, \he92f, \h99c8, \h89e9, \hb98a, \ha9ab,
    \h5844, \h4865, \h7806, \h6827, \h18c0, \h08e1, \h3882, \h28a3,
    \hcb7d, \hdb5c, \heb3f, \hfb1e, \h8bf9, \h9bd8, \habbb, \hbb9a,
    \h4a75, \h5a54, \h6a37, \h7a16, \h0af1, \h1ad0, \h2ab3, \h3a92,
    \hfd2e, \hed0f, \hdd6c, \hcd4d, \hbdaa, \had8b, \h9de8, \h8dc9,
    \h7c26, \h6c07, \h5c64, \h4c45, \h3ca2, \h2c83, \h1ce0, \h0cc1,
    \hef1f, \hff3e, \hcf5d, \hdf7c, \haf9b, \hbfba, \h8fd9, \h9ff8,
    \h6e17, \h7e36, \h4e55, \h5e74, \h2e93, \h3eb2, \h0ed1, \h1ef0>>

(* One round of hash on its uint32.  Only the lower 24 bits are kept: the  *)
(* table is indexed by bits 8 to 15, the slot is taken from bits 0 to 13,  *)
(* and bits only ever move up.                                             *)
crcStep(crc, b) ==
  LET i == ((crc \div 256) ^^ b) % 256
  IN ((crc % 65536) * 256) ^^ crc16tab[i + 1]

hash(k) ==
  LET f[n \in 0..Len(k)] == IF n = 0 THEN 0 ELSE crcStep(f[n - 1], k[n])
  IN f[Len(k)] % Slots

(* strings.Index: the position of the first b, from 0, or -1. *)
IndexOf(k, b) ==
  IF \E i \in 1..Len(k) : k[i] = b
  THEN (CHOOSE i \in 1..Len(k) : k[i] = b /\ \A j \in 1..i - 1 : k[j] # b) - 1
  ELSE -1

Hash(k) ==
  LET s == IndexOf(k, Open)
      e == IndexOf(k, Close)
  IN IF s >= 0 /\ s + 1 < e THEN hash(SubSeq(k, s + 2, e)) ELSE hash(k)

Init == key = <<>>
Next == Len(key) < MaxLen /\ \E b \in Alphabet : key' = Append(key, b)
Spec == Init /\ [][Next]_key

-----------------------------------------------------------------------------
(* The reference: CRC-16/XMODEM bit by bit (polynomial 1021 hexadecimal),  *)
(* on the tag of the Redis Cluster specification: between the first "{"    *)
(* and the first "}" after it, unless they are adjacent.                   *)
Bit(r) == IF r >= 32768 THEN ((r * 2) % 65536) ^^ 4129 ELSE r * 2
Bits(r) == Bit(Bit(Bit(Bit(Bit(Bit(Bit(Bit(r))))))))

Crc(k) ==
  LET f[n \in 0..Len(k)] == IF n = 0 THEN 0 ELSE Bits(f[n - 1] ^^ (k[n] * 256))
  IN f[Len(k)]

TagOf(k) ==
  LET s == IndexOf(k, Open)
      rest == SubSeq(k, s + 2, Len(k))
      e == IndexOf(rest, Close)
  IN IF s >= 0 /\ e > 0 THEN SubSeq(rest, 1, e) ELSE k

(* The slot is the one Redis computes, for every key in which no "}"       *)
(* stands before the first "{", and every entry of the table is the CRC of *)
(* its index (Hash, hash, crc16tab).                                       *)
SlotAsInRedis ==
  /\ IndexOf(key, Close) \notin 0..IndexOf(key, Open) => Hash(key) = Crc(TagOf(key)) % Slots
  /\ key = <<>> => \A b \in 0..255 : crc16tab[b + 1] = Bits(b * 256)
=============================================================================
