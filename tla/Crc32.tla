-------------------------------- MODULE Crc32 --------------------------------
(***************************************************************************)
(* The checksum program of src/DZ_16_shared_memory/crc32_tool.c: a table of*)
(* one entry per byte, and a loop over the file, which is mapped with      *)
(* MAP_SHARED, so that what others write to it shows in the middle of the  *)
(* loop.  Words are bits, the lowest first: Width of them in the register  *)
(* and in the entries of the table, ByteBits in a byte.                    *)
(***************************************************************************)
EXTENDS Naturals, Sequences

CONSTANTS
  Width, ByteBits,   \* 32 and 8 in the program
  Generator,         \* the polynomial's coefficients, the highest first
  MaxFile            \* bound: bytes of a file

VARIABLES
  crcStage,    \* "start", "loop", "done", "failed" or "killed"
  data,        \* the file, as a sequence of bytes
  st_size, pos,  \* what fstat said, and how far the loop has come
  crc,
  changed      \* history: the file changed while it was mapped

Bit  == {0, 1}
Byte == [1 .. ByteBits -> Bit]
Zeros(n) == [k \in 1 .. n |-> 0]
AllOnes  == [k \in 1 .. Width |-> 1]

(* The exclusive or, of as many bits as a has.                             *)
Xor(a, b) == [k \in DOMAIN a |-> (a[k] + b[k]) % 2]
ShiftRight(a, n) == [k \in 1 .. Width |-> IF k + n <= Width THEN a[k + n] ELSE 0]

Init ==
  /\ crcStage = "start" /\ data = << >> /\ st_size = 0 /\ pos = 0
  /\ crc = Zeros(Width) /\ changed = FALSE

(* The constant of generate_table: the coefficients below the highest, the *)
(* lowest power in the highest bit.                                        *)
polynomial == [k \in 1 .. Width |-> Generator[k + 1]]

Shift(c) == IF c[1] = 1 THEN Xor(polynomial, ShiftRight(c, 1)) ELSE ShiftRight(c, 1)
Shifts(b) ==
  LET c[j \in 0 .. ByteBits] ==
        IF j = 0 THEN [k \in 1 .. Width |-> IF k <= ByteBits THEN b[k] ELSE 0] ELSE Shift(c[j - 1])
  IN c

(* Mutant: one shift too few for an entry of the table.                    *)
crc32_table_Short == [b \in Byte |-> Shifts(b)[ByteBits - 1]]

(* generate_table: ByteBits shifts of each byte.                           *)
crc32_table == [b \in Byte |-> Shifts(b)[ByteBits]]

(* An empty file cannot be mapped: mmap of nothing is an error.            *)
main ==
  /\ crcStage = "start"
  /\ data' \in UNION {[1 .. n -> Byte] : n \in 0 .. MaxFile}
  /\ st_size' = Len(data') /\ crc' = AllOnes
  /\ crcStage' = IF st_size' = 0 THEN "failed" ELSE "loop"
  /\ UNCHANGED <<pos, changed>>

(* Another process writes a byte or truncates the file.                    *)
Change ==
  /\ crcStage = "loop" /\ ~changed /\ changed' = TRUE
  /\ data' \in {SubSeq(data, 1, Len(data) - 1)} \cup
               {[data EXCEPT ![k] = b] : k \in DOMAIN data, b \in Byte}
  /\ UNCHANGED <<crcStage, st_size, pos, crc>>

(* Past the end of a file that has become shorter the page reads as zeros, *)
(* or the access kills the process (SIGBUS).                               *)
calculate_crc32 ==
  /\ crcStage = "loop" /\ pos < st_size
  /\ \/ LET byte  == IF pos < Len(data) THEN data[pos + 1] ELSE Zeros(ByteBits)
            index == Xor(byte, crc)   \* the register's lowest bits
        IN crc' = Xor(ShiftRight(crc, ByteBits), crc32_table[index]) /\ pos' = pos + 1 /\ UNCHANGED crcStage
     \/ pos >= Len(data) /\ crcStage' = "killed" /\ UNCHANGED <<crc, pos>>
  /\ UNCHANGED <<data, st_size, changed>>

Finish ==
  /\ crcStage = "loop" /\ pos = st_size /\ crcStage' = "done" /\ crc' = Xor(crc, AllOnes)
  /\ UNCHANGED <<data, st_size, pos, changed>>

Next == main \/ Change \/ calculate_crc32 \/ Finish

-----------------------------------------------------------------------------
(* The definition: the bits of the file, the lowest of each byte first and *)
(* followed by Width zeros, the first Width of them inverted, are divided  *)
(* by the generator modulo two; the remainder is inverted and read with its*)
(* highest power as the lowest bit.                                        *)
Message == [k \in 1 .. ByteBits * Len(data) + Width |->
              IF k > ByteBits * Len(data) THEN 0
              ELSE data[((k - 1) \div ByteBits) + 1][((k - 1) % ByteBits) + 1]]
Bits == [k \in DOMAIN Message |-> IF k <= Width THEN 1 - Message[k] ELSE Message[k]]
Division ==
  LET left[k \in 0 .. ByteBits * Len(data)] ==
        IF k = 0 THEN Bits
        ELSE [p \in DOMAIN Bits |->
                IF left[k - 1][k] = 1 /\ p \in k .. k + Width
                THEN (left[k - 1][p] + Generator[p - k + 1]) % 2 ELSE left[k - 1][p]]
  IN left
Checksum == LET end == ByteBits * Len(data)
            IN [k \in 1 .. Width |-> 1 - Division[end][end + k]]

(* The byte-wise loop over the table computes the checksum that division of*)
(* polynomials defines (README.md:29: the output is that of the system's   *)
(* crc32), of every file that nobody changes while it is mapped and that   *)
(* is not empty.                                                           *)
ChecksumRight == crcStage = "done" /\ ~changed => crc = Checksum
=============================================================================
