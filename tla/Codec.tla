------------------------------- MODULE Codec -------------------------------
(***************************************************************************)
(* src/proto/codec.cpp: encode_frame, parse_frame and the CRC they share.  *)
(* The widths are scaled: a byte has BITS_PER_BYTE = 2 bits, the CRC 4     *)
(* bits (two bytes), every header field is one byte, the payload is padded *)
(* to 2 bytes.  The code's structure is kept: a header, the payload,       *)
(* padding that is written but not covered, the checksum.                  *)
(***************************************************************************)
EXTENDS Integers, Sequences, SequencesExt, Bitwise

CONSTANTS PayloadBytes,  \* byte values a payload may hold
          MaxPayload     \* bound on its length, more than payload_length can say

BITS_PER_BYTE == 2
Bytes == 0 .. 3
CRC_MASK == 15
POLYNOMIAL == 12       \* x^4 + x + 1, reflected as in the code
PAYLOAD_ALIGNMENT == 2
CRC_SIZE == 2
MAGIC == 2
VERSION == 1
HEADER == 8            \* sizeof(FrameHeader): magic, version, type, flags, reserved,
LENGTH_AT == 6         \* payload_length, actor_id, message_id

VARIABLES codec        \* what was encoded, into which buffer, and what was done to it

codecVars == <<codec>>

CodecInit == codec = [at |-> "idle"]

----------------------------------------------------------------------------
(* crc32c *)

\* One bit of the polynomial division.
CrcBit(crc) == IF crc % 2 = 1 THEN shiftR(crc, 1) ^^ POLYNOMIAL ELSE shiftR(crc, 1)

\* make_crc32c_table
CrcTable == [i \in Bytes |-> CrcBit(CrcBit(i))]

CrcOfHeader(data) ==   \* mutant: the payload is not covered
    CRC_MASK - FoldLeft(LAMBDA crc, b : shiftR(crc, BITS_PER_BYTE) ^^ CrcTable[(crc ^^ b) % 4],
                        CRC_MASK, SubSeq(data, 1, HEADER))

\* crc32c_software
crc32c(data) ==
    CRC_MASK - FoldLeft(LAMBDA crc, b : shiftR(crc, BITS_PER_BYTE) ^^ CrcTable[(crc ^^ b) % 4],
                        CRC_MASK, data)

\* The SSE4.2 instruction on n bytes: they are divided bit by bit, lowest first.
CrcInstruction(crc, chunk) == FoldLeft(LAMBDA c, b : CrcBit(CrcBit(c ^^ b)), crc, chunk)

\* crc32c where the instruction exists: chunks of two bytes, then the rest.
crc32c_hardware(data) ==
    LET chunks == Len(data) \div 2
        whole == FoldLeft(LAMBDA c, k : CrcInstruction(c, SubSeq(data, 2 * k - 1, 2 * k)),
                          CRC_MASK, [k \in 1 .. chunks |-> k])
    IN CRC_MASK - CrcInstruction(whole, SubSeq(data, 2 * chunks + 1, Len(data)))

CrcBytes(crc) == <<crc % 4, crc \div 4>>

----------------------------------------------------------------------------
(* layout_for_payload, encode_frame, parse_frame *)

align_up(value, alignment) == ((value + alignment - 1) \div alignment) * alignment

payload_size_fits(n) == n <= 3

layout(n) == LET padded == align_up(n, PAYLOAD_ALIGNMENT)
             IN [padded |-> padded, crc |-> HEADER + padded, total |-> HEADER + padded + CRC_SIZE]

\* bytes written over buffer from offset on
Over(buffer, offset, bytes) ==
    [i \in DOMAIN buffer |-> IF i - offset \in DOMAIN bytes THEN bytes[i - offset] ELSE buffer[i]]

PaddedLength(frame) ==   \* mutant: the padded size goes into payload_length
    <<MAGIC, VERSION, frame.type, frame.flags, 0, align_up(Len(frame.payload), 2), frame.actor,
      frame.message>>

Header(frame) ==
    <<MAGIC, VERSION, frame.type, frame.flags, 0, Len(frame.payload), frame.actor, frame.message>>

\* The buffer after encode_frame, or an unchanged one and 0.
encode_frame(buffer, frame) ==
    LET n == Len(frame.payload)
        l == layout(n)
        covered == Header(frame) \o frame.payload
        padding == [i \in 1 .. l.padded - n |-> 0]
    IN IF ~payload_size_fits(n) \/ l.total > Len(buffer)
       THEN [size |-> 0, buffer |-> buffer]
       ELSE [size |-> l.total,
             buffer |-> Over(buffer, 0, covered \o padding \o CrcBytes(crc32c(covered)))]

Invalid == [valid |-> FALSE]

parse_frame(buffer) ==
    IF Len(buffer) < HEADER + CRC_SIZE \/ buffer[1] # MAGIC \/ buffer[2] # VERSION THEN Invalid
    ELSE LET n == buffer[LENGTH_AT]
             l == layout(n)
             wire == SubSeq(buffer, l.crc + 1, l.crc + CRC_SIZE)
         IN IF l.total > Len(buffer) THEN Invalid
            ELSE [valid |-> CrcBytes(crc32c(SubSeq(buffer, 1, HEADER + n))) = wire,
                  header |-> SubSeq(buffer, 1, HEADER),
                  payload |-> SubSeq(buffer, HEADER + 1, HEADER + n)]

----------------------------------------------------------------------------

\* A caller encodes a frame into a buffer that held something else.
Encode ==
    /\ codec.at = "idle"
    /\ \E n \in 0 .. MaxPayload : \E payload \in [1 .. n -> PayloadBytes], type \in {0, 3},
          actor \in {1, 2}, room \in {0, HEADER, HEADER + CRC_SIZE, HEADER + CRC_SIZE + 4} :
          LET frame == [type |-> type, flags |-> 1, actor |-> actor, message |-> 3,
                        payload |-> payload]
              result == encode_frame([i \in 1 .. room |-> 3], frame)
          IN codec' = [at |-> "encoded", frame |-> frame, size |-> result.size,
                       buffer |-> result.buffer]

\* One byte of the frame is changed on its way.
Corrupt ==
    /\ codec.at = "encoded"
    /\ \E i \in 1 .. codec.size, b \in Bytes :
          /\ b # codec.buffer[i]
          /\ codec' = [codec EXCEPT !.at = "corrupted", !.buffer = [@ EXCEPT ![i] = b]]
                         @@ [changed |-> i]

CodecNext == Encode \/ Corrupt

----------------------------------------------------------------------------
(* Properties *)

\* A frame is encoded exactly when its length can be stated and the buffer has room, is
\* then read back as it was, whatever follows it in the buffer, and both versions of the
\* checksum agree on it (codec.cpp:51-143).
FrameRoundTrip ==
    codec.at = "encoded" =>
        LET n == Len(codec.frame.payload)
            fits == n <= 3 /\ HEADER + n + (n % 2) + CRC_SIZE <= Len(codec.buffer)
            parsed == parse_frame(codec.buffer)
        IN /\ codec.size = IF fits THEN HEADER + n + (n % 2) + CRC_SIZE ELSE 0
           /\ fits => /\ parsed.valid
                      /\ parsed.header = Header(codec.frame)
                      /\ parsed.payload = codec.frame.payload
                      /\ LET covered == SubSeq(codec.buffer, 1, HEADER + n)
                         IN crc32c(covered) = crc32c_hardware(covered)

\* A frame with one changed byte is refused, unless the byte is padding, which the
\* checksum does not cover, or the length, which moves the checksum's own place
\* (codec.cpp:97-104).
CorruptionDetected ==
    codec.at = "corrupted" =>
        LET covered == HEADER + Len(codec.frame.payload)
            padding == codec.changed > covered /\ codec.changed <= codec.size - CRC_SIZE
        IN codec.changed # LENGTH_AT => parse_frame(codec.buffer).valid = padding

=============================================================================
