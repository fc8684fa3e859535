---------------------------- MODULE Sen66Protocol ----------------------------
(***************************************************************************)
(* The wire format of the SEN66 (sen66_protocol.{h,cpp}, sen66_crc.cpp):   *)
(* words of two payload bytes and a CRC, the measurement frame and the     *)
(* serial number.  A buffer is the sequence of its words, a word on the    *)
(* wire the sequence of its three bytes, and a byte the set of the         *)
(* positions of its bits that are set: 0x31 is {0, 4, 5}, an exclusive or  *)
(* is the symmetric difference and a shift moves every position.           *)
(***************************************************************************)
EXTENDS Integers, Sequences, SequencesExt

Bytes == SUBSET (0 .. 7)

Polynomial == {0, 4, 5}     \* kPolynomial, 0x31
CrcInit == 0 .. 7           \* kInit, 0xFF

kMeasurementWords == 9
kSerialWords == 16
kSerialChars == kSerialWords * 2 + 1

\* crc << 1, in a uint8_t.
Shifted(crc) == {b + 1 : b \in crc \ {7}}

\* Faulty variant: the bit is tested after the shift, which lost it.
ShiftBitLate(crc) ==
    IF 7 \in Shifted(crc) THEN SymDiff(Shifted(crc), Polynomial) ELSE Shifted(crc)

\* One round of the inner loop of Crc(): the top bit is shifted out.
ShiftBit(crc) ==
    IF 7 \in crc THEN SymDiff(Shifted(crc), Polynomial) ELSE Shifted(crc)

\* The inner loop, eight rounds.
ShiftTwo(crc) == ShiftBit(ShiftBit(crc))
ShiftFour(crc) == ShiftTwo(ShiftTwo(crc))
ShiftByte == [crc \in Bytes |-> ShiftFour(ShiftFour(crc))]

CrcFrom(init, data) ==
    ShiftByte[SymDiff(ShiftByte[SymDiff(init, data[1])], data[2])]

\* Faulty variant: starts from zero.
CrcFromZero(data) == CrcFrom({}, data)
\* The CRC of the first two bytes, the only length Crc() is called with.
Crc(data) == CrcFrom(CrcInit, data)

\* Faulty variant: the last word is not checked.
CheckWordsButLast(buf) ==
    \A i \in 1 .. Len(buf) - 1 : Crc(buf[i]) = buf[i][3]

CheckWordsCrc(buf) ==
    \A i \in 1 .. Len(buf) : Crc(buf[i]) = buf[i][3]

\* The unsigned number a byte stands for.
Weight == <<1, 2, 4, 8, 16, 32, 64, 128>>
ByteValue(byte) ==
    LET Part(b) == IF b \in byte THEN Weight[b + 1] ELSE 0
    IN  Part(0) + Part(1) + Part(2) + Part(3) + Part(4) + Part(5) + Part(6) + Part(7)

Word(w) == ByteValue(w[1]) * 256 + ByteValue(w[2])

AsSigned(word) == IF word >= 32768 THEN word - 65536 ELSE word

-----------------------------------------------------------------------------
(* The measurement frame.                                                  *)

Layout == <<"pm1p0", "pm2p5", "pm4p0", "pm10", "humidity", "temperature",
            "voc_index", "nox_index", "co2">>

SignedChannels == {"humidity", "temperature", "voc_index", "nox_index"}

kUnavailableUnsigned == 65535   \* 0xFFFF
kUnavailableSigned == 32767     \* 0x7FFF

Decode(c, word) == IF c \in SignedChannels THEN AsSigned(word) ELSE word

\* Faulty variant: one sentinel for every channel.
UnavailableAlike(c) == kUnavailableUnsigned
\* What clears a validity bit.
UnavailableOf(c) == IF c \in SignedChannels THEN kUnavailableSigned
                                            ELSE kUnavailableUnsigned

\* The caller's measurement after the call; it is not touched on an error.
ParseMeasurement(raw, out) ==
    IF ~CheckWordsCrc(raw)
       THEN [ok |-> FALSE, out |-> out]
       ELSE LET reading == [i \in 1 .. kMeasurementWords |->
                               Decode(Layout[i], Word(raw[i]))]
            IN  [ok  |-> TRUE,
                 out |-> [value |-> reading,
                          valid |-> {i \in 1 .. kMeasurementWords :
                                        reading[i] # UnavailableOf(Layout[i])}]]

-----------------------------------------------------------------------------
(* The serial number: two characters a word and a terminator.              *)

SerialChars(raw) == [i \in 1 .. 2 * Len(raw) |-> raw[(i + 1) \div 2][2 - (i % 2)]]

\* Faulty variant: the terminator replaces the last character.
ParseSerialTruncated(raw, out) ==
    IF ~CheckWordsCrc(raw)
       THEN [ok |-> FALSE, out |-> out]
       ELSE [ok |-> TRUE, out |-> Front(SerialChars(raw)) \o <<{}>>]

ParseSerialNumber(raw, out) ==
    IF ~CheckWordsCrc(raw)
       THEN [ok |-> FALSE, out |-> out]
       ELSE [ok |-> TRUE, out |-> SerialChars(raw) \o <<{}>>]
=============================================================================
