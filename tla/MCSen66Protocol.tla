--------------------------- MODULE MCSen66Protocol ---------------------------
(***************************************************************************)
(* A response on its way from the sensor to the parser: the part fills its *)
(* words and appends a CRC to each, the link flips bits.                   *)
(***************************************************************************)
EXTENDS Sen66Protocol, FiniteSets

CONSTANTS
    Lengths,    \* the numbers of words of the responses
    Samples,    \* payload words
    Base,       \* bound: the payload of all words but one
    MaxFlips,   \* bound: single bits flipped in a response of one word
    LongBits    \* bound: in a longer one, the bits of which one is flipped

Payloads == 0 .. 65535

ASSUME LinkAssumption ==
    /\ Lengths \subseteq Nat
    /\ Samples \subseteq Payloads /\ Base \in Payloads
    /\ MaxFlips \in 0 .. 3
    /\ LongBits \subseteq 0 .. 23

VARIABLES
    words,      \* the payload the part sends
    flips       \* the flipped bits, as <<word, bit>>; the bits of a word are
                \* numbered 0..23 in the order they are sent, top bit first

linkVars == <<words, flips>>

Intact(n) == [i \in 1 .. n |-> Base]

LinkInit == words = <<>> /\ flips = {}

Begin(n) ==
    /\ words = <<>>
    /\ words' = Intact(n)
    /\ UNCHANGED flips

OneWord == Len(words) = 1

Fill(i, w) ==
    /\ flips = {} /\ words = Intact(Len(words))
    /\ words' = [words EXCEPT ![i] = w]
    /\ UNCHANGED flips

Flip(i, b) ==
    /\ Cardinality(flips) < IF OneWord THEN MaxFlips ELSE 1
    /\ flips' = flips \cup {<<i, b>>}
    /\ UNCHANGED words

Burst(i, b, pattern) ==
    /\ OneWord /\ flips = {}
    /\ flips' = {<<i, b + k>> : k \in pattern}
    /\ UNCHANGED words

LinkNext ==
    \/ \E n \in Lengths : Begin(n)
    \/ \E i \in DOMAIN words :
          \/ \E w \in Samples : Fill(i, w)
          \/ \E b \in IF OneWord THEN 0 .. 23 ELSE LongBits : Flip(i, b)
          \/ \E b \in 0 .. 16 : \E pattern \in SUBSET (0 .. 7) :
                pattern # {} /\ Burst(i, b, pattern)

LinkSpec == LinkInit /\ [][LinkNext]_linkVars

-----------------------------------------------------------------------------
\* The byte that stands for a number.
Bits(n) == {b \in 0 .. 7 : (n \div Weight[b + 1]) % 2 = 1}

\* The three bytes of word i as the part sends them, and as they arrive.
Payload(i) == <<Bits(words[i] \div 256), Bits(words[i] % 256)>>
Sent(i) == <<Payload(i)[1], Payload(i)[2], Crc(Payload(i))>>
Mask(i, byte) == {b \in 0 .. 7 : <<i, 8 * byte - 1 - b>> \in flips}
Arrived(i, byte) == SymDiff(Sent(i)[byte], Mask(i, byte))
Wire == [i \in DOMAIN words |->
            <<Arrived(i, 1), Arrived(i, 2), Arrived(i, 3)>>]

Before == [value |-> <<>>, valid |-> {}]

\* sen66_crc.cpp: up to three wrong bits of a word, or any burst of up to eight
\* as they are sent, are always noticed.
CorruptionNoticed == flips # {} => ~CheckWordsCrc(Wire)

\* docs/sen66-driver.md, "Sensirion CRC": a transport error in any word rejects
\* the whole frame and leaves the caller's measurement alone.
CorruptionRejected ==
    flips # {} /\ ~OneWord =>
        /\ ParseMeasurement(Wire, Before) = [ok |-> FALSE, out |-> Before]
        /\ ParseSerialNumber(Wire, Before) = [ok |-> FALSE, out |-> Before]

\* The channel of word i in a measurement.
ChannelExact(out, i) ==
    LET v == out.value[i]
    IN  /\ v % 65536 = words[i]
        /\ IF i \in 5 .. 8
              THEN -32768 <= v /\ v <= 32767 /\ (i \in out.valid <=> words[i] # 32767)
              ELSE 0 <= v /\ v <= 65535 /\ (i \in out.valid <=> words[i] # 65535)

\* sen66_protocol.h:80-85 and docs/sen66-driver.md, "Measurement decoding":
\* every channel has the value and the signedness of its word, and is valid
\* unless that word is the sentinel of its own type: -1 is a valid temperature
\* and 32767 a valid concentration.
DecodedExactly ==
    flips = {} /\ Len(words) = kMeasurementWords =>
        LET p == ParseMeasurement(Wire, Before)
        IN  /\ p.ok
            /\ \A i \in DOMAIN words : ChannelExact(p.out, i)

\* sen66_protocol.h:88-91: all 32 characters arrive in order, and whatever they
\* are the string is terminated inside its buffer.
SerialExact ==
    flips = {} /\ Len(words) = kSerialWords =>
        LET p == ParseSerialNumber(Wire, Before)
        IN  /\ p.ok /\ Len(p.out) = kSerialChars
            /\ Last(p.out) = {}
            /\ \A i \in DOMAIN words :
                   ByteValue(p.out[2*i - 1]) * 256 + ByteValue(p.out[2*i]) = words[i]

\* A line that is stuck while a response is read delivers the same bit for all
\* of it, CRCs included: no such response of any length is taken for a frame.
StuckLineNoticed ==
    \A byte \in {{}, 0 .. 7} :
        words # <<>> => ~CheckWordsCrc([i \in DOMAIN words |-> <<byte, byte, byte>>])
=============================================================================
