------------------------ MODULE AirQualityPolicyProofs -------------------------
(***************************************************************************)
(* The overall air-quality level for every reading, not only those around  *)
(* a breakpoint; the shell's decimals, and their agreement with the Matter *)
(* attributes, for every reading.                                          *)
(***************************************************************************)
EXTENDS MCAirQualityPolicy, MCSen66Printing, TLAPS

One(b) == IF b THEN 1 ELSE 0

LEMMA BreakpointsKnown ==
    \A c \in AirQualityChannels :
        /\ \A i \in 1 .. 5 : Breakpoints[c][i] \in Int
        /\ Breakpoints[c][1] < Breakpoints[c][2] /\ Breakpoints[c][2] < Breakpoints[c][3]
        /\ Breakpoints[c][3] < Breakpoints[c][4] /\ Breakpoints[c][4] < Breakpoints[c][5]
<1> SUFFICES ASSUME NEW c \in AirQualityChannels
             PROVE  /\ \A i \in 1 .. 5 : Breakpoints[c][i] \in Int
                    /\ Breakpoints[c][1] < Breakpoints[c][2]
                    /\ Breakpoints[c][2] < Breakpoints[c][3]
                    /\ Breakpoints[c][3] < Breakpoints[c][4]
                    /\ Breakpoints[c][4] < Breakpoints[c][5]
  OBVIOUS
<1>1. CASE c = "co2"
  <2>1. Breakpoints[c] = <<800, 1000, 1500, 2500, 5000>>
    BY <1>1 DEF Breakpoints
  <2>2. QED
    BY <2>1
<1>2. CASE c = "pm2p5"
  <2>1. Breakpoints[c] = <<90, 354, 554, 1254, 2254>>
    BY <1>2 DEF Breakpoints
  <2>2. QED
    BY <2>1
<1>3. CASE c = "pm10"
  <2>1. Breakpoints[c] = <<540, 1540, 2540, 3540, 4240>>
    BY <1>3 DEF Breakpoints
  <2>2. QED
    BY <2>1
<1>4. QED
  BY <1>1, <1>2, <1>3 DEF AirQualityChannels

\* The if-chain of ClassifyChannel, as the number of bounds exceeded.
LEMMA ClassifyCounts ==
    ASSUME NEW value \in Int, NEW c \in AirQualityChannels
    PROVE  LET bp == Breakpoints[c] IN
           ClassifyChannel(value, bp) =
               1 + One(value > bp[1]) + One(value > bp[2]) + One(value > bp[3])
                 + One(value > bp[4]) + One(value > bp[5])
<1> DEFINE bp == Breakpoints[c]
           decides(l) == /\ l < 6 => value <= bp[l]
                         /\ \A lower \in 1 .. l - 1 : value > bp[lower]
           count == 1 + One(value > bp[1]) + One(value > bp[2]) + One(value > bp[3])
                      + One(value > bp[4]) + One(value > bp[5])
<1>1. /\ bp[1] \in Int /\ bp[2] \in Int /\ bp[3] \in Int /\ bp[4] \in Int /\ bp[5] \in Int
      /\ bp[1] < bp[2] /\ bp[2] < bp[3] /\ bp[3] < bp[4] /\ bp[4] < bp[5]
  BY BreakpointsKnown
<1>2. count \in 1 .. 6 /\ decides(count)
  BY <1>1 DEF One
<1>3. ASSUME NEW l \in 1 .. 6, decides(l) PROVE l = count
  <2>1. \A lower \in 1 .. l - 1 : value > bp[lower]
    BY <1>3
  <2>2. l < 6 => value <= bp[l]
    BY <1>3
  <2>3. l = 1 \/ l = 2 \/ l = 3 \/ l = 4 \/ l = 5 \/ l = 6
    BY <1>3
  <2> HIDE DEF bp
  <2>4. CASE l = 1
    BY <1>1, <2>2, <2>4 DEF One
  <2>5. CASE l = 2
    BY <1>1, <2>1, <2>2, <2>5 DEF One
  <2>6. CASE l = 3
    BY <1>1, <2>1, <2>2, <2>6 DEF One
  <2>7. CASE l = 4
    BY <1>1, <2>1, <2>2, <2>7 DEF One
  <2>8. CASE l = 5
    BY <1>1, <2>1, <2>2, <2>8 DEF One
  <2>9. CASE l = 6
    BY <1>1, <2>1, <2>9 DEF One
  <2>10. QED
    BY <2>3, <2>4, <2>5, <2>6, <2>7, <2>8, <2>9
<1>4. ClassifyChannel(value, bp) = CHOOSE l \in 1 .. 6 : decides(l)
  BY DEF ClassifyChannel, Good, ExtremelyPoor
<1> HIDE DEF decides, count, bp
<1>5. (CHOOSE l \in 1 .. 6 : decides(l)) = count
  BY <1>2, <1>3
<1>6. QED
  BY <1>4, <1>5 DEF count, bp

LEMMA ClassifyMonotonic ==
    ASSUME NEW c \in AirQualityChannels, NEW v \in Int, NEW w \in Int, v <= w
    PROVE  /\ ClassifyChannel(v, Breakpoints[c]) \in 1 .. 6
           /\ ClassifyChannel(w, Breakpoints[c]) \in 1 .. 6
           /\ ClassifyChannel(v, Breakpoints[c]) <= ClassifyChannel(w, Breakpoints[c])
BY ClassifyCounts, BreakpointsKnown DEF One

-----------------------------------------------------------------------------
\* A reading is Invalid or a number.
ReadingsOK == readings \in [AirQualityChannels -> Int \cup {Invalid}]

\* The words of the sensor are numbers.
LEMMA WordsAreNumbers ==
    /\ \A n \in Words : n \in Nat
    /\ \A n \in SignedWords : n \in Int /\ n <= 32767 /\ n >= -32768
<1> DEFINE top == 65534 + 1
           low == -32767 - 1
           high == 32766 + 1
<1>1. Words = 0 .. top /\ SignedWords = low .. high
  BY DEF Words, SignedWords
<1>2. /\ top \in Int /\ low \in Int /\ high \in Int
      /\ high <= 32767 /\ low >= -32768
  OBVIOUS
<1> HIDE DEF top, low, high
<1> QED BY <1>1, <1>2

LEMMA LevelReadingsAreIntegers ==
    \A c \in AirQualityChannels : LevelReadings[c] \subseteq Int
<1> TAKE c \in AirQualityChannels
<1>1. LevelReadings[c] \subseteq Words
  BY LevelAssumption
<1>2. \A k \in Nat : k \in Int
  OBVIOUS
<1> QED BY <1>1, <1>2, WordsAreNumbers

LEMMA ReadingsInvariant == LevelSpec => []ReadingsOK
<1>1. LevelInit => ReadingsOK
  BY DEF LevelInit, ReadingsOK
<1>2. ReadingsOK /\ [LevelNext]_readings => ReadingsOK'
  BY LevelReadingsAreIntegers DEF ReadingsOK, LevelNext
<1>3. QED
  BY <1>1, <1>2, PTL DEF LevelSpec

LEMMA ReadingsCount == ReadingsOK => CountsExceededBounds
<1> SUFFICES ASSUME ReadingsOK, NEW c \in ValidChannels
             PROVE  LevelOf(c) =
                      Good + (IF readings[c] > Breakpoints[c][1] THEN 1 ELSE 0)
                           + (IF readings[c] > Breakpoints[c][2] THEN 1 ELSE 0)
                           + (IF readings[c] > Breakpoints[c][3] THEN 1 ELSE 0)
                           + (IF readings[c] > Breakpoints[c][4] THEN 1 ELSE 0)
                           + (IF readings[c] > Breakpoints[c][5] THEN 1 ELSE 0)
  BY DEF CountsExceededBounds
<1>1. c \in AirQualityChannels /\ readings[c] \in Int
  BY DEF ValidChannels, InputsOf, ReadingsOK
<1>2. QED
  BY <1>1, ClassifyCounts DEF LevelOf, Good, One

\* docs/air-quality-policy.md's tables, for every reading of every channel:
\* the category is one more than the number of bounds exceeded.
THEOREM CategoryIsBoundsExceeded == LevelSpec => []CountsExceededBounds
BY ReadingsInvariant, ReadingsCount, PTL

-----------------------------------------------------------------------------
\* One more channel: the level so far decides, or the channel's own.
LEMMA Consider ==
    ASSUME ReadingsOK, NEW c \in AirQualityChannels, NEW worst \in 0 .. 6
    PROVE  LET level == ConsiderChannel(InputsOf(readings), c, worst)
           IN  /\ level \in 0 .. 6
               /\ worst <= level
               /\ c \in ValidChannels => LevelOf(c) \in 1 .. 6 /\ LevelOf(c) <= level
               /\ level = worst \/ (c \in ValidChannels /\ level = LevelOf(c))
<1> DEFINE level == ConsiderChannel(InputsOf(readings), c, worst)
<1>1. CASE c \in ValidChannels
  <2>1. InputsOf(readings)[c] = readings[c] /\ readings[c] \in Int
    BY <1>1 DEF ValidChannels, InputsOf, ReadingsOK
  <2>2. LevelOf(c) \in 1 .. 6
    BY <2>1, ClassifyMonotonic DEF LevelOf
  <2>3. level = Worse(worst, LevelOf(c))
    BY <1>1, <2>1 DEF ConsiderChannel, ValidChannels, LevelOf
  <2> HIDE DEF level
  <2>4. QED
    BY <1>1, <2>2, <2>3 DEF Worse, level
<1>2. CASE c \notin ValidChannels
  BY <1>2 DEF ConsiderChannel, ValidChannels
<1>3. QED
  BY <1>1, <1>2

LEMMA WorstOfThree == ReadingsOK => WorstValidDecides
<1> SUFFICES ASSUME ReadingsOK PROVE WorstValidDecides
  OBVIOUS
<1>1. /\ AirQualityChannels = {"co2", "pm2p5", "pm10"}
      /\ ValidChannels \subseteq AirQualityChannels
  BY DEF AirQualityChannels, ValidChannels, InputsOf
<1> DEFINE a == ConsiderChannel(InputsOf(readings), "co2", Unknown)
           b == ConsiderChannel(InputsOf(readings), "pm2p5", a)
           d == ConsiderChannel(InputsOf(readings), "pm10", b)
           valid(c) == c \in ValidChannels
<1>2. /\ a \in 0 .. 6
      /\ valid("co2") => LevelOf("co2") \in 1 .. 6 /\ LevelOf("co2") <= a
      /\ a = 0 \/ (valid("co2") /\ a = LevelOf("co2"))
  BY <1>1, Consider DEF Unknown
<1> HIDE DEF a
<1>3. /\ b \in 0 .. 6 /\ a <= b
      /\ valid("pm2p5") => LevelOf("pm2p5") \in 1 .. 6 /\ LevelOf("pm2p5") <= b
      /\ b = a \/ (valid("pm2p5") /\ b = LevelOf("pm2p5"))
  BY <1>1, <1>2, Consider
<1> HIDE DEF b
<1>4. /\ d \in 0 .. 6 /\ b <= d
      /\ valid("pm10") => LevelOf("pm10") \in 1 .. 6 /\ LevelOf("pm10") <= d
      /\ d = b \/ (valid("pm10") /\ d = LevelOf("pm10"))
  BY <1>1, <1>3, Consider
<1>5. d = EvaluateAirQuality(InputsOf(readings))
  BY DEF EvaluateAirQuality, a, b, d
<1> HIDE DEF d
<1>6. CASE ValidChannels = {}
  BY <1>2, <1>3, <1>4, <1>5, <1>6 DEF WorstValidDecides, Unknown
<1>7. CASE ValidChannels # {}
  <2>1. valid("co2") \/ valid("pm2p5") \/ valid("pm10")
    BY <1>1, <1>7
  <2>2. /\ valid("co2") => LevelOf("co2") \in 1 .. 6 /\ LevelOf("co2") <= d
        /\ valid("pm2p5") => LevelOf("pm2p5") \in 1 .. 6 /\ LevelOf("pm2p5") <= d
    BY <1>2, <1>3, <1>4
  <2>3. \A c \in ValidChannels : LevelOf(c) <= d
    BY <1>1, <1>4, <2>2
  <2>4. d > 0
    BY <1>4, <2>1, <2>2
  <2>5. \E c \in ValidChannels : LevelOf(c) = d
    BY <1>2, <1>3, <1>4, <2>4
  <2>6. QED
    BY <1>5, <1>7, <2>3, <2>5 DEF WorstValidDecides
<1>8. QED
  BY <1>6, <1>7

\* docs/air-quality-policy.md, "Aggregation rule": the overall level is that of
\* the worst valid channel, for all readings and whichever channels are valid.
THEOREM LevelIsTheWorst == LevelSpec => []WorstValidDecides
BY ReadingsInvariant, WorstOfThree, PTL

-----------------------------------------------------------------------------
\* sen66_shell.cpp's PrintSignedFixed shows every integer as it is, also those
\* between -1 and 0 whose whole part has no sign.
THEOREM SignedFixedIsExact ==
    ASSUME NEW scaled \in Int, NEW pow \in {10, 100}
    PROVE  /\ PrintSignedFixed(scaled, pow).frac \in 0 .. pow - 1
           /\ Shown(PrintSignedFixed(scaled, pow)) = scaled
<1> DEFINE size == IF scaled < 0 THEN -scaled ELSE scaled
           q == size \div pow
           r == size % pow
<1>1. size \in Nat /\ q \in Nat /\ r \in 0 .. pow - 1 /\ size = q * pow + r
  <2>1. CASE pow = 10
    BY <2>1
  <2>2. CASE pow = 100
    BY <2>2
  <2>3. QED
    BY <2>1, <2>2
<1>2. Quotient(scaled, pow) = IF scaled < 0 THEN -q ELSE q
  BY DEF Quotient
<1>3. pow * q \in Nat /\ q * pow = pow * q /\ pow * (-q) = -(pow * q)
  BY <1>1
<1> HIDE DEF q, r
<1>4. Rem(scaled, pow) = IF scaled < 0 THEN -r ELSE r
  <2>1. CASE scaled < 0
    BY <1>1, <1>2, <1>3, <2>1 DEF Rem
  <2>2. CASE scaled >= 0
    BY <1>1, <1>2, <1>3, <2>2 DEF Rem
  <2>3. QED
    BY <2>1, <2>2
<1> DEFINE whole == IF scaled < 0 THEN -q ELSE q
           n == PrintSignedFixed(scaled, pow)
<1>5. /\ n.minus = (scaled < 0 /\ whole = 0)
      /\ n.whole = whole /\ n.frac = r /\ n.pow = pow
  <2>1. (IF Rem(scaled, pow) < 0 THEN -Rem(scaled, pow) ELSE Rem(scaled, pow)) = r
    BY <1>1, <1>4
  <2>2. QED
    BY <1>2, <2>1 DEF PrintSignedFixed, Number
<1>6. /\ scaled < 0 => whole = -q
      /\ ~(scaled < 0) => whole = q
      /\ q = 0 => whole = 0
  BY <1>1
<1> HIDE DEF n, whole
<1>7. ASSUME scaled < 0 PROVE Shown(n) = scaled
  <2>1. q = 0 => n.minus
    BY <1>5, <1>6, <1>7, Zenon
  <2>2. n.minus \/ n.whole < 0
    BY <1>1, <1>5, <1>6, <1>7, <2>1
  <2>3. (IF n.whole < 0 THEN -n.whole ELSE n.whole) = q
    BY <1>1, <1>5, <1>6, <1>7
  <2>4. Shown(n) = -(q * pow + r)
    BY <1>5, <2>2, <2>3 DEF Shown
  <2>5. QED
    BY <1>1, <1>7, <2>4
<1>8. ASSUME ~(scaled < 0) PROVE Shown(n) = scaled
  <2>1. n.whole = q /\ ~n.minus
    BY <1>5, <1>6, <1>8, Zenon
  <2>2. ~(n.whole < 0)
    BY <1>1, <2>1
  <2>3. Shown(n) = q * pow + r
    BY <1>5, <2>1, <2>2 DEF Shown
  <2>4. QED
    BY <1>1, <1>8, <2>3
<1>9. QED
  BY <1>1, <1>5, <1>7, <1>8 DEF n

-----------------------------------------------------------------------------
\* The unsigned tenths and the plain numbers of the shell.
LEMMA UnsignedIsExact ==
    ASSUME NEW raw \in Nat
    PROVE  /\ PrintUnsignedTenth(raw).frac \in 0 .. 9
           /\ PrintUnsignedTenth(raw).pow = 10
           /\ Shown(PrintUnsignedTenth(raw)) = raw
           /\ Shown(Number(FALSE, raw, 0, 1)) = raw
<1> DEFINE q == raw \div 10
           r == raw % 10
<1>1. q \in Nat /\ r \in 0 .. 9 /\ raw = q * 10 + r
  OBVIOUS
<1>2. PrintUnsignedTenth(raw) = Number(FALSE, q, r, 10)
  BY DEF PrintUnsignedTenth
<1> HIDE DEF q, r
<1>3. Shown(Number(FALSE, q, r, 10)) = q * 10 + r
  BY <1>1 DEF Shown, Number
<1>4. Shown(Number(FALSE, raw, 0, 1)) = raw
  BY <1>1 DEF Shown, Number
<1> QED BY <1>1, <1>2, <1>3, <1>4 DEF Number

\* Half a hundredth of a degree is cut off towards zero.
LEMMA TemperatureCut ==
    ASSUME NEW raw \in Int
    PROVE  /\ TemperatureRawToMatterCentiDegC(raw) \in Int
           /\ TemperatureRawToMatterCentiDegC(raw) * 200 = raw * 100 - Rem(raw, 2) * 100
<1>1. TemperatureRawToMatterCentiDegC(raw) = Quotient(raw * 100, 200)
  BY DEF TemperatureRawToMatterCentiDegC
<1>2. CASE raw >= 0
  <2>1. Quotient(raw * 100, 200) = raw \div 2 /\ Quotient(raw, 2) = raw \div 2
    BY <1>2 DEF Quotient
  <2>2. raw \div 2 \in Int /\ Rem(raw, 2) = raw - 2 * (raw \div 2)
    BY <2>1 DEF Rem
  <2> QED BY <1>1, <2>1, <2>2
<1>3. CASE raw < 0
  <2> DEFINE half == (-raw) \div 2
  <2>1. Quotient(raw * 100, 200) = -half /\ Quotient(raw, 2) = -half
    BY <1>3 DEF Quotient
  <2>2. half \in Int /\ Rem(raw, 2) = raw - 2 * (-half)
    BY <2>1 DEF Rem
  <2> HIDE DEF half
  <2> QED BY <1>1, <2>1, <2>2
<1> QED BY <1>2, <1>3

\* Which line is printed for the two readings that are also attributes.
LEMMA PrintedLines ==
    ASSUME NEW c, NEW raw
    PROVE  /\ c = "temperature" =>
                 PrintChannel(c, raw) = PrintSignedFixed(TemperatureRawToMatterCentiDegC(raw), 100)
           /\ c = "humidity" => PrintChannel(c, raw) = PrintSignedFixed(raw, 100)
BY DEF PrintChannel, TemperatureRawToMatterCentiDegC

\* Every line of PrintMeasurement shows its reading in the channel's unit, to
\* the last digit printed, whatever the reading.
THEOREM LinesShowTheReading == PrintedTruly
<1> SUFFICES ASSUME NEW c \in {"pm1p0", "humidity", "temperature", "voc_index", "co2"},
                    reading \in TypeOf(c)
             PROVE  LET n == PrintMeasurement([value |-> [a \in {c} |-> reading],
                                               valid |-> {c}])[c]
                    IN  /\ n.frac \in 0 .. n.pow - 1
                        /\ Shown(n) * Units[c] = reading * n.pow
                             - (IF c = "temperature" THEN Rem(reading, 2) * 100 ELSE 0)
  BY DEF PrintedTruly, Units
<1> DEFINE n == PrintChannel(c, reading)
<1>1. PrintMeasurement([value |-> [a \in {c} |-> reading], valid |-> {c}])[c] = n
  BY DEF PrintMeasurement
<1>2. /\ Units["pm1p0"] = 10 /\ Units["humidity"] = 100 /\ Units["temperature"] = 200
      /\ Units["voc_index"] = 10 /\ Units["co2"] = 1
  BY DEF Units
<1>3. \A s \in Int, pow \in {10, 100} : PrintSignedFixed(s, pow).pow = pow
  BY DEF PrintSignedFixed, Number
<1>4. /\ reading \in Int
      /\ c \in {"pm1p0", "co2"} => reading \in Nat
  <2>1. \A k \in Nat : k \in Int
    OBVIOUS
  <2> QED BY WordsAreNumbers, <2>1 DEF TypeOf
<1> DEFINE Truly == /\ n.frac \in 0 .. n.pow - 1
                    /\ Shown(n) * Units[c] = reading * n.pow
                         - (IF c = "temperature" THEN Rem(reading, 2) * 100 ELSE 0)
<1>5. ASSUME c = "pm1p0" PROVE Truly
  <2>1. n = PrintUnsignedTenth(reading) /\ reading \in Nat
    BY <1>4, <1>5 DEF PrintChannel
  <2>2. n.frac \in 0 .. 9 /\ n.pow = 10 /\ Shown(n) = reading
    BY <2>1, UnsignedIsExact
  <2> HIDE DEF n
  <2> QED BY <1>2, <1>4, <1>5, <2>2
<1>6. ASSUME c = "humidity" PROVE Truly
  <2>1. n = PrintSignedFixed(reading, 100)
    BY <1>6, PrintedLines
  <2>2. n.frac \in 0 .. 99 /\ n.pow = 100 /\ Shown(n) = reading
    BY <1>3, <1>4, <2>1, SignedFixedIsExact
  <2> HIDE DEF n
  <2> QED BY <1>2, <1>4, <1>6, <2>2
<1>7. ASSUME c = "voc_index" PROVE Truly
  <2>1. n = PrintSignedFixed(reading, 10)
    BY <1>7 DEF PrintChannel
  <2>2. n.frac \in 0 .. 9 /\ n.pow = 10 /\ Shown(n) = reading
    BY <1>3, <1>4, <2>1, SignedFixedIsExact
  <2> HIDE DEF n
  <2> QED BY <1>2, <1>4, <1>7, <2>2
<1>8. ASSUME c = "temperature" PROVE Truly
  <2> DEFINE cut == TemperatureRawToMatterCentiDegC(reading)
  <2>1. n = PrintSignedFixed(cut, 100)
    BY <1>8, PrintedLines
  <2>2. cut \in Int /\ cut * 200 = reading * 100 - Rem(reading, 2) * 100
    BY <1>4, TemperatureCut
  <2> HIDE DEF cut
  <2>3. n.frac \in 0 .. 99 /\ n.pow = 100 /\ Shown(n) = cut
    BY <1>3, <2>1, <2>2, SignedFixedIsExact
  <2> HIDE DEF n
  <2> QED BY <1>2, <1>8, <2>2, <2>3
<1>9. ASSUME c = "co2" PROVE Truly
  <2>1. n = Number(FALSE, reading, 0, 1) /\ reading \in Nat
    BY <1>4, <1>9 DEF PrintChannel
  <2>2. n.frac = 0 /\ n.pow = 1 /\ Shown(n) = reading
    BY <2>1, UnsignedIsExact DEF Number
  <2> HIDE DEF n
  <2> QED BY <1>2, <1>4, <1>9, <2>2
<1> HIDE DEF n
<1>10. Truly
  BY <1>5, <1>6, <1>7, <1>8, <1>9, Zenon
<1> QED BY <1>1, <1>10

\* The shell and a Matter client see the same temperature and humidity, for
\* every reading; a humidity below zero is no humidity in the attribute.
THEOREM ShellAgreesWithAttributes == AttributesAgree
<1> SUFFICES ASSUME reading \in SignedWords
             PROVE  /\ TemperatureRawToMatterCentiDegC(reading) = ShellShows("temperature")
                    /\ reading >= 0 =>
                          HumidityRawToMatterCentiPercent(reading) = ShellShows("humidity")
                    /\ reading < 0 =>
                          HumidityRawToMatterCentiPercent(reading) > 10000
  BY DEF AttributesAgree
<1>1. reading \in Int /\ reading <= 32767 /\ reading >= -32768
  BY WordsAreNumbers
<1>2. TemperatureRawToMatterCentiDegC(reading) = ShellShows("temperature")
  <2> DEFINE cut == TemperatureRawToMatterCentiDegC(reading)
  <2>1. cut \in Int
    BY <1>1, TemperatureCut
  <2>2. PrintChannel("temperature", reading) = PrintSignedFixed(cut, 100)
    BY PrintedLines
  <2> HIDE DEF cut
  <2>3. Shown(PrintSignedFixed(cut, 100)) = cut
    BY <2>1, SignedFixedIsExact
  <2> QED BY <2>2, <2>3 DEF ShellShows, cut
<1>3. reading >= 0 =>
         HumidityRawToMatterCentiPercent(reading) = ShellShows("humidity")
  <2> SUFFICES ASSUME reading >= 0
               PROVE  HumidityRawToMatterCentiPercent(reading) = ShellShows("humidity")
    OBVIOUS
  <2>1. PrintChannel("humidity", reading) = PrintSignedFixed(reading, 100)
    BY PrintedLines
  <2>2. Shown(PrintSignedFixed(reading, 100)) = reading
    BY <1>1, SignedFixedIsExact
  <2>3. HumidityRawToMatterCentiPercent(reading) = reading
    BY <1>1 DEF HumidityRawToMatterCentiPercent
  <2> QED BY <2>1, <2>2, <2>3 DEF ShellShows
<1>4. reading < 0 =>
         HumidityRawToMatterCentiPercent(reading) > 10000
  <2> SUFFICES ASSUME reading < 0
               PROVE  HumidityRawToMatterCentiPercent(reading) > 10000
    OBVIOUS
  <2>1. reading % 65536 = reading + 65536
    BY <1>1
  <2> QED BY <1>1, <2>1 DEF HumidityRawToMatterCentiPercent
<1> QED BY <1>2, <1>3, <1>4
=============================================================================
