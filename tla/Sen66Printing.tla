---------------------------- MODULE Sen66Printing ----------------------------
(***************************************************************************)
(* How the shell prints a measurement (sen66_shell.cpp:29-105).  A printed *)
(* number is the record of what the format shows: a minus sign in front, a *)
(* whole part printed with %d or %u, and decimals that show a fraction of  *)
(* the given power of ten.                                                 *)
(***************************************************************************)
EXTENDS AirQualityPolicy

\* C++ integer remainder: it has the sign of the dividend.
Rem(a, b) == a - b * Quotient(a, b)

Number(minus, whole, frac, pow) ==
    [minus |-> minus, whole |-> whole, frac |-> frac, pow |-> pow]

PrintUnsignedTenth(raw) == Number(FALSE, raw \div 10, raw % 10, 10)

\* Faulty variant: without the sign of a value between -1 and 0.
PrintSignedNoSign(scaled, pow) ==
    LET rem == Rem(scaled, pow)
    IN  Number(FALSE, Quotient(scaled, pow), IF rem < 0 THEN -rem ELSE rem, pow)

\* %d shows the minus of a negative whole part; `sign` stands in for it when
\* the whole part is zero.
PrintSignedFixed(scaled, pow) ==
    LET whole == Quotient(scaled, pow)
        rem   == Rem(scaled, pow)
    IN  Number(scaled < 0 /\ whole = 0, whole, IF rem < 0 THEN -rem ELSE rem, pow)

\* The line of a channel, when its validity bit is set.
PrintChannel(c, raw) ==
    CASE c \in {"pm1p0", "pm2p5", "pm4p0", "pm10"} -> PrintUnsignedTenth(raw)
      [] c = "humidity"                 -> PrintSignedFixed(raw, 100)
      [] c = "temperature"              -> PrintSignedFixed(Quotient(raw * 100, 200), 100)
      [] c \in {"voc_index", "nox_index"} -> PrintSignedFixed(raw, 10)
      [] OTHER                          -> Number(FALSE, raw, 0, 1)

\* PrintMeasurement: "<n/a>" for a channel whose validity bit is clear.
NotAvailable == Number(FALSE, 0, 0, 0)
PrintMeasurement(measurement) ==
    [c \in DOMAIN measurement.value |->
        IF c \in measurement.valid THEN PrintChannel(c, measurement.value[c])
                                   ELSE NotAvailable]

-----------------------------------------------------------------------------
\* What a reader of the line takes it for, in units of 1/pow: a minus anywhere
\* in front makes the whole number negative.
Shown(n) ==
    LET negative == n.minus \/ n.whole < 0
        size     == (IF n.whole < 0 THEN -n.whole ELSE n.whole) * n.pow + n.frac
    IN  IF negative THEN -size ELSE size
=============================================================================
