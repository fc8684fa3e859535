-------------------------- MODULE AirQualityPolicy ---------------------------
(***************************************************************************)
(* The pure part of the Matter endpoint (air_quality_policy.{h,cpp}): unit *)
(* conversions and the overall air-quality level.                          *)
(*                                                                         *)
(* A set of inputs (PolicyInputs) is a function from the valid channels to *)
(* their raw readings.  Particulate concentrations stay in tenths of       *)
(* ug/m3: every breakpoint has at most one decimal, so comparing           *)
(* float(raw) / 10.0f with it is comparing raw with ten times it.          *)
(***************************************************************************)
EXTENDS Integers

Words == 0 .. 65535             \* uint16_t
SignedWords == -32768 .. 32767  \* int16_t

Unknown == 0                    \* AirQualityLevel::kUnknown
Good == 1
ExtremelyPoor == 6
Levels == Unknown .. ExtremelyPoor

\* kCo2BreakpointsPpm, kPm2p5BreakpointsUgm3 and kPm10BreakpointsUgm3: the
\* inclusive upper bounds of Good, Fair, Moderate, Poor and VeryPoor.
Breakpoints == [co2   |-> <<800, 1000, 1500, 2500, 5000>>,
                pm2p5 |-> <<90, 354, 554, 1254, 2254>>,
                pm10  |-> <<540, 1540, 2540, 3540, 4240>>]

AirQualityChannels == {"co2", "pm2p5", "pm10"}

\* Faulty variant: the bounds are exclusive.
ClassifyExclusive(value, bp) ==
    CHOOSE level \in Good .. ExtremelyPoor :
        /\ level < ExtremelyPoor => value < bp[level]
        /\ \A lower \in Good .. level - 1 : value >= bp[lower]

\* The first bound that is not exceeded decides.
ClassifyChannel(value, bp) ==
    CHOOSE level \in Good .. ExtremelyPoor :
        /\ level < ExtremelyPoor => value <= bp[level]
        /\ \A lower \in Good .. level - 1 : value > bp[lower]

Worse(worst, level) == IF level > worst THEN level ELSE worst

\* The lambda of EvaluateAirQuality, skipped for an invalid channel.
ConsiderChannel(inputs, c, worst) ==
    IF c \in DOMAIN inputs
       THEN Worse(worst, ClassifyChannel(inputs[c], Breakpoints[c]))
       ELSE worst

\* Faulty variant: a clean channel considered later masks a worse one.
EvaluateLast(inputs) ==
    IF "pm10" \in DOMAIN inputs
       THEN ClassifyChannel(inputs["pm10"], Breakpoints["pm10"])
       ELSE ConsiderChannel(inputs, "pm2p5", ConsiderChannel(inputs, "co2", Unknown))

\* `worst` is still Unknown when no channel was considered.
EvaluateAirQuality(inputs) ==
    ConsiderChannel(inputs, "pm10",
        ConsiderChannel(inputs, "pm2p5",
            ConsiderChannel(inputs, "co2", Unknown)))

-----------------------------------------------------------------------------
(* Unit conversions.                                                       *)

\* C++ integer division truncates towards zero.
Quotient(a, b) == IF a >= 0 THEN a \div b ELSE -((-a) \div b)

\* Faulty variant: a shift rounds a negative reading down.
TemperatureByShift(raw) == raw \div 2

TemperatureRawToMatterCentiDegC(raw) == Quotient(raw * 100, 200)

\* The cast of a negative reading wraps around.
HumidityRawToMatterCentiPercent(raw) == raw % 65536
=============================================================================
