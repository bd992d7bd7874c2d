---------------------------- MODULE MCIraccCmd -----------------------------
EXTENDS IraccCmd

Unit(n) == Pair("unit", Number(100 * n))
Temp(n) == Pair("temp", Number(n))
PowerOn == Pair("power", Word("on"))
PowerOff == Pair("power", Word("off"))
Wind(w) == Pair("wind", Word(w))
Cool == Pair("mode", Word("cool"))

\* Good lines, bad ones and those whose parts do not fit together; unit 256 is
\* stored as unit 0, and unit 9 does not exist.
SomeLines == {
    << >>,
    <<Unit(1), PowerOn>>,
    <<Wind("hh"), PowerOff, Unit(256)>>,
    <<Unit(1), Cool>>,
    <<PowerOn, Unit(1), Pair("wind", Word("5"))>>,
    <<Unit(1), Wind("ll"), Bare("power"), Unit(0)>>,
    <<Pair("unit", Empty), PowerOn, Pair("", Word("x"))>>,
    <<Wind("h"), Bare("unit")>>}

\* Lines that do not fit into the room of three parameters, also cut inside "unit=12"
\* and "unit=1", a unit id that atoi cuts to 0, and texts whose temperature is every tenth of the range and every hundredth of a part of it.
OddLines == {
    <<Unit(1), PowerOn, Wind("m")>>,
    <<Unit(1), Wind("l"), Wind("h"), Wind("xx"), PowerOff>>,
    <<Bare("power"), Unit(1)>>,
    <<Temp(2600), Bare("unit")>>,
    <<Unit(-1), PowerOn>>,
    <<PowerOn, Wind("m"), Unit(1), Bare("2")>>,
    <<PowerOn, Wind("m"), Bare("un"), Pair("it", Number(100))>>,
    <<PowerOn, Wind("h"), Pair("unit", Empty), Bare("1")>>,
    <<Pair("unit", Number(-50)), PowerOn>>,
    <<Unit(1)>>}

Temperatures == {10 * k : k \in 149..351} \cup 1600..1700 \cup 3480..3510

OneLine(lines) == {[lines |-> <<l>>, closed |-> c] : l \in lines, c \in BOOLEAN}
TwoLines(lines) == {[lines |-> <<k, l>>, closed |-> c] : k \in lines, l \in lines, c \in BOOLEAN}

SomeTexts == {t \in OneLine(SomeLines \cup OddLines) \cup TwoLines(SomeLines)
                    \cup OneLine({<<Unit(9), Temp(n)>> : n \in Temperatures}) :
                 t.lines[Len(t.lines)] = << >> => t.closed}

SomeValues == {Empty, Word("on"), Number(100)}
=============================================================================
