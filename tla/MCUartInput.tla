----------------------------- MODULE MCUartInput -----------------------------
(* Instances of UartInput for TLC: the rates, dwells and ticks of the code,  *)
(* short sentences, and a tick counter that wraps during a scan.             *)
EXTENDS UartInput, SequencesExt

\* The bytes of a text, and ASCII as far as the bytes in use need it.
Bytes(text) == [i \in 1 .. Len(text) |-> SubSeq(text, i, i)]
Codes(first, text) ==
    [b \in ToSet(Bytes(text)) |->
        first + (CHOOSE i \in DOMAIN Bytes(text) : Bytes(text)[i] = b) - 1]
Lower == Codes(97, "abcdef")
Upper ==
    Codes(32, " !\"#$%&'()*+,-./0123456789:;<=>?@ABCDEFGHIJKLMNOPQRSTUVWXYZ")
MCByteValue ==
    [b \in DOMAIN Upper \cup DOMAIN Lower \cup {"\r", "\n"} |->
        CASE b = "\r" -> 13
          [] b = "\n" -> 10
          [] b \in DOMAIN Lower -> Lower[b]
          [] OTHER -> Upper[b]]

\* A textbook sentence and its checksum.
ASSUME ChecksumExample ==
    ChecksumOk(Bytes("$GPGGA,123519,4807.038,N,01131.000,E,1,08,0.9,545.4,M,46.9,M,,*47"))

\* Thousandths are what they are called: all digits as one number, a thousand
\* times it, divided by ten for each digit after the dot.
Fields == UNION {[1 .. n -> {"0", "7", "9", "."}] : n \in 1 .. 5}
After(f) ==
    IF "." \in ToSet(f) THEN Len(f) - (CHOOSE i \in DOMAIN f : f[i] = ".") ELSE 0
ASSUME NumberAssumption ==
    \A f \in Fields :
        ParseDecimalMilli(f) # <<>> =>
            Thousandths(f) =
                (Decimal(SelectSeq(f, LAMBDA b : b # ".")) * 1000) \div 10^After(f)

Line(text) == Bytes(text \o "\r\n")
Gga == Line("$GPGGA,,,,,,,,0.9*71")
Rmc == Line("$GPRMC,A*26")

MCRates == <<4800, 9600, 19200, 38400, 57600, 115200>>
MCDwellTicks == <<140, 110, 70, 40, 30, 25>>
MCBurst == Gga \o Rmc
MCAntennas ==
    [rate : ToSet(MCRates), period : {100}, phase : {1, 23, 42, 61, 84}]
        \cup [rate : ToSet(MCRates), period : {10}, phase : {1, 6}]
        \cup [rate : ToSet(MCRates), period : {111}, phase : {2, 57}]
        \cup {[rate |-> 0, period |-> 1, phase |-> 0]}
MCNoise == {SubSeq(Gga, 1, 9), Line("$GPZDA,A*25")}

Meaning(type, milli, line) ==
    [type |-> Bytes(type), milli |-> milli, line |-> line]
MCSentences ==
    {Meaning("GGA", 900, Gga),
     Meaning("GGA", 12345, Line("$GPGGA,,,,,,,,12.3456*7f")),
     Meaning("GGA", 32767, Line("$GPGGA,,,,,,,,32.767*4F")),
     Meaning("GGA", 32768, Line("$GPGGA,,,,,,,,32.768*40")),
     Meaning("GGA", -1, Line("$GPGGA,,,,,,,,1.2.3*66")),
     Meaning("GGA", -1, Line("$GPGGA,,,,,,,,*56")),
     Meaning("RMC", 0, Rmc),
     Meaning("RMC", 0, Bytes("$GNRMC,V*2F\n")),
     Meaning("ZDA", 0, Line("$GPZDA,A*25"))}

MCTraffic ==
    {s.line : s \in MCSentences}
        \cup {SubSeq(Gga, 1, 9), SubSeq(Gga, 10, 22),
              [Gga EXCEPT ![17] = "8"],
              Bytes("$GPRMC,AAAAAAAAAAAAAAAAAAAA")}

\* What the theorems about the lock and the pairs ask of the table: it is true,
\* and no two pieces of the stream make an intact line that it lacks.
Pieces == MCTraffic \cup MCNoise \cup {MCBurst}
ASSUME TableAssumption ==
    TableIsSound /\ \A c, d \in Pieces : TableCovers(c \o d)
=============================================================================
