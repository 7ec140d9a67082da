------------------------------ MODULE UartInput ------------------------------
(***************************************************************************)
(* UART2 from power-on to pairs, in main/gnss.c: gnss_init_task scans the  *)
(* baud rates until the probe has seen a valid sentence, feeds that chunk  *)
(* to the shared parser and hands the port to gnss_uart_task, which feeds  *)
(* every later chunk.                                                      *)
(*                                                                         *)
(* Time counts in ticks.  A chunk is what arrives during one read, which   *)
(* ends by its timeout: no rate fills the buffer that fast.  The antenna   *)
(* sends Burst once every period at its own rate.  At any other rate the   *)
(* port reads nothing, or noise, at most once per dwell.  After the lock   *)
(* the line may carry anything: chunks are taken from Traffic.             *)
(*                                                                         *)
(* UART2 owns the parser here; GnssPipeline has the upload that may.       *)
(***************************************************************************)
EXTENDS NmeaSentence

CONSTANTS
    Rates,          \* bytes per 1000 ticks, in the order of the scan
    DwellTicks,     \* ticks to stay at each rate
    ReadTicks,      \* UART_READ_WAIT_MS
    TickModulus,    \* 2^32: TickType_t is unsigned
    Antennas,       \* antennas to try: [rate, period, phase], rate 0 for none
    Burst,          \* the bytes an antenna sends in each period
    Noise,          \* chunks that may be read at a wrong rate
    Traffic,        \* chunks that may be read after the lock
    MaxReads,       \* bound on the chunks read after the lock
    Sentences       \* the sentences that mean something: [line, type, milli]

ASSUME ScanAssumption ==
    /\ Rates \in Seq(Nat) /\ DwellTicks \in Seq(Nat)
    /\ Len(Rates) > 0 /\ Len(DwellTicks) = Len(Rates)
    /\ \A i \in DOMAIN DwellTicks : DwellTicks[i] + ReadTicks < TickModulus
    /\ ReadTicks \in Nat \ {0} /\ TickModulus \in Nat /\ MaxReads \in Nat
ASSUME LineAssumption ==
    /\ Antennas \subseteq [rate : Nat, period : Nat \ {0}, phase : Nat]
    /\ \A a \in Antennas : a.phase < a.period
    /\ Burst \in Seq(Byte)
    /\ Noise \subseteq Seq(Byte) /\ Traffic \subseteq Seq(Byte)

VARIABLES
    task,           \* which task reads UART2: "setup", "scan", "read"
    tick,           \* xTaskGetTickCount()
    index,          \* s_baud_scan_state.index, counted from 1
    startedAt,      \* s_baud_scan_state.started_at
    probe,          \* s_probe_state
    parser,         \* s_parser_state, and the candidates it has sent
    antenna,        \* the antenna, with its position in its period
    noisy,          \* noise was read in this dwell
    heard,          \* history: bytes read since the rate was set, until the lock
    fed,            \* history: bytes fed to the parser
    reads           \* history: chunks read after the lock

scanVars == <<index, startedAt, probe>>
ghosts == <<heard, fed, reads>>
vars == <<task, tick, scanVars, parser, antenna, noisy, ghosts>>

Init ==
    /\ task = "setup"
    /\ tick = 0
    /\ index = 1
    /\ startedAt = 0
    /\ probe = ProbeReset
    /\ parser = ParserCleared
    /\ antenna \in Antennas
    /\ noisy = FALSE
    /\ heard = <<>>
    /\ fed = <<>>
    /\ reads = 0

\* The bytes of a burst that have arrived t ticks after its beginning.
Arrived(t) == Min({Len(Burst), (t * antenna.rate) \div 1000})

\* What the antenna sends during a read.
Sent ==
    LET end == antenna.phase + ReadTicks
    IN  IF end < antenna.period
        THEN SubSeq(Burst, Arrived(antenna.phase) + 1, Arrived(end))
        ELSE SubSeq(Burst, 1, Arrived(end - antenna.period))

\* What a read may return while the port is set to rate `index`.
Readable ==
    IF Rates[index] = antenna.rate THEN {Sent}
    ELSE {<<>>} \cup (IF noisy THEN {} ELSE Noise)

TimePasses ==
    /\ tick' = (tick + ReadTicks) % TickModulus
    /\ antenna' = [antenna EXCEPT !.phase = (@ + ReadTicks) % antenna.period]

-----------------------------------------------------------------------------
(* Faulty variants of definitions below, for the mutation runs.            *)

\* The probe goes on with the half sentence of the rate before.
BaudSetKeepsProbe(i, now) ==
    /\ index' = ((i - 1) % Len(Rates)) + 1
    /\ startedAt' = now
    /\ probe' = probe
    /\ heard' = <<>>
    /\ noisy' = FALSE

\* Deadlines are compared, not distances.
DwellOverAbsolute(now) == now >= startedAt + DwellTicks[index]

-----------------------------------------------------------------------------
(* gnss_init_task.                                                         *)

\* uart2_baud_set: the driver's input is flushed as well.
BaudSet(i, now) ==
    /\ index' = ((i - 1) % Len(Rates)) + 1
    /\ startedAt' = now
    /\ probe' = ProbeReset
    /\ heard' = <<>>
    /\ noisy' = FALSE

\* uart2_baud_scan_service: an unsigned difference of ticks.
DwellOver(now) == (now - startedAt) % TickModulus >= DwellTicks[index]

InitTaskSetup ==
    /\ task = "setup"
    /\ task' = "scan"
    /\ parser' = ParserCleared
    /\ BaudSet(1, tick)
    /\ UNCHANGED <<tick, antenna, fed, reads>>

\* No sentence yet: stay at this rate, or go on to the next one.
InitTaskListens(chunk) ==
    LET p == ProbeFeed(probe, chunk)
    IN  /\ task = "scan"
        /\ ~p.valid
        /\ TimePasses
        /\ IF DwellOver(tick') THEN BaudSet(index + 1, tick')
           ELSE /\ probe' = p
                /\ heard' = heard \o chunk
                /\ noisy' = (noisy \/ (chunk # <<>>
                                           /\ Rates[index] # antenna.rate))
                /\ UNCHANGED <<index, startedAt>>
    /\ UNCHANGED <<task, parser, fed, reads>>

\* A valid sentence: the rate is locked and the chunk fed to the parser.
InitTaskLocks(chunk) ==
    LET p == ProbeFeed(probe, chunk)
    IN  /\ task = "scan"
        /\ p.valid
        /\ TimePasses
        /\ task' = "read"
        /\ probe' = ProbeReset
        /\ parser' = ParserFeed(parser, chunk)
        /\ fed' = chunk
        /\ heard' = heard \o chunk
        /\ UNCHANGED <<index, startedAt, noisy, reads>>

\* gnss_uart_task reads a chunk, perhaps an empty one.
UartTaskReads(chunk) ==
    /\ task = "read"
    /\ chunk = <<>> \/ reads < MaxReads
    /\ reads' = IF chunk = <<>> THEN reads ELSE reads + 1
    /\ parser' = ParserFeed(parser, chunk)
    /\ fed' = fed \o chunk
    /\ UNCHANGED <<task, tick, scanVars, antenna, noisy, heard>>

Next ==
    \/ InitTaskSetup
    \/ \E chunk \in Readable : InitTaskListens(chunk) \/ InitTaskLocks(chunk)
    \/ \E chunk \in Traffic \cup {<<>>} : UartTaskReads(chunk)

Spec == Init /\ [][Next]_vars

\* gnss_init_task runs: its reads end by their timeout, and every step it takes
\* while it scans is such a read.  Nothing is assumed of what it reads.
FairSpec ==
    /\ Spec
    /\ WF_task(InitTaskSetup)
    /\ WF_tick(task = "scan" /\ TimePasses)

-----------------------------------------------------------------------------
(* Properties.                                                             *)

\* Every variable keeps to the values its C type allows; neither parser
\* writes past its sentence buffer.
TypeOK ==
    /\ task \in {"setup", "scan", "read"}
    /\ tick \in 0 .. TickModulus - 1
    /\ index \in DOMAIN Rates
    /\ startedAt \in 0 .. TickModulus - 1
    /\ probe.inSentence \in BOOLEAN /\ parser.inSentence \in BOOLEAN
    /\ \A p \in {probe, parser} :
          p.sentence \in Seq(Byte) /\ Len(p.sentence) <= MaxSentenceLen
    /\ parser.pending # None =>
          /\ Len(parser.pending.line) <= MaxSentenceLen
          /\ parser.pending.hdop \in -IntMax - 1 .. IntMax
    /\ noisy \in BOOLEAN
    /\ reads \in 0 .. MaxReads
    /\ heard \in Seq(Byte) /\ fed \in Seq(Byte)

\* The number that digits denote, and the thousandths of a field, of any size.
Decimal(digits) ==
    LET upTo[n \in 0 .. Len(digits)] ==
            IF n = 0 THEN 0
            ELSE upTo[n - 1] * 10 + (ByteValue[digits[n]] - 48)
    IN  upTo[Len(digits)]

Thousandths(field) ==
    Decimal(WholePart(field)) * 1000 + Decimal(Decimals(field)) * Scale(field)

\* A line: from a '$' to the newline that ends it, if a buffer holds it.
IsLine(s) ==
    /\ Len(s) \in 2 .. MaxSentenceLen
    /\ s[1] = "$" /\ s[Len(s)] = "\n"
    /\ \A i \in 2 .. Len(s) - 1 : s[i] \notin {"$", "\n"}

\* What the table of sentences says of each is true.
TableIsSound ==
    /\ \A s \in Sentences :
          /\ s.line \in Seq(Byte) /\ IsLine(s.line) /\ ChecksumOk(s.line)
          /\ s.type = TypeOf(s.line) /\ s.milli \in Int
          /\ s.type = TypeGga =>
                LET hdop == ParseHdopMilli(s.line)
                IN  /\ s.milli >= 0 <=> hdop # <<>>
                    /\ s.milli \in 0 .. IntMax => hdop = <<s.milli>>
    /\ \A s, t \in Sentences : s.line = t.line => s = t

\* It lists every intact line in the bytes h.
TableCovers(h) ==
    \A i, j \in DOMAIN h :
        LET line == SubSeq(h, i, j)
        IN  IsLine(line) /\ ChecksumOk(line) => \E s \in Sentences : s.line = line

\* Where the bytes h hold a whole sentence: its end, and which one it is.
Found(h) ==
    UNION {{[end |-> j, sentence |-> s] :
               j \in {j \in Len(s.line) .. Len(h) :
                         SubSeq(h, j - Len(s.line) + 1, j) = s.line}} :
           s \in Sentences}

\* The sentences that pairs are made of: an RMC, a GGA with an HDOP.
IsGga(f) == f.sentence.type = TypeGga /\ f.sentence.milli >= 0
IsRmc(f) == f.sentence.type = TypeRmc

\* Each RMC in h with the last GGA before it, unless another RMC came between.
PairsIn(h) ==
    LET lines == {f \in Found(h) : IsGga(f) \/ IsRmc(f)}
    IN  {p \in [gga : {f \in lines : IsGga(f)}, rmc : {f \in lines : IsRmc(f)}] :
            /\ p.gga.end < p.rmc.end
            /\ \A f \in lines : f.end <= p.gga.end \/ f.end >= p.rmc.end}

\* The rate is locked exactly when the bytes read at it hold a whole, intact
\* sentence of a known type, however the reads cut it: bytes of an earlier
\* rate, corrupted lines and overlong lines neither give a lock nor hide one.
LocksOnSentence ==
    task # "setup" =>
        (task = "read" <=>
            \E f \in Found(heard) : f.sentence.type \in ProbeTypes)

\* The pairs that come out are those a reader of the whole stream would name,
\* in the order of their RMCs, whatever garbage and chunk boundaries lie
\* between, lines whole and unaltered, and ranked by the HDOP the GGA says, in
\* thousandths, if an int can hold it.
PairsAreExact ==
    LET pairs == PairsIn(fed)
        Place(p) == Cardinality({q \in pairs : q.rmc.end <= p.rmc.end})
    IN  /\ Len(parser.sent) = Cardinality(pairs)
        /\ \A p \in pairs :
              LET gga == p.gga.sentence
                  sent == parser.sent[Place(p)]
              IN  /\ sent.gga = gga.line
                  /\ sent.rmc = p.rmc.sentence.line
                  /\ gga.milli <= IntMax => sent.hdop = gga.milli

\* The README's promise: the scan cycles through all rates and locks onto the
\* one an antenna is sending at, whenever its bursts come.
AntennaIsFound ==
    antenna.rate # 0 ~> (task = "read" /\ Rates[index] = antenna.rate)
=============================================================================
