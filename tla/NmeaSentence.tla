---------------------------- MODULE NmeaSentence ----------------------------
(***************************************************************************)
(* The pure part of the NMEA code in main/gnss.c: the checksum, the fields *)
(* of a sentence, the conversion of an HDOP, and the two byte parsers, the *)
(* probe's and the pairing one.                                            *)
(*                                                                         *)
(* A byte is a string of one character; its numeric value matters to the   *)
(* checksum and to numbers only.  A parser's state is a record, and        *)
(* feeding it a chunk folds one byte after the other into it.              *)
(***************************************************************************)
EXTENDS Integers, Sequences, FiniteSets, FiniteSetsExt

CONSTANTS
    MaxSentenceLen,     \* GNSS_NMEA_MAX_SENTENCE_LEN
    IntMax,             \* INT_MAX
    ByteValue,          \* the bytes in use, with their ASCII codes
    None                \* no pending GGA

Byte == DOMAIN ByteValue
Digits == {"0", "1", "2", "3", "4", "5", "6", "7", "8", "9"}
EndOfLine == {"\r", "\n"}

ASSUME SentenceAssumption == MaxSentenceLen \in Nat \ {0}
ASSUME IntAssumption == IntMax \in Nat \ {0}
ASSUME ByteAssumption ==
    /\ \A b \in Byte : ByteValue[b] \in 0 .. 255
    /\ {"$", "*", ",", "."} \cup EndOfLine \cup Digits \subseteq Byte
ASSUME DigitAssumption == \A d \in Digits : ByteValue[d] \in 48 .. 57
ASSUME NoneAssumption == None \notin [line : Seq(Byte), hdop : Int]

\* The first index of s from `from` on that holds one of bs, 0 without one.
FirstOf(bs, s, from) ==
    LET found == {i \in from .. Len(s) : s[i] \in bs}
    IN  IF found = {} THEN 0 ELSE Min(found)

\* A set of numbers in increasing order.
Sorted(S) ==
    [k \in 1 .. Cardinality(S) |->
        CHOOSE i \in S : Cardinality({j \in S : j <= i}) = k]

\* A sentence without its line ending.
Trimmed(s) ==
    LET kept == {i \in DOMAIN s : s[i] \notin EndOfLine}
    IN  IF kept = {} THEN <<>> ELSE SubSeq(s, 1, Max(kept))

\* Bytes 4 to 6 are the type of sentence.
TypeOf(s) == IF Len(s) < 6 THEN <<>> ELSE SubSeq(s, 4, 6)
TypeGga == <<"G", "G", "A">>
TypeRmc == <<"R", "M", "C">>
ProbeTypes ==
    {TypeGga, TypeRmc, <<"G", "L", "L">>, <<"V", "T", "G">>, <<"G", "S", "A">>,
     <<"G", "S", "V">>}

\* Two's complement: what the compiled additions and multiplications give
\* where C leaves a signed overflow undefined.
Wrapped(n) == ((n + IntMax + 1) % (2 * (IntMax + 1))) - (IntMax + 1)

\* The number that digits denote, accumulated in an int.
Number(digits) ==
    LET upTo[n \in 0 .. Len(digits)] ==
            IF n = 0 THEN 0
            ELSE Wrapped(Wrapped(upTo[n - 1] * 10) + ByteValue[digits[n]] - 48)
    IN  upTo[Len(digits)]

ProbeReset == [inSentence |-> FALSE, sentence |-> <<>>, valid |-> FALSE]
ParserCleared ==
    [inSentence |-> FALSE, sentence |-> <<>>, pending |-> None, sent |-> <<>>]

-----------------------------------------------------------------------------
(* nmea_hex_digit_to_value, nmea_checksum_ok and                           *)
(* nmea_sentence_looks_valid.                                              *)

HexDigitToValue(b) ==
    LET v == ByteValue[b]
    IN  CASE v \in 48 .. 57 -> v - 48
          [] v \in 65 .. 70 -> v - 55
          [] v \in 97 .. 102 -> v - 87
          [] OTHER -> -1

\* The bits that are set in a byte.
Bits(value) == {k \in 0 .. 7 : (value \div 2^k) % 2 = 1}

\* The exclusive or of the bytes between '$' and '*': the bits that an odd
\* number of them set.
Checksum(payload) ==
    {k \in 0 .. 7 :
        Cardinality({i \in DOMAIN payload : k \in Bits(ByteValue[payload[i]])})
            % 2 = 1}

\* "$...*hh" with the right checksum.
ChecksumOk(sentence) ==
    LET s == Trimmed(sentence)
        star == FirstOf({"*"}, s, 2)
    IN  /\ Len(s) >= 10
        /\ s[1] = "$"
        /\ star # 0
        /\ Len(s) = star + 2
        /\ HexDigitToValue(s[star + 1]) >= 0
        /\ HexDigitToValue(s[star + 2]) >= 0
        /\ Checksum(SubSeq(s, 2, star - 1)) =
               Bits(16 * HexDigitToValue(s[star + 1])
                        + HexDigitToValue(s[star + 2]))

LooksValid(sentence) == sentence[1] = "$" /\ TypeOf(sentence) \in ProbeTypes

-----------------------------------------------------------------------------
(* nmea_get_field_range, nmea_parse_decimal_milli, nmea_parse_hdop_milli.  *)

\* Field n of a sentence, <<>> when it is empty or missing: fields lie between
\* commas from the first one on, and the last ends at a '*' or with the line.
Field(sentence, n) ==
    LET s == Trimmed(sentence)
        first == FirstOf({","}, s, 1)
        star == FirstOf({"*"}, s, first + 1)
        end == IF star = 0 THEN Len(s) + 1 ELSE star
        edges == Sorted({i \in first .. end : i = end \/ s[i] = ","})
    IN  IF first = 0 \/ n >= Len(edges) THEN <<>>
        ELSE SubSeq(s, edges[n] + 1, edges[n + 1] - 1)

\* A field of digits with at most one dot: what is before the dot, and the first
\* three digits after it.
WholePart(field) ==
    LET dot == FirstOf({"."}, field, 1)
    IN  IF dot = 0 THEN field ELSE SubSeq(field, 1, dot - 1)

Decimals(field) ==
    LET dot == FirstOf({"."}, field, 1)
    IN  IF dot = 0 THEN <<>>
        ELSE SubSeq(field, dot + 1, Min({Len(field), dot + 3}))

\* Missing decimals are zero.
Scale(field) == <<1000, 100, 10, 1>>[Len(Decimals(field)) + 1]

\* The thousandths of such a field, computed in an int.
DecimalMilli(field) ==
    Wrapped(Wrapped(Number(WholePart(field)) * 1000)
                + Number(Decimals(field)) * Scale(field))

\* <<>> when the field is not such a number.
ParseDecimalMilli(field) ==
    LET dots == {i \in DOMAIN field : field[i] = "."}
    IN  IF /\ Cardinality(dots) <= 1
           /\ \A i \in DOMAIN field \ dots : field[i] \in Digits
           /\ DOMAIN field # dots
        THEN <<DecimalMilli(field)>>
        ELSE <<>>

\* HDOP is field 8 of a GGA sentence.
ParseHdopMilli(sentence) ==
    IF sentence[1] = "$" /\ TypeOf(sentence) = TypeGga
    THEN ParseDecimalMilli(Field(sentence, 8))
    ELSE <<>>

-----------------------------------------------------------------------------
(* nmea_probe_feed and nmea_parser_feed.                                   *)

\* A '$' restarts the assembly, an overlong line ends it, and a newline
\* decides; once the answer is yes the rest of the chunk is not looked at.
ProbeByte(p, b) ==
    IF p.valid \/ (b # "$" /\ ~p.inSentence) THEN p
    ELSE IF b = "$" THEN [ProbeReset EXCEPT !.inSentence = TRUE,
                                            !.sentence = <<b>>]
    ELSE IF Len(p.sentence) >= MaxSentenceLen THEN ProbeReset
    ELSE LET s == Append(p.sentence, b)
         IN  IF b = "\n"
             THEN [ProbeReset EXCEPT !.valid = LooksValid(s) /\ ChecksumOk(s)]
             ELSE [p EXCEPT !.sentence = s]

ProbeFeed(p, chunk) ==
    LET after[n \in 0 .. Len(chunk)] ==
            IF n = 0 THEN p ELSE ProbeByte(after[n - 1], chunk[n])
    IN  after[Len(chunk)]

\* For the mutation runs: the GGA of a pair goes on waiting.
CompleteKeepsPending(p) ==
    LET s == p.sentence
        hdop == ParseHdopMilli(s)
    IN  IF ~ChecksumOk(s) THEN p
        ELSE IF hdop # <<>>
        THEN [p EXCEPT !.pending = [line |-> s, hdop |-> hdop[1]]]
        ELSE IF TypeOf(s) = TypeRmc /\ p.pending # None
        THEN [p EXCEPT !.sent = Append(@, [gga |-> p.pending.line, rmc |-> s,
                                           hdop |-> p.pending.hdop])]
        ELSE p

\* nmea_parser_complete_sentence: a GGA with an HDOP waits for the RMC that
\* completes the candidate.
CompleteSentence(p) ==
    LET s == p.sentence
        hdop == ParseHdopMilli(s)
    IN  IF ~ChecksumOk(s) THEN p
        ELSE IF hdop # <<>>
        THEN [p EXCEPT !.pending = [line |-> s, hdop |-> hdop[1]]]
        ELSE IF TypeOf(s) = TypeRmc /\ p.pending # None
        THEN [p EXCEPT !.pending = None,
                       !.sent = Append(@, [gga |-> p.pending.line, rmc |-> s,
                                           hdop |-> p.pending.hdop])]
        ELSE p

OutOfSentence(p) == [p EXCEPT !.inSentence = FALSE, !.sentence = <<>>]

\* For the mutation runs: the buffer takes one byte too many.
ParserByteOffByOne(p, b) ==
    IF b = "$" THEN [p EXCEPT !.inSentence = TRUE, !.sentence = <<b>>]
    ELSE IF ~p.inSentence THEN p
    ELSE IF Len(p.sentence) > MaxSentenceLen THEN OutOfSentence(p)
    ELSE LET q == [p EXCEPT !.sentence = Append(@, b)]
         IN  IF b = "\n" THEN OutOfSentence(CompleteSentence(q)) ELSE q

ParserByte(p, b) ==
    IF b = "$" THEN [p EXCEPT !.inSentence = TRUE, !.sentence = <<b>>]
    ELSE IF ~p.inSentence THEN p
    ELSE IF Len(p.sentence) >= MaxSentenceLen THEN OutOfSentence(p)
    ELSE LET q == [p EXCEPT !.sentence = Append(@, b)]
         IN  IF b = "\n" THEN OutOfSentence(CompleteSentence(q)) ELSE q

ParserFeed(p, chunk) ==
    LET after[n \in 0 .. Len(chunk)] ==
            IF n = 0 THEN p ELSE ParserByte(after[n - 1], chunk[n])
    IN  after[Len(chunk)]
=============================================================================
