----------------------------- MODULE FrameParser -----------------------------
(***************************************************************************)
(* What SerialWindow makes of received bytes (window/serial_window.cpp):   *)
(* frames cut out by the rules of its channels, or one of three protocols  *)
(* of the VOFA tool.  Every parser takes the receive buffer and returns    *)
(* what it plots, as pairs of a channel and a value, and what it leaves in *)
(* the buffer.                                                             *)
(***************************************************************************)
EXTENDS Naturals, Sequences, SequencesExt

CONSTANT MaxChannels  \* MAX_CHANNELS

ASSUME ChannelsAssumption == MaxChannels \in Nat \ {0, 1}

Space == 32
Comma == 44
Dollar == 36
LineEnd == <<13, 10>>
FloatTail == <<0, 0, 128, 127>>

Rest(b, i) == SubSeq(b, i, Len(b))

\* What a sequence is without the members of T.
Omitting(s, T) ==
    LET kept[n \in 0 .. Len(s)] ==
            IF n = 0 THEN <<>>
            ELSE IF s[n] \in T THEN kept[n - 1] ELSE Append(kept[n - 1], s[n])
    IN  kept[Len(s)]

\* Where the pattern begins in b, from i on.
Occurrences(b, pattern, i) ==
    {p \in i .. Len(b) - Len(pattern) + 1 : SubSeq(b, p, p + Len(pattern) - 1) = pattern}

-----------------------------------------------------------------------------
(* Frames *)

\* The value of a payload: two bytes, the low one first, or a single one.
PayloadValue(payload) ==
    CASE payload = <<>> -> 0
      [] Len(payload) = 1 -> payload[1]
      [] OTHER -> payload[2] * 256 + payload[1]

Matching(b, rules, i) ==
    {u \in DOMAIN rules : rules[u].enable /\ Occurrences(b, rules[u].header, i) # {}}

\* The rule whose header comes first, the smallest uuid of several.
BestRule(b, rules, i) ==
    LET At(u) == Min(Occurrences(b, rules[u].header, i))
    IN  CHOOSE u \in Matching(b, rules, i) :
            \A v \in Matching(b, rules, i) : At(u) < At(v) \/ (At(u) = At(v) /\ u <= v)

\* Wrong: the length field is taken to count itself.
FrameEndShort(b, rule, at) == at + rule.lenOffset + b[at + rule.lenOffset] - 1

\* The last byte of the frame that begins at at: the payload follows its length.
FrameEnd(b, rule, at) == at + rule.lenOffset + b[at + rule.lenOffset]

\* The loop of parseBuffer.  The bytes before the first header are dropped, all
\* of them if there is no header.  The check that a whole frame has arrived is
\* commented out: only as many bytes are waited for as the offsets say, and a
\* frame ends where the buffer ends.
ParseFrames(b, rules) ==
    LET parse[i \in 1 .. Len(b) + 1] ==
            IF i > Len(b) \/ Matching(b, rules, i) = {}
            THEN [plotted |-> <<>>, left |-> <<>>]
            ELSE LET rule == rules[BestRule(b, rules, i)]
                     at == Min(Occurrences(b, rule.header, i))
                     last == Min({Len(b), FrameEnd(b, rule, at)})
                     payload == SubSeq(b, at + rule.lenOffset + 1, last)
                     later == parse[last + 1]
                 IN  IF Len(b) - at + 1 < rule.headerLen + rule.typeOffset + rule.lenOffset
                     THEN [plotted |-> <<>>, left |-> Rest(b, at)]
                     ELSE [plotted |-> << <<rule.channel, PayloadValue(payload)>> >>
                                         \o later.plotted,
                           left |-> later.left]
    IN  parse[1]

-----------------------------------------------------------------------------
(* The protocols of VOFA *)

\* split(separator, SkipEmptyParts)
Split(b, separator) ==
    LET split[i \in 1 .. Len(b) + 2] ==
            IF i > Len(b) THEN <<>>
            ELSE LET end == Min(Occurrences(b, <<separator>>, i) \cup {Len(b) + 1})
                 IN  (IF end = i THEN <<>> ELSE <<SubSeq(b, i, end - 1)>>) \o split[end + 1]
    IN  split[1]

\* The i-th value goes to channel i.  (A part is a number or plots nothing; the
\* parts of the model are numbers.)
InOrder(values) ==
    [i \in 1 .. Min({Len(values), MaxChannels}) |-> <<i - 1, values[i]>>]

parseRawDataProtocol(b) == [plotted |-> InOrder(Split(b, Space)), left |-> <<>>]

\* Four bytes at a time: a tail is skipped, a number goes to the next channel.
parseJustFloatProtocol(b, channelIndex) ==
    LET words == [i \in 1 .. Len(b) \div 4 |-> SubSeq(b, 4 * i - 3, 4 * i)]
        floats == Omitting(words, {FloatTail})
    IN  [plotted |-> [i \in DOMAIN floats |->
                         <<(channelIndex + i - 1) % MaxChannels, floats[i]>>],
         next |-> (channelIndex + Len(floats)) % MaxChannels,
         left |-> Rest(b, 4 * Len(words) + 1)]

\* One packet, from a $ to the end of the line.  What is left waits for the next
\* call, whatever it is.  (Without an end, more than 10000 bytes are cut down to
\* the $ they begin with.)
parseFireWaterProtocol(b) ==
    LET begins == Occurrences(b, <<Dollar>>, 1)
        ends == Occurrences(b, LineEnd, Min(begins))
    IN  IF begins = {} \/ ends = {} THEN [plotted |-> <<>>, left |-> b]
        ELSE [plotted |-> InOrder(Split(SubSeq(b, Min(begins) + 1, Min(ends) - 1), Comma)),
              left |-> Rest(b, Min(ends) + 2)]
=============================================================================
