---------------------------- MODULE SerialChannels ----------------------------
(***************************************************************************)
(* The channels of a serial window (window/serial_window.cpp): each has a  *)
(* rule that cuts its frames out of what is received, a script its values  *)
(* go through, and a curve of the plot (ui/controls/TtSerialPortPlot.cpp). *)
(* A channel is known by a uuid in channel_info_ and rules_, and by a      *)
(* number in lua_script_codes_ and the plot.                               *)
(*                                                                         *)
(* The bytes are cut up by FrameParser.  How they are split into reads is  *)
(* up to the port.                                                         *)
(***************************************************************************)
EXTENDS FrameParser, FiniteSets

CONSTANTS
    Uuids,      \* bound: the uuids a channel may get, numbers in their order
    Scripts,    \* scripts a channel may have
    Forms,      \* bound: what the dialog of a channel may be left with
    MaxAdded,   \* bound: channels added to a window
    MaxBuffer,  \* bound: bytes left in the buffer before more is sent
    MaxFirst    \* bound: bytes that arrive in the first of two reads

ASSUME UuidsAssumption == Uuids \subseteq Nat /\ IsFiniteSet(Uuids)
ASSUME ScriptsAssumption == "no script" \notin Scripts
ASSUME BoundsAssumption == {MaxAdded, MaxBuffer, MaxFirst} \subseteq Nat

VARIABLES
    channels,      \* channel_info_: number and what the dialog was left with
    rules,         \* rules_
    scripts,       \* lua_script_codes_
    channelNums,   \* channel_nums_
    curves,        \* the channels that have a curve in serial_plot_
    protocol,      \* protocol_
    chosen,        \* the protocol the settings show
    buffer,        \* receive_buffer_
    channelIndex,  \* the channel of the next float, one for all windows
    coming,        \* what is on its way of what the device has sent
    renumbered     \* a channel got another number when its window was restored

table == <<channels, rules, scripts, channelNums, curves>>
stream == <<protocol, chosen, buffer, channelIndex>>
vars == <<table, stream, coming, renumbered>>

NoScript == "no script"

\* The frames of the model: a header, the type, the length, the payload.  The
\* last is what is left of a header that is no hexadecimal number.
Format(header) ==
    [header |-> header, headerLen |-> Len(header), typeOffset |-> Len(header),
     lenOffset |-> Len(header) + 1]
Valid == {Format(<<170>>), Format(<<187, 170>>)}
Invalid == [header |-> <<>>, headerLen |-> 1, typeOffset |-> 1, lenOffset |-> 2]

\* What is kept of the dialog of a channel.
Settings == [format : Valid \cup {Invalid}, script : Scripts \cup {NoScript}]
ASSUME FormsAssumption == Forms \subseteq Settings

Protocols == {"RawData", "JustFloat", "FireWater"}

\* protocol_ has no initial value.  Nothing but a value that is no protocol makes
\* the rules count.  (A JustFloat or FireWater found there is as one chosen.)
Uninitialised == {"RawData", "frames"}

With(f, key, value) == [k \in DOMAIN f \cup {key} |-> IF k = key THEN value ELSE f[k]]
Without(f, key) == [k \in DOMAIN f \ {key} |-> f[k]]

Init ==
    /\ channels = <<>> /\ rules = <<>> /\ scripts = <<>>
    /\ channelNums = 0 /\ curves = {}
    /\ protocol \in Uninitialised /\ chosen = "RawData"
    /\ buffer = <<>> /\ channelIndex = 0
    /\ coming = <<>>
    /\ renumbered = FALSE

-----------------------------------------------------------------------------
(* The list of channels *)

RuleFor(channel, format) ==
    [enable |-> FALSE, channel |-> channel, header |-> format.header,
     headerLen |-> format.headerLen, typeOffset |-> format.typeOffset,
     lenOffset |-> format.lenOffset]

\* Wrong: a script that is there already stays.
StoredScriptOnce(number, script) ==
    IF script = NoScript \/ number \in DOMAIN scripts THEN scripts
    ELSE With(scripts, number, script)

\* The scripts when a dialog has left a script.  One that was emptied stays.
StoredScript(number, script) ==
    IF script = NoScript THEN scripts ELSE With(scripts, number, script)

\* Wrong: the new channel is numbered by how many there are.
addChannelCounting(uuid, settings) ==
    LET number == Cardinality(DOMAIN channels) IN
    /\ channels' = With(channels, uuid, [number |-> number, settings |-> settings])
    /\ rules' = With(rules, uuid, RuleFor(number, settings.format))
    /\ scripts' = StoredScript(number, settings.script)
    /\ curves' = curves \cup {number}
    /\ channelNums' = channelNums + 1

addChannel(uuid, settings) ==
    /\ channels' = With(channels, uuid, [number |-> channelNums, settings |-> settings])
    /\ rules' = With(rules, uuid, RuleFor(channelNums, settings.format))
    /\ scripts' = StoredScript(channelNums, settings.script)
    /\ curves' = curves \cup {channelNums}
    /\ channelNums' = channelNums + 1

addAction ==
    /\ channelNums < MaxAdded
    /\ \E uuid \in Uuids \ DOMAIN channels, settings \in Forms : addChannel(uuid, settings)
    /\ UNCHANGED <<stream, coming, renumbered>>

\* A header that is no hexadecimal number is stored before it is refused.
EditedRule(rule, format) ==
    IF format.header = <<>> THEN [rule EXCEPT !.header = <<>>]
    ELSE [RuleFor(rule.channel, format) EXCEPT !.enable = rule.enable]

\* The dialog of a channel was accepted.
HandleDialogData ==
    /\ \E uuid \in DOMAIN channels, settings \in Forms :
          /\ channels' = [channels EXCEPT ![uuid].settings = settings]
          /\ rules' = [rules EXCEPT ![uuid] = EditedRule(@, settings.format)]
          /\ scripts' = StoredScript(channels[uuid].number, settings.script)
    /\ UNCHANGED <<channelNums, curves, stream, coming, renumbered>>

deleteAction ==
    /\ \E uuid \in DOMAIN channels :
          /\ channels' = Without(channels, uuid)
          /\ rules' = Without(rules, uuid)
          /\ scripts' = Without(scripts, channels[uuid].number)
          /\ curves' = curves \ {channels[uuid].number}
    /\ UNCHANGED <<channelNums, stream, coming, renumbered>>

\* The box of a channel is ticked or cleared.
toggled ==
    /\ \E uuid \in DOMAIN rules : rules' = [rules EXCEPT ![uuid].enable = ~@]
    /\ UNCHANGED <<channels, scripts, channelNums, curves, stream, coming, renumbered>>

-----------------------------------------------------------------------------
(* The window is saved, closed, and restored from what was saved *)

\* The channels are added again in the order of their uuids.
Renumbered(uuid) == Cardinality({u \in DOMAIN channels : u < uuid})

\* First the scripts the dialogs were left with, under the new numbers, then
\* the scripts of the record, under the old ones.
RestoredScripts ==
    LET own == {u \in DOMAIN channels : channels[u].settings.script # NoScript}
        fromDialog(n) == channels[CHOOSE u \in own : Renumbered(u) = n].settings.script
    IN  [n \in DOMAIN scripts \cup {Renumbered(u) : u \in own} |->
             IF n \in DOMAIN scripts THEN scripts[n] ELSE fromDialog(n)]

\* saveSetting, and setSetting of a new window.  A new window has a protocol_ of
\* its own, which is only set if the settings change what they show.
Restore ==
    /\ channels' = [u \in DOMAIN channels |-> [channels[u] EXCEPT !.number = Renumbered(u)]]
    /\ rules' = [u \in DOMAIN channels |->
                    RuleFor(Renumbered(u), channels[u].settings.format)]
    /\ scripts' = RestoredScripts
    /\ channelNums' = Cardinality(DOMAIN channels)
    /\ curves' = {Renumbered(u) : u \in DOMAIN channels}
    /\ IF chosen = "RawData" THEN protocol' \in Uninitialised ELSE protocol' = chosen
    /\ buffer' = <<>>
    /\ renumbered' = (renumbered \/ \E u \in DOMAIN channels :
                                        Renumbered(u) # channels[u].number)
    /\ UNCHANGED <<chosen, channelIndex, coming>>

-----------------------------------------------------------------------------
(* What is received *)

protocolTypeChanged ==
    /\ \E p \in Protocols \ {chosen} : protocol' = p /\ chosen' = p
    /\ UNCHANGED <<table, buffer, channelIndex, coming, renumbered>>

\* Another window plots a float.
OtherWindow ==
    /\ channelIndex' = (channelIndex + 1) % MaxChannels
    /\ UNCHANGED <<table, protocol, chosen, buffer, coming, renumbered>>

Point(channel, value, script) == [channel |-> channel, value |-> value, script |-> script]

\* The script a value of a channel goes through.  (One that fails leaves the
\* value as it is.)
ScriptOf(channel) == IF channel \in DOMAIN scripts THEN scripts[channel] ELSE NoScript

\* A channel without a curve plots nothing.
addData(points) == Omitting(points, {point \in Range(points) : point.channel \notin curves})

Parsed(b) ==
    CASE protocol = "frames" -> ParseFrames(b, rules)
      [] protocol = "RawData" -> parseRawDataProtocol(b)
      [] protocol = "JustFloat" -> parseJustFloatProtocol(b, channelIndex)
      [] protocol = "FireWater" -> parseFireWaterProtocol(b)

\* The points a read adds to the curves; values of frames go through scripts.
Points(bytes) ==
    LET pairs == Parsed(buffer \o bytes).plotted
        script(channel) == IF protocol = "frames" THEN ScriptOf(channel) ELSE NoScript
    IN  addData([i \in DOMAIN pairs |->
                    Point(pairs[i][1], pairs[i][2], script(pairs[i][1]))])

\* Looking up the script of a channel that has none leaves an empty one behind.
dataReceived(bytes) ==
    LET result == Parsed(buffer \o bytes)
        asked == IF protocol = "frames" THEN {pair[1] : pair \in Range(result.plotted)} ELSE {}
    IN  /\ buffer' = result.left
        /\ channelIndex' = IF protocol = "JustFloat" THEN result.next ELSE channelIndex
        /\ scripts' = [channel \in DOMAIN scripts \cup asked |-> ScriptOf(channel)]
        /\ UNCHANGED <<channels, rules, channelNums, curves, protocol, chosen, renumbered>>

-----------------------------------------------------------------------------
(* What the device sends: messages for frames, lists of values for VOFA *)

Payloads == {<<>>, <<170, 2>>}
Messages == [format : Valid, payload : Payloads]
Frame(message) ==
    message.format.header \o <<3, Len(message.payload)>> \o message.payload

Values(p) == IF p = "JustFloat" THEN {<<1, 2, 3, 4>>} ELSE {<<49, 50>>}

\* The values with the separator between them.
Joined(values, separator) ==
    Tail(FlattenSeq([i \in DOMAIN values |-> <<separator>> \o values[i]]))

Encoded(p, sent) ==
    CASE p = "frames" -> FlattenSeq([i \in DOMAIN sent |-> Frame(sent[i])])
      [] p = "RawData" -> Joined(sent, Space)
      [] p = "JustFloat" -> FlattenSeq(sent) \o FloatTail
      [] p = "FireWater" -> <<Dollar>> \o Joined(sent, Comma) \o LineEnd

OneOrTwo(S) == {<<x>> : x \in S} \cup (S \X S)
Sent(p) == OneOrTwo(IF p = "frames" THEN Messages ELSE Values(p))

\* Something is sent.  It arrives in one read or, if it is not two messages, in
\* two; the next is sent when all of it has arrived.
Transmission ==
    /\ coming = <<>> /\ Len(buffer) <= MaxBuffer
    /\ \E sent \in Sent(protocol) :
          LET whole == Encoded(protocol, sent) IN
          \E k \in DOMAIN whole :
              /\ (Len(sent) = 1 /\ k <= MaxFirst) \/ k = Len(whole)
              /\ dataReceived(SubSeq(whole, 1, k))
              /\ coming' = Rest(whole, k + 1)

RestArrives ==
    /\ coming # <<>>
    /\ dataReceived(coming)
    /\ coming' = <<>>

Next ==
    \/ addAction \/ HandleDialogData \/ deleteAction \/ toggled
    \/ Restore
    \/ protocolTypeChanged \/ OtherWindow
    \/ Transmission \/ RestArrives

Spec == Init /\ [][Next]_vars

-----------------------------------------------------------------------------
Numbers == 0 .. MaxAdded + Cardinality(Uuids)

\* Types; rules_ and channel_info_ have the same channels.
TypeOK ==
    /\ DOMAIN channels \subseteq Uuids /\ DOMAIN rules = DOMAIN channels
    /\ \A u \in DOMAIN channels : channels[u] \in [number : Numbers, settings : Settings]
    /\ DOMAIN scripts \subseteq Numbers
    /\ \A n \in DOMAIN scripts : scripts[n] \in Scripts \cup {NoScript}
    /\ channelNums \in Numbers /\ curves \subseteq Numbers
    /\ protocol \in Protocols \cup Uninitialised /\ chosen \in Protocols
    /\ channelIndex \in 0 .. MaxChannels - 1
    /\ renumbered \in BOOLEAN

\* Each channel has a curve of its own, its rule plots to it, and there are no
\* other curves: through every order of adding, deleting and restoring.
OneCurvePerChannel ==
    /\ curves = {channels[u].number : u \in DOMAIN channels}
    /\ Cardinality(curves) = Cardinality(DOMAIN channels)
    /\ \A u \in DOMAIN rules : rules[u].channel = channels[u].number

\* A channel's frames are cut by what its dialog was left with, if that was
\* accepted; a refused header leaves a rule without one.  A channel whose dialog
\* has a script has that script, as long as no restoring gave channels other
\* numbers than the scripts were saved under.
ChannelsFollowTheDialog ==
    \A u \in DOMAIN channels :
        LET settings == channels[u].settings
            number == channels[u].number
        IN  /\ IF settings.format = Invalid THEN rules[u].header = <<>>
               ELSE rules[u] = [RuleFor(number, settings.format)
                                   EXCEPT !.enable = rules[u].enable]
            /\ settings.script # NoScript /\ ~renumbered
                   => scripts[number] = settings.script

-----------------------------------------------------------------------------
(* What ought to be plotted *)

Enabled == {u \in DOMAIN rules : rules[u].enable}

\* The rules whose header a frame begins with.
TakenBy(message) ==
    {u \in Enabled :
        SubSeq(Frame(message), 1, Len(rules[u].header)) = rules[u].header}

\* Nothing in a transmission can be mistaken: a message has one rule, which is
\* the one of its format, or is free of headers; and it is as long as the
\* parser waits for.
Clear(sent) ==
    \A i \in DOMAIN sent :
        LET message == sent[i] IN
        \/ /\ \E u \in Enabled :
                 /\ TakenBy(message) = {u}
                 /\ RuleFor(rules[u].channel, message.format)
                        = [rules[u] EXCEPT !.enable = FALSE]
           /\ Len(Frame(message)) >= 2 * message.format.headerLen + message.format.lenOffset
        \/ \A u \in Enabled : Occurrences(Encoded("frames", sent), rules[u].header, 1) = {}

PointsOf(sent) ==
    LET taken == Omitting(sent, {message \in Messages : TakenBy(message) = {}})
        rule(message) == rules[CHOOSE u \in TakenBy(message) : TRUE]
    IN  [i \in DOMAIN taken |->
            Point(rule(taken[i]).channel, PayloadValue(taken[i].payload),
                  ScriptOf(rule(taken[i]).channel))]

\* Where a transmission may be split into two reads.  A header must arrive in
\* one piece; what is as long as the parser waits for must be complete; numbers
\* without a delimiter after them must not be torn apart.
Splits(sent) ==
    LET format == sent[1].format
        allowed(k) ==
            CASE protocol = "RawData" -> FALSE
              [] protocol = "frames" ->
                     /\ Len(sent) = 1
                     /\ k \in format.headerLen .. 2 * format.headerLen + format.lenOffset - 1
              [] OTHER -> TRUE
    IN  {k \in 1 .. Len(Encoded(protocol, sent)) - 1 : allowed(k)}

\* The transmission plots these points, and leaves nothing behind.
Plots(sent, points) ==
    LET whole == Encoded(protocol, sent)
        after(first, rest) ==
            IF protocol = "JustFloat" THEN parseJustFloatProtocol(first.left \o rest, first.next)
            ELSE Parsed(first.left \o rest)
    IN  /\ Points(whole) = points
        /\ Parsed(whole).left = <<>>
        /\ \A k \in Splits(sent) :
               LET first == Parsed(SubSeq(whole, 1, k))
                   second == after(first, Rest(whole, k + 1))
               IN  /\ first.plotted \o second.plotted = Parsed(whole).plotted
                   /\ second.left = <<>>

\* What is sent while the buffer is empty is plotted, in one read or in two: a
\* message on the channel of its rule, with the script of that channel; a list
\* of values on the channels in order, if no other float has been plotted yet.
TransmissionsArePlotted ==
    buffer = <<>> =>
        \A sent \in Sent(protocol) :
            IF protocol = "frames" THEN Clear(sent) => Plots(sent, PointsOf(sent))
            ELSE (protocol = "JustFloat" => channelIndex = 0) =>
                     Plots(sent, addData([i \in DOMAIN sent |-> Point(i - 1, sent[i], NoScript)]))
=============================================================================
