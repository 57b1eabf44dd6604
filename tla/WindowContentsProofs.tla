------------------------- MODULE WindowContentsProofs -------------------------
(***************************************************************************)
(* Proofs about the contents of windows, for any bounds: the channels of a *)
(* serial window have the curves, rules and scripts they should, the       *)
(* controls of the instruction table are bound to the rows they stand in,  *)
(* what the mouse was dragged over in a chat is what is marked and copied, *)
(* the messages have the sizes their lines need, the terminal shows what   *)
(* was sent and received, and what a device sends is plotted.              *)
(***************************************************************************)
EXTENDS WindowContents, SequenceTheorems, FiniteSetTheorems, WellFoundedInduction, TLAPS

-----------------------------------------------------------------------------
(* The contents of a window are of one kind *)

\* A behaviour of the contents is one of the module of each kind.
LEMMA KindsApart ==
    ContentsSpec => Spec /\ Instructions!Spec /\ Screen!Spec /\ Chat!Spec /\ Sizing!Spec
<1>1. ContentsInit => Init /\ Instructions!Init /\ Screen!Init /\ Chat!Init /\ Sizing!Init
  BY DEF ContentsInit
<1>0. [ContentsNext]_<<kind, vars, rowVars, terminalVars, chatVars, sizeVars>> => [Next]_vars
  BY DEF ContentsNext, ChannelStep, RowStep, TerminalStep, ChatStep, SizeStep
<1>2. [ContentsNext]_<<kind, vars, rowVars, terminalVars, chatVars, sizeVars>>
          => [Instructions!Next]_Instructions!vars
  BY DEF ContentsNext, ChannelStep, RowStep, TerminalStep, ChatStep, SizeStep, rowVars,
     Instructions!vars, Instructions!table, Instructions!view, Instructions!lock,
     Instructions!file
<1>3. [ContentsNext]_<<kind, vars, rowVars, terminalVars, chatVars, sizeVars>>
          => [Chat!Next]_Chat!vars
  BY DEF ContentsNext, ChannelStep, RowStep, TerminalStep, ChatStep, SizeStep, chatVars, Chat!vars
<1>4. [ContentsNext]_<<kind, vars, rowVars, terminalVars, chatVars, sizeVars>>
          => [Sizing!Next]_Sizing!vars
  BY DEF ContentsNext, ChannelStep, RowStep, TerminalStep, ChatStep, SizeStep, sizeVars, Sizing!vars
<1>5. [ContentsNext]_<<kind, vars, rowVars, terminalVars, chatVars, sizeVars>>
          => [Screen!Next]_Screen!vars
  BY DEF ContentsNext, ChannelStep, RowStep, TerminalStep, ChatStep, SizeStep, terminalVars,
     Screen!vars
<1> QED
  BY <1>0, <1>1, <1>2, <1>3, <1>4, <1>5, PTL
     DEF ContentsSpec, Spec, Instructions!Spec, Screen!Spec, Chat!Spec, Sizing!Spec

-----------------------------------------------------------------------------
(* The channels of a serial window *)

Rules == [enable : BOOLEAN, channel : Nat, header : Seq(Nat), headerLen : Nat \ {0},
          typeOffset : Nat \ {0}, lenOffset : Nat]

ChannelTypes ==
    /\ IsFiniteSet(DOMAIN channels) /\ DOMAIN channels \subseteq Uuids
    /\ channels \in [DOMAIN channels -> [number : Nat, settings : Settings]]
    /\ rules \in [DOMAIN channels -> Rules]
    /\ channelNums \in Nat

\* The numbers are below the next one, and no two channels have the same: so the
\* next channel has a number, a curve and a rule of its own too.
ChannelsNumbered ==
    /\ \A u \in DOMAIN channels : channels[u].number < channelNums
    /\ \A u, v \in DOMAIN channels : channels[u].number = channels[v].number => u = v
    /\ curves = {channels[u].number : u \in DOMAIN channels}
    /\ \A u \in DOMAIN channels : rules[u].channel = channels[u].number

RuleAsLeft(u) ==
    IF channels[u].settings.format = Invalid THEN rules[u].header = <<>>
    ELSE rules[u] = [RuleFor(channels[u].number, channels[u].settings.format)
                        EXCEPT !.enable = rules[u].enable]

ScriptAsLeft(u) ==
    channels[u].settings.script # NoScript /\ ~renumbered
        => /\ channels[u].number \in DOMAIN scripts
           /\ scripts[channels[u].number] = channels[u].settings.script

ChannelInvariant ==
    /\ ChannelTypes /\ ChannelsNumbered
    /\ \A u \in DOMAIN channels : RuleAsLeft(u) /\ ScriptAsLeft(u)

\* What the dialog of a channel leaves, and the rule made of it.
LEMMA FormatsAreTyped ==
    ASSUME NEW settings \in Settings
    PROVE  /\ settings.format.header \in Seq(Nat) /\ settings.format.headerLen \in Nat \ {0}
           /\ settings.format.typeOffset \in Nat \ {0} /\ settings.format.lenOffset \in Nat
           /\ settings.format.header = <<>> <=> settings.format = Invalid
<1>1. settings.format \in {Format(<<170>>), Format(<<187, 170>>), Invalid}
  BY DEF Settings, Valid
<1>2. <<170>> \in Seq(Nat) /\ <<187, 170>> \in Seq(Nat) /\ <<>> \in Seq(Nat)
  OBVIOUS
<1>3. Len(<<170>>) = 1 /\ Len(<<187, 170>>) = 2
  OBVIOUS
<1>4. CASE settings.format = Format(<<170>>)
  BY <1>2, <1>3, <1>4 DEF Format, Invalid
<1>5. CASE settings.format = Format(<<187, 170>>)
  BY <1>2, <1>3, <1>5 DEF Format, Invalid
<1>6. CASE settings.format = Invalid
  BY <1>2, <1>6 DEF Invalid
<1> QED
  BY <1>1, <1>4, <1>5, <1>6

\* The rule made of a dialog is one of the rules.
LEMMA RulesAreTyped ==
    ASSUME NEW settings \in Settings, NEW number \in Nat
    PROVE  RuleFor(number, settings.format) \in Rules
  BY FormatsAreTyped DEF RuleFor, Rules

\* Restoring a window numbers its channels from 0, each differently.
LEMMA RenumberedApart ==
    ASSUME ChannelTypes
    PROVE  /\ Cardinality(DOMAIN channels) \in Nat
           /\ \A u \in DOMAIN channels :
                  Renumbered(u) \in Nat /\ Renumbered(u) < Cardinality(DOMAIN channels)
           /\ \A u, v \in DOMAIN channels : Renumbered(u) = Renumbered(v) => u = v
<1> DEFINE Below(u) == {v \in DOMAIN channels : v < u}
<1>1. IsFiniteSet(DOMAIN channels) /\ DOMAIN channels \subseteq Nat
  BY UuidsAssumption DEF ChannelTypes
<1>2. Cardinality(DOMAIN channels) \in Nat
  BY <1>1, FS_CardinalityType
<1>3. ASSUME NEW u \in DOMAIN channels
      PROVE  /\ IsFiniteSet(Below(u)) /\ Cardinality(Below(u)) \in Nat
             /\ Cardinality(Below(u)) < Cardinality(DOMAIN channels)
  <2>1. Below(u) \in SUBSET DOMAIN channels /\ Below(u) # DOMAIN channels
    BY <1>1
  <2>2. IsFiniteSet(Below(u)) /\ Cardinality(Below(u)) <= Cardinality(DOMAIN channels)
        /\ Cardinality(DOMAIN channels) # Cardinality(Below(u))
    BY <1>1, <2>1, FS_Subset
  <2> QED
    BY <1>2, <2>2, FS_CardinalityType
<1>4. ASSUME NEW u \in DOMAIN channels, NEW v \in DOMAIN channels, u < v
      PROVE  Cardinality(Below(u)) # Cardinality(Below(v))
  <2>1. Below(u) \in SUBSET Below(v) /\ u \in Below(v) /\ u \notin Below(u)
    BY <1>1, <1>4
  <2> QED
    BY <1>3, <2>1, FS_Subset
<1>5. \A u \in DOMAIN channels : Renumbered(u) = Cardinality(Below(u))
  BY DEF Renumbered
<1>6. ASSUME NEW u \in DOMAIN channels, NEW v \in DOMAIN channels, Renumbered(u) = Renumbered(v)
      PROVE  u = v
  <2>1. u < v \/ v < u \/ u = v
    BY <1>1
  <2> HIDE DEF Below
  <2> QED
    BY <1>4, <1>5, <1>6, <2>1
<1> HIDE DEF Below
<1> QED
  BY <1>2, <1>3, <1>5, <1>6

\* A script that a dialog left is stored under its number; the others stay.
LEMMA ScriptStored ==
    ASSUME NEW number, NEW script
    PROVE  /\ script # NoScript => /\ number \in DOMAIN StoredScript(number, script)
                                   /\ StoredScript(number, script)[number] = script
           /\ \A n \in DOMAIN scripts :
                  n # number => /\ n \in DOMAIN StoredScript(number, script)
                                /\ StoredScript(number, script)[n] = scripts[n]
  BY DEF StoredScript, With

\* A channel whose entries did not change is as its dialog was left.
LEMMA KeptChannel ==
    ASSUME NEW u, RuleAsLeft(u), ScriptAsLeft(u),
           channels'[u] = channels[u], rules'[u] = rules[u], renumbered' = renumbered,
           channels[u].number \in DOMAIN scripts =>
               /\ channels[u].number \in DOMAIN scripts'
               /\ scripts'[channels[u].number] = scripts[channels[u].number]
    PROVE  RuleAsLeft(u)' /\ ScriptAsLeft(u)'
<1>1. RuleAsLeft(u)'
  BY DEF RuleAsLeft, RuleFor
<1>2. ScriptAsLeft(u)'
  BY DEF ScriptAsLeft
<1> QED
  BY <1>1, <1>2

\* A channel that is added gets a number, a curve and a rule of its own.
LEMMA ChannelAdded ==
    ASSUME ChannelInvariant, addAction
    PROVE  ChannelInvariant'
<1>1. PICK uuid \in Uuids \ DOMAIN channels, settings \in Forms : addChannel(uuid, settings)
  BY DEF addAction
<1>2. settings \in Settings /\ renumbered' = renumbered /\ channelNums' = channelNums + 1
  BY <1>1, FormsAssumption DEF addAction, addChannel
<1> DEFINE entry == [number |-> channelNums, settings |-> settings]
           D == DOMAIN channels
<1>3. /\ channels' \in [D \cup {uuid} -> [number : Nat, settings : Settings]]
      /\ channels'[uuid] = entry
      /\ \A u \in D : channels'[u] = channels[u]
  <2>1. entry \in [number : Nat, settings : Settings]
    BY <1>2 DEF ChannelInvariant, ChannelTypes
  <2>2. channels' = With(channels, uuid, entry)
    BY <1>1 DEF addChannel
  <2>3. uuid \notin D /\ channels \in [D -> [number : Nat, settings : Settings]]
    BY <1>1 DEF ChannelInvariant, ChannelTypes
  <2> HIDE DEF entry, D
  <2> QED
    BY <2>1, <2>2, <2>3 DEF With
<1>4. /\ rules' \in [D \cup {uuid} -> Rules]
      /\ rules'[uuid] = RuleFor(channelNums, settings.format)
      /\ \A u \in D : rules'[u] = rules[u]
  <2>1. RuleFor(channelNums, settings.format) \in Rules
    BY <1>2, RulesAreTyped DEF ChannelInvariant, ChannelTypes
  <2>2. rules' = With(rules, uuid, RuleFor(channelNums, settings.format))
    BY <1>1 DEF addChannel
  <2>3. uuid \notin D /\ rules \in [D -> Rules]
    BY <1>1 DEF ChannelInvariant, ChannelTypes
  <2> HIDE DEF D
  <2> QED
    BY <2>1, <2>2, <2>3 DEF With
<1>5. DOMAIN channels' = D \cup {uuid}
  BY <1>3
<1>6. ChannelTypes'
  <2>1. IsFiniteSet(DOMAIN channels')
    BY <1>5, FS_AddElement DEF ChannelInvariant, ChannelTypes
  <2>2. DOMAIN channels' \subseteq Uuids
    BY <1>5 DEF ChannelInvariant, ChannelTypes
  <2> QED
    BY <1>2, <1>3, <1>4, <1>5, <2>1, <2>2 DEF ChannelInvariant, ChannelTypes
<1>7. ChannelsNumbered'
  <2>1. \A u \in D : channels[u].number \in Nat /\ channels[u].number < channelNums
    BY DEF ChannelInvariant, ChannelTypes, ChannelsNumbered
  <2>2. channelNums \in Nat /\ entry.number = channelNums
    BY DEF ChannelInvariant, ChannelTypes
  <2>3. \A u \in DOMAIN channels' : channels'[u].number < channelNums'
    BY <1>2, <1>3, <1>5, <2>1, <2>2
  <2>4. \A u, v \in DOMAIN channels' : channels'[u].number = channels'[v].number => u = v
    BY <1>3, <1>5, <2>1, <2>2 DEF ChannelInvariant, ChannelsNumbered
  <2>5. curves' = {channels'[u].number : u \in DOMAIN channels'}
    <3>1. curves' = curves \cup {channelNums}
      BY <1>1 DEF addChannel
    <3>2. curves = {channels'[u].number : u \in D}
      BY <1>3 DEF ChannelInvariant, ChannelsNumbered
    <3> QED
      BY <1>3, <1>5, <2>2, <3>1, <3>2
  <2>6. \A u \in DOMAIN channels' : rules'[u].channel = channels'[u].number
    <3>1. RuleFor(channelNums, settings.format).channel = channelNums
      BY DEF RuleFor
    <3> QED
      BY <1>3, <1>4, <1>5, <2>2, <3>1 DEF ChannelInvariant, ChannelsNumbered
  <2> QED
    BY <2>3, <2>4, <2>5, <2>6 DEF ChannelsNumbered
<1>8. scripts' = StoredScript(channelNums, settings.script)
  BY <1>1 DEF addChannel
<1>9. ASSUME NEW u \in D PROVE RuleAsLeft(u)' /\ ScriptAsLeft(u)'
  <2>1. channels[u].number # channelNums
    BY DEF ChannelInvariant, ChannelTypes, ChannelsNumbered
  <2> HIDE DEF D, entry
  <2>2. channels[u].number \in DOMAIN scripts =>
            /\ channels[u].number \in DOMAIN scripts'
            /\ scripts'[channels[u].number] = scripts[channels[u].number]
    BY <1>8, <2>1, ScriptStored
  <2>3. RuleAsLeft(u) /\ ScriptAsLeft(u)
    BY DEF ChannelInvariant, D
  <2> QED
    BY <1>2, <1>3, <1>4, <2>2, <2>3, KeptChannel
<1>10. RuleAsLeft(uuid)'
  <2>1. settings.format.header = <<>> <=> settings.format = Invalid
    BY <1>2, FormatsAreTyped
  <2>2. /\ channels'[uuid].number = channelNums /\ channels'[uuid].settings = settings
        /\ rules'[uuid] = RuleFor(channelNums, settings.format)
    BY <1>3, <1>4
  <2>3. RuleFor(channelNums, settings.format) =
            [RuleFor(channelNums, settings.format) EXCEPT
                !.enable = RuleFor(channelNums, settings.format).enable]
    BY DEF RuleFor
  <2>4. RuleFor(channelNums, settings.format).header = settings.format.header
    BY DEF RuleFor
  <2>5. RuleFor(channels[uuid].number, channels[uuid].settings.format)' =
        RuleFor(channelNums, settings.format)
    BY <2>2 DEF RuleFor
  <2> QED
    BY <2>1, <2>2, <2>3, <2>4, <2>5 DEF RuleAsLeft
<1>11. ScriptAsLeft(uuid)'
  <2>1. channels'[uuid].number = channelNums /\ channels'[uuid].settings = settings
    BY <1>3
  <2>2. settings.script # NoScript =>
            channelNums \in DOMAIN scripts' /\ scripts'[channelNums] = settings.script
    BY <1>8, ScriptStored
  <2> QED
    BY <2>1, <2>2 DEF ScriptAsLeft
<1> QED
  BY <1>5, <1>6, <1>7, <1>9, <1>10, <1>11 DEF ChannelInvariant

\* A dialog changes the rule and the script of its channel only.
LEMMA ChannelEdited ==
    ASSUME ChannelInvariant, HandleDialogData
    PROVE  ChannelInvariant'
<1> DEFINE D == DOMAIN channels
<1>1. PICK uuid \in D, settings \in Forms :
          /\ channels' = [channels EXCEPT ![uuid].settings = settings]
          /\ rules' = [rules EXCEPT ![uuid] = EditedRule(@, settings.format)]
          /\ scripts' = StoredScript(channels[uuid].number, settings.script)
  BY DEF HandleDialogData
<1>2. settings \in Settings
  BY FormsAssumption
<1>3. /\ renumbered' = renumbered /\ channelNums' = channelNums /\ curves' = curves
      /\ channels \in [D -> [number : Nat, settings : Settings]] /\ rules \in [D -> Rules]
  BY DEF HandleDialogData, ChannelInvariant, ChannelTypes
<1>4. /\ channels' \in [D -> [number : Nat, settings : Settings]]
      /\ channels'[uuid].settings = settings
      /\ \A u \in D : channels'[u].number = channels[u].number
      /\ \A u \in D \ {uuid} : channels'[u] = channels[u]
  BY <1>1, <1>2, <1>3
<1>5. /\ EditedRule(rules[uuid], settings.format) \in Rules
      /\ EditedRule(rules[uuid], settings.format).channel = rules[uuid].channel
      /\ IF settings.format.header = <<>>
         THEN EditedRule(rules[uuid], settings.format).header = <<>>
         ELSE EditedRule(rules[uuid], settings.format) =
                  [RuleFor(rules[uuid].channel, settings.format)
                      EXCEPT !.enable = rules[uuid].enable]
  <2>1. rules[uuid] \in Rules /\ RuleFor(rules[uuid].channel, settings.format) \in Rules
    BY <1>2, <1>3, RulesAreTyped DEF Rules
  <2>2. RuleFor(rules[uuid].channel, settings.format).channel = rules[uuid].channel
    BY DEF RuleFor
  <2>3. <<>> \in Seq(Nat)
    OBVIOUS
  <2> QED
    BY <2>1, <2>2, <2>3 DEF EditedRule, Rules
<1>6. /\ rules' \in [D -> Rules]
      /\ rules'[uuid] = EditedRule(rules[uuid], settings.format)
      /\ \A u \in D : rules'[u].channel = rules[u].channel
      /\ \A u \in D \ {uuid} : rules'[u] = rules[u]
  BY <1>1, <1>3, <1>5
<1>7. DOMAIN channels' = D
  BY <1>4
<1>8. ChannelTypes'
  BY <1>3, <1>4, <1>6, <1>7 DEF ChannelTypes, ChannelInvariant
<1>9. ChannelsNumbered'
  <2>1. \A u \in DOMAIN channels' : channels'[u].number < channelNums'
    BY <1>3, <1>4, <1>7 DEF ChannelInvariant, ChannelsNumbered
  <2>2. \A u, v \in DOMAIN channels' : channels'[u].number = channels'[v].number => u = v
    BY <1>4, <1>7 DEF ChannelInvariant, ChannelsNumbered
  <2>3. curves' = {channels'[u].number : u \in DOMAIN channels'}
    BY <1>3, <1>4, <1>7 DEF ChannelInvariant, ChannelsNumbered
  <2>4. \A u \in DOMAIN channels' : rules'[u].channel = channels'[u].number
    BY <1>4, <1>6, <1>7 DEF ChannelInvariant, ChannelsNumbered
  <2> QED
    BY <2>1, <2>2, <2>3, <2>4 DEF ChannelsNumbered
<1>10. ASSUME NEW u \in D \ {uuid} PROVE RuleAsLeft(u)' /\ ScriptAsLeft(u)'
  <2>1. channels[u].number # channels[uuid].number
    BY DEF ChannelInvariant, ChannelsNumbered
  <2>2. channels[u].number \in DOMAIN scripts =>
            /\ channels[u].number \in DOMAIN scripts'
            /\ scripts'[channels[u].number] = scripts[channels[u].number]
    <3>1. scripts' = StoredScript(channels[uuid].number, settings.script)
      BY <1>1
    <3> QED
      BY <2>1, <3>1, ScriptStored
  <2>3. RuleAsLeft(u) /\ ScriptAsLeft(u)
    BY DEF ChannelInvariant
  <2> HIDE DEF D
  <2> QED
    BY <1>3, <1>4, <1>6, <2>2, <2>3, KeptChannel
<1>11. RuleAsLeft(uuid)'
  <2>1. settings.format.header = <<>> <=> settings.format = Invalid
    BY <1>2, FormatsAreTyped
  <2>2. rules[uuid].channel = channels[uuid].number
    BY DEF ChannelInvariant, ChannelsNumbered
  <2>3. RuleFor(channels[uuid].number, channels[uuid].settings.format)' =
        RuleFor(channels[uuid].number, settings.format)
    BY <1>4 DEF RuleFor
  <2>4. RuleFor(channels[uuid].number, settings.format) \in Rules
    BY <1>2, <1>3, RulesAreTyped
  <2>5. CASE settings.format = Invalid
    <3>1. rules'[uuid].header = <<>>
      BY <1>5, <1>6, <2>1, <2>5
    <3>2. channels'[uuid].settings.format = Invalid
      BY <1>4, <2>5
    <3> QED
      BY <3>1, <3>2 DEF RuleAsLeft, Invalid
  <2>6. CASE settings.format # Invalid
    <3>1. rules'[uuid] = [RuleFor(channels[uuid].number, settings.format)
                             EXCEPT !.enable = rules[uuid].enable]
      BY <1>5, <1>6, <2>1, <2>2, <2>6
    <3>2. rules'[uuid].enable = rules[uuid].enable
      BY <2>4, <3>1 DEF Rules
    <3>3. channels'[uuid].settings.format # Invalid
      BY <1>4, <2>6
    <3> QED
      BY <2>3, <3>1, <3>2, <3>3 DEF RuleAsLeft, Invalid
  <2> QED
    BY <2>5, <2>6
<1>12. ScriptAsLeft(uuid)'
  <2>1. settings.script # NoScript =>
            /\ channels[uuid].number \in DOMAIN scripts'
            /\ scripts'[channels[uuid].number] = settings.script
    <3>1. scripts' = StoredScript(channels[uuid].number, settings.script)
      BY <1>1
    <3> QED
      BY <3>1, ScriptStored
  <2> QED
    BY <1>4, <2>1 DEF ScriptAsLeft, NoScript
<1> QED
  BY <1>7, <1>8, <1>9, <1>10, <1>11, <1>12 DEF ChannelInvariant

\* Deleting a channel leaves the others as they are.
LEMMA ChannelDeleted ==
    ASSUME ChannelInvariant, deleteAction
    PROVE  ChannelInvariant'
<1> DEFINE D == DOMAIN channels
<1>1. PICK uuid \in D :
          /\ channels' = Without(channels, uuid)
          /\ rules' = Without(rules, uuid)
          /\ scripts' = Without(scripts, channels[uuid].number)
          /\ curves' = curves \ {channels[uuid].number}
  BY DEF deleteAction
<1>2. /\ renumbered' = renumbered /\ channelNums' = channelNums
      /\ channels \in [D -> [number : Nat, settings : Settings]] /\ rules \in [D -> Rules]
  BY DEF deleteAction, ChannelInvariant, ChannelTypes
<1>3. /\ channels' \in [D \ {uuid} -> [number : Nat, settings : Settings]]
      /\ \A u \in D \ {uuid} : channels'[u] = channels[u]
  BY <1>1, <1>2 DEF Without
<1>4. rules' \in [D \ {uuid} -> Rules] /\ \A u \in D \ {uuid} : rules'[u] = rules[u]
  BY <1>1, <1>2 DEF Without
<1>5. DOMAIN channels' = D \ {uuid}
  BY <1>3
<1>6. ChannelTypes'
  <2>1. IsFiniteSet(DOMAIN channels') /\ DOMAIN channels' \subseteq Uuids
    BY <1>5, FS_RemoveElement DEF ChannelInvariant, ChannelTypes
  <2> QED
    BY <1>2, <1>3, <1>4, <1>5, <2>1 DEF ChannelTypes, ChannelInvariant
<1>7. ChannelsNumbered'
  <2>1. curves' = {channels'[u].number : u \in DOMAIN channels'}
    BY <1>1, <1>3, <1>5 DEF ChannelInvariant, ChannelsNumbered
  <2> QED
    BY <1>2, <1>3, <1>4, <1>5, <2>1 DEF ChannelInvariant, ChannelsNumbered
<1>8. ASSUME NEW u \in D \ {uuid} PROVE RuleAsLeft(u)' /\ ScriptAsLeft(u)'
  <2>1. channels[u].number # channels[uuid].number
    BY DEF ChannelInvariant, ChannelsNumbered
  <2>2. channels[u].number \in DOMAIN scripts =>
            /\ channels[u].number \in DOMAIN scripts'
            /\ scripts'[channels[u].number] = scripts[channels[u].number]
    BY <1>1, <2>1 DEF Without
  <2>3. RuleAsLeft(u) /\ ScriptAsLeft(u)
    BY DEF ChannelInvariant
  <2> HIDE DEF D
  <2> QED
    BY <1>2, <1>3, <1>4, <2>2, <2>3, KeptChannel
<1> QED
  BY <1>5, <1>6, <1>7, <1>8 DEF ChannelInvariant

\* So does ticking its box.
LEMMA ChannelToggled ==
    ASSUME ChannelInvariant, toggled
    PROVE  ChannelInvariant'
<1>1. PICK uuid \in DOMAIN channels : rules' = [rules EXCEPT ![uuid].enable = ~@]
  BY DEF toggled, ChannelInvariant, ChannelTypes
<1>2. /\ channels' = channels /\ scripts' = scripts /\ renumbered' = renumbered
      /\ channelNums' = channelNums /\ curves' = curves
  BY DEF toggled
<1>3. rules \in [DOMAIN channels -> Rules]
  BY DEF ChannelInvariant, ChannelTypes
<1>4. /\ rules' \in [DOMAIN channels -> Rules]
      /\ \A u \in DOMAIN channels : \E e \in BOOLEAN : rules'[u] = [rules[u] EXCEPT !.enable = e]
  <2>1. rules[uuid] \in Rules
    BY <1>3
  <2>2. (~rules[uuid].enable) \in BOOLEAN
    OBVIOUS
  <2>3. PICK e \in BOOLEAN : e = ~rules[uuid].enable
    BY <2>2
  <2>4. rules' = [rules EXCEPT ![uuid] = [rules[uuid] EXCEPT !.enable = e]]
    BY <1>1, <2>3, Zenon
  <2>5. [rules[uuid] EXCEPT !.enable = e] \in Rules
    BY <2>1 DEF Rules
  <2>6. \A u \in DOMAIN channels : rules[u] = [rules[u] EXCEPT !.enable = rules[u].enable]
            /\ rules[u].enable \in BOOLEAN
    BY <1>3 DEF Rules
  <2> QED
    BY <1>3, <2>4, <2>5, <2>6
<1>5. ASSUME NEW u \in DOMAIN channels
      PROVE  /\ rules'[u].channel = rules[u].channel
             /\ rules'[u].header = rules[u].header
             /\ \E e \in BOOLEAN : rules'[u] = [rules[u] EXCEPT !.enable = e]
  BY <1>3, <1>4 DEF Rules
<1>6. ChannelTypes'
  BY <1>2, <1>4 DEF ChannelInvariant, ChannelTypes
<1>7. ChannelsNumbered'
  BY <1>2, <1>5 DEF ChannelInvariant, ChannelsNumbered
<1>8. ASSUME NEW u \in DOMAIN channels PROVE RuleAsLeft(u)' /\ ScriptAsLeft(u)'
  <2>1. RuleAsLeft(u) /\ ScriptAsLeft(u)
    BY DEF ChannelInvariant
  <2>2. ScriptAsLeft(u)'
    BY <1>2, <2>1 DEF ScriptAsLeft
  <2>3. ASSUME channels[u].settings.format = Invalid PROVE RuleAsLeft(u)'
    BY <1>2, <1>5, <2>1, <2>3 DEF RuleAsLeft, Invalid
  <2>4. ASSUME channels[u].settings.format # Invalid PROVE RuleAsLeft(u)'
    <3> DEFINE r == RuleFor(channels[u].number, channels[u].settings.format)
    <3>1. r \in Rules
      BY RulesAreTyped DEF ChannelInvariant, ChannelTypes
    <3>2. rules[u] = [r EXCEPT !.enable = rules[u].enable]
      BY <2>1, <2>4 DEF RuleAsLeft
    <3>3. PICK e \in BOOLEAN : rules'[u] = [rules[u] EXCEPT !.enable = e]
      BY <1>5
    <3>4. rules'[u] = [r EXCEPT !.enable = rules'[u].enable]
      <4> HIDE DEF r
      <4> QED
        BY <1>3, <3>1, <3>2, <3>3 DEF Rules
    <3>5. RuleFor(channels[u].number, channels[u].settings.format)' = r
      BY <1>2 DEF RuleFor
    <3>6. channels'[u].settings.format # Invalid
      BY <1>2, <2>4
    <3> HIDE DEF r
    <3> QED
      BY <3>4, <3>5, <3>6 DEF RuleAsLeft, Invalid
  <2> QED
    BY <2>2, <2>3, <2>4
<1> QED
  BY <1>2, <1>6, <1>7, <1>8 DEF ChannelInvariant

\* A restored window: the channels under their new numbers, with the rules and
\* the scripts of their dialogs, unless a script of the record has its number.
LEMMA ChannelsRestored ==
    ASSUME ChannelInvariant, Restore
    PROVE  ChannelInvariant'
<1> DEFINE D == DOMAIN channels
<1>1. /\ channels' = [u \in D |-> [channels[u] EXCEPT !.number = Renumbered(u)]]
      /\ rules' = [u \in D |-> RuleFor(Renumbered(u), channels[u].settings.format)]
      /\ channelNums' = Cardinality(D)
      /\ curves' = {Renumbered(u) : u \in D}
      /\ scripts' = RestoredScripts
  BY DEF Restore
<1>2. /\ channels \in [D -> [number : Nat, settings : Settings]]
      /\ IsFiniteSet(D) /\ D \subseteq Uuids
  BY DEF ChannelInvariant, ChannelTypes
<1>3. /\ Cardinality(D) \in Nat
      /\ \A u \in D : Renumbered(u) \in Nat /\ Renumbered(u) < Cardinality(D)
      /\ \A u, v \in D : Renumbered(u) = Renumbered(v) => u = v
  BY RenumberedApart DEF ChannelInvariant
<1> HIDE DEF D
<1>4. ASSUME NEW u \in D
      PROVE  /\ channels'[u] \in [number : Nat, settings : Settings]
             /\ channels'[u].number = Renumbered(u)
             /\ channels'[u].settings = channels[u].settings
  <2>1. channels[u] \in [number : Nat, settings : Settings]
    BY <1>2
  <2>2. channels'[u] = [channels[u] EXCEPT !.number = Renumbered(u)]
    BY <1>1
  <2> QED
    BY <1>3, <2>1, <2>2
<1>5. ASSUME NEW u \in D
      PROVE  /\ rules'[u] = RuleFor(Renumbered(u), channels[u].settings.format)
             /\ rules'[u] \in Rules /\ rules'[u].channel = Renumbered(u)
  <2>1. channels[u].settings \in Settings
    BY <1>2
  <2> QED
    BY <1>1, <1>3, <2>1, RulesAreTyped DEF RuleFor
<1>6. DOMAIN channels' = D /\ rules' \in [D -> Rules]
  BY <1>1, <1>5
<1>7. ChannelTypes'
  <2>1. channels' \in [D -> [number : Nat, settings : Settings]]
    BY <1>1, <1>2, <1>3, <1>4
  <2> QED
    BY <1>1, <1>2, <1>3, <1>6, <2>1 DEF ChannelTypes
<1>8. ChannelsNumbered'
  <2>1. curves' = {channels'[u].number : u \in DOMAIN channels'}
    BY <1>1, <1>4, <1>6
  <2>2. \A u \in DOMAIN channels' : channels'[u].number = Renumbered(u)
    BY <1>4, <1>6
  <2> QED
    BY <1>1, <1>3, <1>5, <1>6, <2>1, <2>2 DEF ChannelsNumbered
<1>9. ASSUME NEW u \in D PROVE RuleAsLeft(u)'
  <2> DEFINE s == channels[u].settings
             r == RuleFor(Renumbered(u), s.format)
  <2>1. RuleFor(channels[u].number, channels[u].settings.format)' = r
    BY <1>4 DEF RuleFor
  <2>2. s \in Settings
    BY <1>2
  <2>3. r.header = s.format.header /\ r = [r EXCEPT !.enable = r.enable]
    BY DEF RuleFor
  <2>4. s.format.header = <<>> <=> s.format = Invalid
    BY <2>2, FormatsAreTyped
  <2>5. rules'[u] = r /\ channels'[u].settings = s
    BY <1>4, <1>5
  <2> HIDE DEF r, s
  <2> QED
    BY <2>1, <2>3, <2>4, <2>5 DEF RuleAsLeft, Invalid
<1>10. ASSUME NEW u \in D PROVE ScriptAsLeft(u)'
  <2>1. SUFFICES ASSUME channels[u].settings.script # NoScript, ~renumbered'
                 PROVE  /\ Renumbered(u) \in DOMAIN scripts'
                        /\ scripts'[Renumbered(u)] = channels[u].settings.script
    BY <1>4 DEF ScriptAsLeft, NoScript
  <2>2. ~renumbered /\ Renumbered(u) = channels[u].number
    BY <2>1 DEF Restore, D
  <2>3. /\ channels[u].number \in DOMAIN scripts
        /\ scripts[channels[u].number] = channels[u].settings.script
    BY <2>1, <2>2 DEF ChannelInvariant, ScriptAsLeft, D
  <2> QED
    BY <1>1, <2>2, <2>3 DEF RestoredScripts
<1> QED
  BY <1>6, <1>7, <1>8, <1>9, <1>10 DEF ChannelInvariant

\* What is received leaves the channels alone, and every script where it is.
LEMMA ChannelsKeptBelow ==
    ASSUME ChannelInvariant,
           UNCHANGED <<channels, rules, channelNums, curves, renumbered>>,
           \A n \in DOMAIN scripts : n \in DOMAIN scripts' /\ scripts'[n] = scripts[n]
    PROVE  ChannelInvariant'
<1>1. ChannelTypes'
  BY DEF ChannelInvariant, ChannelTypes
<1>2. ChannelsNumbered'
  BY DEF ChannelInvariant, ChannelsNumbered
<1>3. ASSUME NEW u \in DOMAIN channels PROVE RuleAsLeft(u)' /\ ScriptAsLeft(u)'
  <2>1. RuleAsLeft(u) /\ ScriptAsLeft(u)
    BY DEF ChannelInvariant
  <2> QED
    BY <2>1, KeptChannel
<1> QED
  BY <1>1, <1>2, <1>3 DEF ChannelInvariant

\* What is received changes no script.
LEMMA ScriptsStay ==
    ASSUME NEW bytes, dataReceived(bytes)
    PROVE  \A n \in DOMAIN scripts : n \in DOMAIN scripts' /\ scripts'[n] = scripts[n]
<1>1. PICK asked : scripts' = [channel \in DOMAIN scripts \cup asked |-> ScriptOf(channel)]
  BY DEF dataReceived
<1> QED
  BY <1>1 DEF ScriptOf

\* No step of a serial window breaks this.
LEMMA ChannelInvariantStep ==
    ASSUME ChannelInvariant, [Next]_vars
    PROVE  ChannelInvariant'
<1>1. CASE addAction
  BY <1>1, ChannelAdded
<1>2. CASE HandleDialogData
  BY <1>2, ChannelEdited
<1>3. CASE deleteAction
  BY <1>3, ChannelDeleted
<1>4. CASE toggled
  BY <1>4, ChannelToggled
<1>5. CASE Restore
  BY <1>5, ChannelsRestored
<1>6. CASE protocolTypeChanged \/ OtherWindow \/ UNCHANGED vars
  BY <1>6, ChannelsKeptBelow DEF protocolTypeChanged, OtherWindow, vars, table
<1>7. CASE Transmission
  <2>1. PICK bytes : dataReceived(bytes)
    BY <1>7 DEF Transmission
  <2> QED
    BY <2>1, ScriptsStay, ChannelsKeptBelow DEF dataReceived
<1>8. CASE RestArrives
  <2>1. PICK bytes : dataReceived(bytes)
    BY <1>8 DEF RestArrives
  <2> QED
    BY <2>1, ScriptsStay, ChannelsKeptBelow DEF dataReceived
<1> QED
  BY <1>1, <1>2, <1>3, <1>4, <1>5, <1>6, <1>7, <1>8 DEF Next

\* No window begins with a channel.
LEMMA ChannelInvariantAlways == Spec => []ChannelInvariant
<1>1. Init => ChannelInvariant
  <2> SUFFICES ASSUME Init PROVE ChannelInvariant
    OBVIOUS
  <2>1. DOMAIN channels = {} /\ DOMAIN rules = {}
    BY DEF Init
  <2>2. channels \in [{} -> [number : Nat, settings : Settings]] /\ rules \in [{} -> Rules]
    BY DEF Init
  <2> QED
    BY <2>1, <2>2, FS_EmptySet DEF Init, ChannelInvariant, ChannelTypes, ChannelsNumbered
<1> QED
  BY <1>1, ChannelInvariantStep, PTL DEF Spec

\* As many curves as channels, each with the rule and the script of its dialog.
LEMMA ChannelInvariantShows ==
    ASSUME ChannelInvariant
    PROVE  OneCurvePerChannel /\ ChannelsFollowTheDialog
<1>1. Cardinality(curves) = Cardinality(DOMAIN channels)
  <2> DEFINE number == [u \in DOMAIN channels |-> channels[u].number]
  <2>1. number \in Bijection(DOMAIN channels, curves)
    BY DEF ChannelInvariant, ChannelsNumbered, Bijection, Injection, Surjection, IsInjective
  <2>2. ExistsBijection(DOMAIN channels, curves)
    BY <2>1 DEF ExistsBijection
  <2> QED
    BY <2>2, FS_Bijection DEF ChannelInvariant, ChannelTypes
<1>2. OneCurvePerChannel
  BY <1>1 DEF ChannelInvariant, ChannelTypes, ChannelsNumbered, OneCurvePerChannel
<1>3. ChannelsFollowTheDialog
  BY DEF ChannelInvariant, RuleAsLeft, ScriptAsLeft, ChannelsFollowTheDialog
<1> QED
  BY <1>2, <1>3

-----------------------------------------------------------------------------
(* Sizes of the messages *)

\* What is kept for a view whose last change is handled is what it would be given,
\* and so is what was given out last.
SizesKept ==
    /\ \A v \in Views \ resizing, m \in Bubbles :
           size_cache_[v][m] \in {Sizing!Unknown, Sizing!getLayoutCache(v)}
    /\ hint # Sizing!NoHint => hint.size = Sizing!getLayoutCache(hint.view)

\* A cache for every message of every view, a width for every view.
CacheTyped ==
    /\ \E S : size_cache_ \in [Views -> [Bubbles -> S]]
    /\ width \in [Views -> Widths]

\* What a view would be given depends on its width and its scroll bar.
LEMMA LayoutOf ==
    ASSUME NEW v, width'[v] = width[v], v \in bar' <=> v \in bar
    PROVE  Sizing!getLayoutCache(v)' = Sizing!getLayoutCache(v)
  BY DEF Sizing!getLayoutCache, Sizing!LinesOf

\* The caches stay those of all messages.
LEMMA CacheTypedStep ==
    ASSUME CacheTyped, [Sizing!Next]_Sizing!vars
    PROVE  CacheTyped'
<1>1. PICK S : size_cache_ \in [Views -> [Bubbles -> S]]
  BY DEF CacheTyped
<1>2. ASSUME NEW v \in Views, NEW m \in Bubbles, Sizing!sizeHint(v, m) PROVE CacheTyped'
  <2>1. PICK size : size_cache_' = [size_cache_ EXCEPT ![v][m] = size]
    BY <1>2 DEF Sizing!sizeHint
  <2>2. size_cache_' \in [Views -> [Bubbles -> S \cup {size}]]
    BY <1>1, <2>1
  <2> QED
    BY <1>2, <2>2 DEF CacheTyped, Sizing!sizeHint
<1>3. ASSUME NEW v \in Views, NEW w \in Widths, Sizing!Widened(v, w) PROVE CacheTyped'
  BY <1>3 DEF CacheTyped, Sizing!Widened
<1>4. ASSUME NEW v \in Views, Sizing!resizeEvent(v) PROVE CacheTyped'
  <2>1. size_cache_' \in [Views -> [Bubbles -> {Sizing!Unknown}]]
    BY <1>4 DEF Sizing!resizeEvent
  <2> QED
    BY <1>4, <2>1 DEF CacheTyped, Sizing!resizeEvent
<1>5. ASSUME UNCHANGED <<size_cache_, width>> PROVE CacheTyped'
  BY <1>5 DEF CacheTyped
<1> QED
  BY <1>2, <1>3, <1>4, <1>5
     DEF Sizing!Next, Sizing!vars, Sizing!ScrollBarToggled, Sizing!handleViewportResize

\* Every change of a view's layout is taken note of, and its handling empties the cache.
LEMMA SizesKeptStep ==
    ASSUME CacheTyped, SizesKept, [Sizing!Next]_Sizing!vars
    PROVE  SizesKept'
<1>1. ASSUME NEW v \in Views, NEW m \in Bubbles, Sizing!sizeHint(v, m) PROVE SizesKept'
  <2> DEFINE size == Sizing!getLayoutCache(v)
  <2>1. v \notin resizing /\ UNCHANGED <<width, bar, resizing>>
    BY <1>1 DEF Sizing!sizeHint
  <2>2. size_cache_[v][m] \in {Sizing!Unknown, size}
    BY <2>1 DEF SizesKept
  <2>3. size_cache_' = [size_cache_ EXCEPT ![v][m] = size] /\ hint' = [view |-> v, size |-> size]
    BY <1>1, <2>2 DEF Sizing!sizeHint
  <2>4. \A u : Sizing!getLayoutCache(u)' = Sizing!getLayoutCache(u)
    BY <2>1, LayoutOf
  <2> HIDE DEF size
  <2>5. \A u \in Views, n \in Bubbles :
            size_cache_'[u][n] = IF u = v /\ n = m THEN size ELSE size_cache_[u][n]
    BY <2>3 DEF CacheTyped
  <2>6. \A u \in Views \ resizing', n \in Bubbles :
            size_cache_'[u][n] \in {Sizing!Unknown, Sizing!getLayoutCache(u)'}
    BY <2>1, <2>4, <2>5 DEF SizesKept, size
  <2>7. (hint.size = Sizing!getLayoutCache(hint.view))'
    BY <2>1, <2>3 DEF size, Sizing!getLayoutCache, Sizing!LinesOf
  <2> QED
    BY <2>6, <2>7 DEF SizesKept, Sizing!Unknown, Sizing!NoHint
<1>2. ASSUME NEW v \in Views, NEW w \in Widths, Sizing!Widened(v, w) PROVE SizesKept'
  <2>1. /\ width' = [width EXCEPT ![v] = w] /\ resizing' = resizing \cup {v}
        /\ hint' = Sizing!NoHint /\ UNCHANGED <<bar, size_cache_>>
    BY <1>2 DEF Sizing!Widened
  <2>2. \A u \in Views \ resizing' : Sizing!getLayoutCache(u)' = Sizing!getLayoutCache(u)
    BY <2>1, LayoutOf DEF CacheTyped
  <2> QED
    BY <2>1, <2>2 DEF SizesKept, Sizing!Unknown, Sizing!NoHint
<1>3. ASSUME NEW v \in Views, Sizing!ScrollBarToggled(v) PROVE SizesKept'
  <2>1. /\ bar' = (bar \ {v}) \cup ({v} \ bar) /\ resizing' = resizing \cup {v}
        /\ hint' = Sizing!NoHint /\ UNCHANGED <<width, size_cache_>>
    BY <1>3 DEF Sizing!ScrollBarToggled
  <2>2. \A u \in Views \ resizing' : Sizing!getLayoutCache(u)' = Sizing!getLayoutCache(u)
    BY <2>1, LayoutOf
  <2> QED
    BY <2>1, <2>2 DEF SizesKept, Sizing!Unknown, Sizing!NoHint
<1>4. ASSUME NEW v \in Views, Sizing!resizeEvent(v) PROVE SizesKept'
  BY <1>4 DEF SizesKept, Sizing!resizeEvent, Sizing!Unknown, Sizing!NoHint
<1>5. ASSUME NEW v \in Views, Sizing!handleViewportResize(v) PROVE SizesKept'
  <2>1. hint' = Sizing!NoHint /\ UNCHANGED <<width, bar, size_cache_, resizing>>
    BY <1>5 DEF Sizing!handleViewportResize
  <2>2. \A u : Sizing!getLayoutCache(u)' = Sizing!getLayoutCache(u)
    BY <2>1, LayoutOf
  <2> QED
    BY <2>1, <2>2 DEF SizesKept, Sizing!Unknown, Sizing!NoHint
<1>6. CASE UNCHANGED Sizing!vars
  <2>1. UNCHANGED <<width, bar, size_cache_, resizing, hint>>
    BY <1>6 DEF Sizing!vars
  <2>2. \A u : Sizing!getLayoutCache(u)' = Sizing!getLayoutCache(u)
    BY <2>1, LayoutOf
  <2> QED
    BY <2>1, <2>2 DEF SizesKept, Sizing!Unknown, Sizing!NoHint
<1> QED
  BY <1>1, <1>2, <1>3, <1>4, <1>5, <1>6 DEF Sizing!Next

\* The invariant of the sizes is inductive, and implies the property.
LEMMA SizesAlwaysFit == Sizing!Spec => []Sizing!SizesFit
<1>1. Sizing!Init => CacheTyped /\ SizesKept
  <2> SUFFICES ASSUME Sizing!Init PROVE CacheTyped /\ SizesKept
    OBVIOUS
  <2>1. size_cache_ \in [Views -> [Bubbles -> {Sizing!Unknown}]]
    BY DEF Sizing!Init
  <2> QED
    BY <2>1 DEF Sizing!Init, CacheTyped, SizesKept
<1>2. CacheTyped /\ SizesKept /\ [Sizing!Next]_Sizing!vars => CacheTyped' /\ SizesKept'
  BY CacheTypedStep, SizesKeptStep
<1>3. SizesKept => Sizing!SizesFit
  BY DEF SizesKept, Sizing!SizesFit
<1> QED
  BY <1>1, <1>2, <1>3, PTL DEF Sizing!Spec

-----------------------------------------------------------------------------
(* The instruction table *)

\* The larger of two numbers.
LEMMA LargerOfTwo ==
    ASSUME NEW a \in Int, NEW b \in Int
    PROVE  Instructions!Max({a, b}) = IF a >= b THEN a ELSE b
<1>1. \E x \in {a, b} : \A y \in {a, b} : x >= y
  OBVIOUS
<1>2. Instructions!Max({a, b}) \in {a, b} /\ \A y \in {a, b} : Instructions!Max({a, b}) >= y
  BY <1>1, Zenon DEF Instructions!Max
<1> QED
  BY <1>2

\* The smaller of two numbers.
LEMMA SmallerOfTwo ==
    ASSUME NEW a \in Int, NEW b \in Int
    PROVE  Instructions!Min({a, b}) = IF a <= b THEN a ELSE b
<1>1. \E x \in {a, b} : \A y \in {a, b} : x <= y
  OBVIOUS
<1>2. Instructions!Min({a, b}) \in {a, b} /\ \A y \in {a, b} : Instructions!Min({a, b}) <= y
  BY <1>1, Zenon DEF Instructions!Min
<1> QED
  BY <1>2

\* A function of the first n numbers is a sequence.
LEMMA FunctionIsSequence ==
    ASSUME NEW n \in Nat, NEW S, NEW f, f \in [1 .. n -> S]
    PROVE  f \in Seq(S) /\ Len(f) = n
<1>1. f \in Seq(S)
  BY SeqDef
<1>2. Len(f) \in Nat /\ DOMAIN f = 1 .. Len(f)
  BY <1>1, LenProperties
<1>3. 1 .. Len(f) = 1 .. n
  BY <1>2
<1>4. Len(f) <= n
  <2>1. CASE Len(f) = 0
    BY <2>1
  <2>2. CASE Len(f) # 0
    BY <1>2, <1>3, <2>2
  <2> QED
    BY <2>1, <2>2
<1>5. n <= Len(f)
  <2>1. CASE n = 0
    BY <1>2, <2>1
  <2>2. CASE n # 0
    BY <1>2, <1>3, <2>2
  <2> QED
    BY <2>1, <2>2
<1> QED
  BY <1>1, <1>2, <1>4, <1>5

\* What is left of a sequence when one place is taken out.
LEMMA OneRemoved ==
    ASSUME NEW S, NEW s \in Seq(S), NEW g \in 1 .. Len(s)
    PROVE  /\ Instructions!RemoveAt(s, g) \in Seq(S)
           /\ Len(Instructions!RemoveAt(s, g)) = Len(s) - 1
           /\ \A i \in 1 .. (Len(s) - 1) :
                  Instructions!RemoveAt(s, g)[i] = s[IF i < g THEN i ELSE i + 1]
<1> DEFINE before == SubSeq(s, 1, g - 1)
           after == SubSeq(s, g + 1, Len(s))
<1>1. PICK n \in Nat : n = Len(s)
  OBVIOUS
<1>2. \A i \in 1 .. n : s[i] \in S
  BY <1>1, LenProperties
<1>3. /\ before \in Seq(S) /\ Len(before) = g - 1
      /\ \A i \in 1 .. (g - 1) : before[i] = s[i]
  <2>1. \A i \in 1 .. (g - 1) : s[i] \in S
    BY <1>1, <1>2
  <2>2. /\ before \in Seq(S)
        /\ Len(before) = IF 1 <= g - 1 THEN (g - 1) - 1 + 1 ELSE 0
        /\ \A i \in 1 .. (g - 1) - 1 + 1 : before[i] = s[1 + i - 1]
    BY <1>1, <2>1, SubSeqProperties
  <2> HIDE DEF before
  <2>3. Len(before) = g - 1
    BY <2>2
  <2>4. \A i \in 1 .. (g - 1) : before[i] = s[i]
    <3> SUFFICES ASSUME NEW i \in 1 .. (g - 1) PROVE before[i] = s[i]
      OBVIOUS
    <3>1. i \in 1 .. (g - 1) - 1 + 1 /\ 1 + i - 1 = i
      BY <1>1
    <3> QED
      BY <3>1, <2>2
  <2> QED
    BY <2>2, <2>3, <2>4
<1>4. /\ after \in Seq(S) /\ Len(after) = n - g
      /\ \A i \in 1 .. (n - g) : after[i] = s[g + i]
  <2>1. \A i \in (g + 1) .. n : s[i] \in S
    BY <1>1, <1>2
  <2>2. /\ after \in Seq(S)
        /\ Len(after) = IF g + 1 <= n THEN n - (g + 1) + 1 ELSE 0
        /\ \A i \in 1 .. n - (g + 1) + 1 : after[i] = s[(g + 1) + i - 1]
    BY <1>1, <2>1, SubSeqProperties
  <2> HIDE DEF after
  <2>3. \A i \in 1 .. (n - g) : after[i] = s[g + i]
    <3> SUFFICES ASSUME NEW i \in 1 .. (n - g) PROVE after[i] = s[g + i]
      OBVIOUS
    <3>1. i \in 1 .. n - (g + 1) + 1 /\ (g + 1) + i - 1 = g + i
      BY <1>1
    <3> QED
      BY <2>2, <3>1
  <2> QED
    BY <1>1, <2>2, <2>3
<1>5. Instructions!RemoveAt(s, g) = before \o after
  BY DEF Instructions!RemoveAt
<1> HIDE DEF before, after
<1>6. /\ before \o after \in Seq(S) /\ Len(before \o after) = n - 1
      /\ \A i \in 1 .. (n - 1) :
             (before \o after)[i] = IF i <= g - 1 THEN before[i] ELSE after[i - (g - 1)]
  <2>1. /\ before \o after \in Seq(S) /\ Len(before \o after) = Len(before) + Len(after)
        /\ \A i \in 1 .. Len(before) + Len(after) :
               (before \o after)[i] =
                   IF i <= Len(before) THEN before[i] ELSE after[i - Len(before)]
    BY <1>3, <1>4, ConcatProperties
  <2>2. Len(before) + Len(after) = n - 1
    BY <1>1, <1>3, <1>4
  <2> QED
    BY <1>3, <2>1, <2>2
<1>7. \A i \in 1 .. (n - 1) : (before \o after)[i] = s[IF i < g THEN i ELSE i + 1]
  <2> SUFFICES ASSUME NEW i \in 1 .. (n - 1)
               PROVE  (before \o after)[i] = s[IF i < g THEN i ELSE i + 1]
    OBVIOUS
  <2>1. CASE i < g
    <3>1. i \in 1 .. (g - 1) /\ i <= g - 1
      BY <1>1, <2>1
    <3> QED
      BY <1>3, <1>6, <2>1, <3>1
  <2>2. CASE ~(i < g)
    <3>1. i - (g - 1) \in 1 .. (n - g) /\ ~(i <= g - 1) /\ g + (i - (g - 1)) = i + 1
      BY <1>1, <2>2
    <3> QED
      BY <1>3, <1>4, <1>6, <2>2, <3>1
  <2> QED
    BY <2>1, <2>2
<1> QED
  BY <1>1, <1>5, <1>6, <1>7

\* The controls of a row are bound to it, show it and are connected; the others
\* have none.
CellTypes ==
    [shown : Rows, wired : BOOLEAN, enabled : BOOLEAN, send : BOOLEAN, there : BOOLEAN]

BoundWhereTheyStand(t) ==
    /\ \A r \in 1 .. Len(t.model) : t.cells[r].there <=> r \in DOMAIN t.bound
    /\ \A r \in DOMAIN t.bound :
           t.bound[r] = r /\ t.cells[r].shown = t.model[r] /\ t.cells[r].wired

TableSound(t) ==
    /\ t.model \in Seq(Rows) /\ t.cells \in Seq(CellTypes) /\ Len(t.cells) = Len(t.model)
    /\ DOMAIN t.bound \subseteq 1 .. Len(t.model)
    /\ BoundWhereTheyStand(t)

\* The table of n rows as functions of their numbers.
LEMMA SoundTable ==
    ASSUME NEW t, TableSound(t), NEW n, n = Len(t.model)
    PROVE  /\ n \in Nat /\ t.model \in [1 .. n -> Rows] /\ t.cells \in [1 .. n -> CellTypes]
           /\ DOMAIN t.model = 1 .. n /\ DOMAIN t.cells = 1 .. n
  BY LenProperties DEF TableSound

\* What an empty cell is.
LEMMA NoControlsTyped == Instructions!None \in CellTypes /\ ~Instructions!None.there
  BY RowsAssumption DEF Instructions!None, CellTypes

\* What BindRows puts into the cells of a row.
LEMMA ControlsTyped ==
    ASSUME NEW row \in Rows, NEW enable, enable \in BOOLEAN
    PROVE  LET new == Instructions!Controls(row, enable) IN
           /\ new \in CellTypes /\ new.there /\ new.wired /\ new.shown = row /\ new.send
           /\ new.enabled <=> enable
  BY DEF Instructions!Controls, CellTypes

\* Rows that have no controls get some.
LEMMA BindRowsKeeps ==
    ASSUME NEW t, TableSound(t), NEW free \in SUBSET ((1 .. Len(t.model)) \ DOMAIN t.bound),
           NEW enable, enable \in BOOLEAN
    PROVE  LET C == Instructions!BindRows(t, free, enable) IN
           /\ TableSound(C) /\ C.model = t.model /\ DOMAIN C.bound = DOMAIN t.bound \cup free
           /\ \A r \in free : C.cells[r] = Instructions!Controls(t.model[r], enable)
           /\ \A r \in (1 .. Len(t.model)) \ free : C.cells[r] = t.cells[r]
<1> DEFINE C == Instructions!BindRows(t, free, enable)
<1>1. PICK n \in Nat : n = Len(t.model)
  BY SoundTable
<1>2. /\ t.model \in [1 .. n -> Rows] /\ t.cells \in [1 .. n -> CellTypes]
      /\ DOMAIN t.cells = 1 .. n
  BY <1>1, SoundTable
<1>3. /\ C.model = t.model
      /\ C.cells = [r \in 1 .. n |-> IF r \in free THEN Instructions!Controls(t.model[r], enable)
                                     ELSE t.cells[r]]
      /\ C.bound = [r \in free \cup DOMAIN t.bound |-> IF r \in free THEN r ELSE t.bound[r]]
  BY <1>2 DEF Instructions!BindRows
<1> HIDE DEF C
<1>4. \A r \in 1 .. n : C.cells[r] \in CellTypes
  BY <1>2, <1>3, ControlsTyped
<1>5. C.cells \in Seq(CellTypes) /\ Len(C.cells) = n
  <2>1. C.cells \in [1 .. n -> CellTypes]
    BY <1>3, <1>4
  <2> QED
    BY <2>1, FunctionIsSequence
<1>6. DOMAIN C.bound = DOMAIN t.bound \cup free /\ DOMAIN C.bound \subseteq 1 .. n
  BY <1>1, <1>3 DEF TableSound
<1>7. \A r \in 1 .. n : C.cells[r].there <=> r \in DOMAIN C.bound
  BY <1>1, <1>2, <1>3, <1>6, ControlsTyped DEF TableSound, BoundWhereTheyStand
<1>8. \A r \in DOMAIN C.bound :
          C.bound[r] = r /\ C.cells[r].shown = C.model[r] /\ C.cells[r].wired
  <2> SUFFICES ASSUME NEW r \in DOMAIN C.bound
               PROVE  C.bound[r] = r /\ C.cells[r].shown = C.model[r] /\ C.cells[r].wired
    OBVIOUS
  <2>1. r \in 1 .. n /\ t.model[r] \in Rows
    BY <1>2, <1>6
  <2>2. CASE r \in free
    BY <1>3, <2>1, <2>2, ControlsTyped
  <2>3. CASE r \notin free
    BY <1>3, <1>6, <2>1, <2>3 DEF TableSound, BoundWhereTheyStand
  <2> QED
    BY <2>2, <2>3
<1>9. BoundWhereTheyStand(C)
  BY <1>1, <1>3, <1>7, <1>8 DEF BoundWhereTheyStand
<1>10. TableSound(C)
  BY <1>1, <1>3, <1>5, <1>6, <1>9 DEF TableSound
<1> QED
  BY <1>1, <1>3, <1>6, <1>10 DEF C

\* Rows lose their controls.
LEMMA UnBindRowsKeeps ==
    ASSUME NEW t, TableSound(t), NEW gone \in SUBSET DOMAIN t.bound
    PROVE  LET C == Instructions!UnBindRows(t, gone) IN
           /\ TableSound(C) /\ C.model = t.model /\ DOMAIN C.bound = DOMAIN t.bound \ gone
           /\ \A r \in 1 .. Len(t.model) :
                  C.cells[r] = IF r \in gone THEN Instructions!None ELSE t.cells[r]
<1> DEFINE C == Instructions!UnBindRows(t, gone)
<1>1. PICK n \in Nat : n = Len(t.model)
  BY SoundTable
<1>2. /\ t.model \in [1 .. n -> Rows] /\ t.cells \in [1 .. n -> CellTypes]
      /\ DOMAIN t.cells = 1 .. n
  BY <1>1, SoundTable
<1>3. Instructions!Emptied(t, gone) = gone
  BY DEF Instructions!Emptied, TableSound, BoundWhereTheyStand
<1>4. /\ C.model = t.model
      /\ C.cells = [r \in 1 .. n |-> IF r \in gone THEN Instructions!None ELSE t.cells[r]]
      /\ C.bound = [r \in DOMAIN t.bound \ gone |-> t.bound[r]]
  BY <1>2, <1>3 DEF Instructions!UnBindRows, Instructions!Cleared
<1> HIDE DEF C
<1>5. C.cells \in Seq(CellTypes) /\ Len(C.cells) = n
  <2>1. C.cells \in [1 .. n -> CellTypes]
    BY <1>2, <1>4, NoControlsTyped
  <2> QED
    BY <2>1, FunctionIsSequence
<1>6. DOMAIN C.bound = DOMAIN t.bound \ gone /\ DOMAIN C.bound \subseteq 1 .. n
  BY <1>1, <1>4 DEF TableSound
<1>7. \A r \in 1 .. n : C.cells[r].there <=> r \in DOMAIN C.bound
  BY <1>1, <1>4, <1>6, NoControlsTyped DEF TableSound, BoundWhereTheyStand
<1>8. \A r \in DOMAIN C.bound :
          C.bound[r] = r /\ C.cells[r].shown = C.model[r] /\ C.cells[r].wired
  BY <1>4, <1>6 DEF TableSound, BoundWhereTheyStand
<1>9. BoundWhereTheyStand(C)
  BY <1>1, <1>4, <1>7, <1>8 DEF BoundWhereTheyStand
<1>10. TableSound(C)
  BY <1>1, <1>4, <1>5, <1>6, <1>9 DEF TableSound
<1> QED
  BY <1>1, <1>4, <1>6, <1>10 DEF C

\* The rows that are to have controls are rows, and at least Prefetch of them
\* stand behind those on the screen.
LEMMA ToBindIs ==
    ASSUME NEW t, Len(t.model) \in Nat, NEW first \in Nat, NEW high \in Nat
    PROVE  /\ Instructions!ToBind(t, first, high) \subseteq 1 .. Len(t.model)
           /\ \A r \in 1 .. Len(t.model) :
                  /\ Instructions!FirstOnScreen(first) <= r
                  /\ r <= first + high - 1 + Prefetch
                  => r \in Instructions!ToBind(t, first, high)
<1> DEFINE n == Len(t.model)
           from == Instructions!FirstOnScreen(first)
           to == Instructions!LastOnScreen(t, first, high)
           more == Instructions!Buffer(to - from + 1)
<1>1. Prefetch \in Nat
  BY TableAssumption
<1>2. from \in Nat /\ from >= 1
  BY DEF Instructions!FirstOnScreen
<1>3. to \in Int /\ to = IF n <= first + high - 1 THEN n ELSE first + high - 1
  BY SmallerOfTwo DEF Instructions!LastOnScreen
<1> HIDE DEF from, to
<1>4. more \in Int /\ more >= Prefetch
  <2>1. (to - from + 1) \div 5 \in Int
    BY <1>2, <1>3
  <2> QED
    BY <1>1, <2>1, LargerOfTwo DEF Instructions!Buffer
<1> HIDE DEF more
<1>5. Instructions!ToBind(t, first, high)
          = Instructions!Max({1, from - more}) .. Instructions!Min({n, to + more})
  BY DEF Instructions!ToBind, from, to, more
<1>6. /\ Instructions!Max({1, from - more}) = IF 1 >= from - more THEN 1 ELSE from - more
      /\ Instructions!Min({n, to + more}) = IF n <= to + more THEN n ELSE to + more
  BY <1>2, <1>3, <1>4, LargerOfTwo, SmallerOfTwo
<1>7. Instructions!ToBind(t, first, high) \subseteq 1 .. n
  BY <1>2, <1>3, <1>4, <1>5, <1>6
<1>8. ASSUME NEW r \in 1 .. n, from <= r, r <= first + high - 1 + Prefetch
      PROVE  r \in Instructions!ToBind(t, first, high)
  BY <1>1, <1>2, <1>3, <1>4, <1>5, <1>6, <1>8
<1> QED
  BY <1>7, <1>8 DEF from

\* The rows with controls in C have those they had in t, or new ones.
KeptOrNew(t, C, enable) ==
    \A r \in DOMAIN C.bound :
        C.cells[r] = IF r \in DOMAIN t.bound THEN t.cells[r]
                     ELSE Instructions!Controls(t.model[r], enable)

\* However the table stood before: then the rows that are to have controls have
\* some, and no others.
LEMMA SetupKeeps ==
    ASSUME NEW t, TableSound(t), NEW first \in Nat, NEW high \in Nat, NEW enable, enable \in BOOLEAN
    PROVE  LET C == Instructions!SetupVisibleRows(t, first, high, enable) IN
           /\ TableSound(C) /\ C.model = t.model
           /\ \A r \in 1 .. Len(t.model) :
                  r \in DOMAIN C.bound <=> r \in Instructions!ToBind(t, first, high)
           /\ KeptOrNew(t, C, enable)
<1> DEFINE C == Instructions!SetupVisibleRows(t, first, high, enable)
           wanted == Instructions!ToBind(t, first, high)
           bare == wanted \ DOMAIN t.bound
           B == Instructions!BindRows(t, bare, enable)
<1>1. PICK n \in Nat : n = Len(t.model)
  BY SoundTable
<1>2. CASE t.model = <<>>
  <2>1. C = t
    BY <1>2 DEF Instructions!SetupVisibleRows
  <2>2. Len(t.model) = 0 /\ 1 .. Len(t.model) = {}
    BY <1>2, EmptySeq
  <2> QED
    BY <2>1, <2>2 DEF TableSound, KeptOrNew
<1>3. CASE t.model # <<>>
  <2>1. C = Instructions!UnBindRows(B, DOMAIN t.bound \ wanted)
    BY <1>3 DEF Instructions!SetupVisibleRows
  <2>2. wanted \subseteq 1 .. n
    BY <1>1, ToBindIs
  <2> HIDE DEF wanted
  <2>3. bare \in SUBSET ((1 .. Len(t.model)) \ DOMAIN t.bound)
    BY <1>1, <2>2
  <2> HIDE DEF bare
  <2>4. /\ TableSound(B) /\ B.model = t.model
        /\ DOMAIN B.bound = DOMAIN t.bound \cup bare
        /\ \A r \in bare : B.cells[r] = Instructions!Controls(t.model[r], enable)
        /\ \A r \in (1 .. Len(t.model)) \ bare : B.cells[r] = t.cells[r]
    <3>1. TableSound(t) /\ enable \in BOOLEAN
      OBVIOUS
    <3>2. TableSound(B)
      BY <2>3, <3>1, BindRowsKeeps, Zenon
    <3>3. B.model = t.model
      BY <2>3, <3>1, BindRowsKeeps, ZenonT(60)
    <3>4. DOMAIN B.bound = DOMAIN t.bound \cup bare
      BY <2>3, <3>1, BindRowsKeeps, Zenon
    <3>5. \A r \in 1 .. n :
              B.cells[r] = IF r \in bare THEN Instructions!Controls(t.model[r], enable)
                           ELSE t.cells[r]
      <4>1. DOMAIN t.cells = 1 .. n
        BY <1>1, SoundTable
      <4> QED
        BY <4>1 DEF Instructions!BindRows
    <3> HIDE DEF B
    <3> QED
      BY <1>1, <2>2, <3>2, <3>3, <3>4, <3>5 DEF bare
  <2> HIDE DEF B, C
  <2>5. DOMAIN t.bound \ wanted \in SUBSET DOMAIN B.bound
    BY <2>4 DEF bare
  <2>6. /\ TableSound(C) /\ C.model = B.model
        /\ DOMAIN C.bound = DOMAIN B.bound \ (DOMAIN t.bound \ wanted)
        /\ \A r \in 1 .. n : C.cells[r] = IF r \in DOMAIN t.bound \ wanted THEN Instructions!None
                                          ELSE B.cells[r]
    BY <1>1, <2>1, <2>4, <2>5, UnBindRowsKeeps
  <2>7. DOMAIN C.bound = wanted
    BY <2>4, <2>6 DEF bare
  <2>8. \A r \in wanted : C.cells[r] = IF r \in DOMAIN t.bound THEN t.cells[r]
                                       ELSE Instructions!Controls(t.model[r], enable)
    BY <1>1, <2>2, <2>4, <2>6 DEF bare
  <2> QED
    BY <2>4, <2>6, <2>7, <2>8 DEF wanted, C, KeptOrNew
<1> QED
  BY <1>2, <1>3

\* What SetEnabled has set stays set for the rows that have controls.
Locked(t, enable, open) ==
    \A r \in DOMAIN t.bound : (t.cells[r].enabled <=> enable) /\ (open => t.cells[r].send)

\* Controls that are set up are locked as the others are.
LEMMA SetupLocks ==
    ASSUME NEW t, TableSound(t), NEW first \in Nat, NEW high \in Nat,
           NEW enable, enable \in BOOLEAN, NEW open, open \in BOOLEAN, Locked(t, enable, open)
    PROVE  Locked(Instructions!SetupVisibleRows(t, first, high, enable), enable, open)
<1> DEFINE C == Instructions!SetupVisibleRows(t, first, high, enable)
<1>1. TableSound(C)
  BY SetupKeeps, Zenon
<1>3. C.model = t.model
  BY SetupKeeps, Zenon
<1>4. KeptOrNew(t, C, enable)
  BY SetupKeeps, Zenon
<1> HIDE DEF C
<1>2. ASSUME NEW r \in DOMAIN C.bound
      PROVE  (C.cells[r].enabled <=> enable) /\ (open => C.cells[r].send)
  <2>1. CASE r \in DOMAIN t.bound
    <3>1. C.cells[r] = t.cells[r]
      BY <1>2, <1>4, <2>1 DEF KeptOrNew
    <3>2. (t.cells[r].enabled <=> enable) /\ (open => t.cells[r].send)
      BY <2>1, Zenon DEF Locked
    <3> QED
      BY <3>1, <3>2, Zenon
  <2>2. CASE r \notin DOMAIN t.bound
    <3>1. C.cells[r] = Instructions!Controls(t.model[r], enable)
      BY <1>2, <1>4, <2>2 DEF KeptOrNew
    <3>2. t.model[r] \in Rows
      <4>1. r \in 1 .. Len(t.model)
        BY <1>1, <1>2, <1>3 DEF TableSound
      <4> QED
        BY <4>1, SoundTable
    <3>3. /\ Instructions!Controls(t.model[r], enable).send
          /\ Instructions!Controls(t.model[r], enable).enabled <=> enable
      BY <3>2, ControlsTyped, Zenon
    <3> QED
      BY <3>1, <3>3, Zenon
  <2> QED
    BY <2>1, <2>2
<1>5. Locked(C, enable, open)
  BY <1>2, Zenon DEF Locked
<1> QED
  BY <1>5 DEF C

\* The rows a deletion leaves are the others, each with the controls it had.
LEMMA WithoutKeeps ==
    ASSUME NEW t, TableSound(t), NEW g \in 1 .. Len(t.model)
    PROVE  LET C == Instructions!Without(t, g)
               Old(r) == IF r < g THEN r ELSE r + 1
           IN  /\ TableSound(C) /\ Len(C.model) = Len(t.model) - 1
               /\ \A r \in 1 .. (Len(t.model) - 1) :
                      /\ C.cells[r] = t.cells[Old(r)]
                      /\ r \in DOMAIN C.bound <=> Old(r) \in DOMAIN t.bound
<1> DEFINE C == Instructions!Without(t, g)
           Old(r) == IF r < g THEN r ELSE r + 1
           free == IF g \in DOMAIN t.bound THEN Instructions!UnBindRows(t, {g}) ELSE t
<1>1. PICK n \in Nat : n = Len(t.model)
  BY SoundTable
<1>2. /\ TableSound(free) /\ free.model = t.model /\ DOMAIN free.bound = DOMAIN t.bound \ {g}
      /\ \A r \in 1 .. n : r # g => free.cells[r] = t.cells[r]
  <2>1. CASE g \in DOMAIN t.bound
    <3>1. {g} \in SUBSET DOMAIN t.bound /\ free = Instructions!UnBindRows(t, {g})
      BY <2>1
    <3> HIDE DEF free
    <3>2. /\ TableSound(free) /\ free.model = t.model /\ DOMAIN free.bound = DOMAIN t.bound \ {g}
          /\ \A r \in 1 .. n :
                 free.cells[r] = IF r \in {g} THEN Instructions!None ELSE t.cells[r]
      BY <1>1, <3>1, UnBindRowsKeeps
    <3> QED
      BY <3>2
  <2>2. CASE g \notin DOMAIN t.bound
    BY <2>2
  <2> QED
    BY <2>1, <2>2
<1>3. /\ C.model = Instructions!RemoveAt(free.model, g)
      /\ C.cells = Instructions!RemoveAt(free.cells, g)
      /\ C.bound = Instructions!UpdateRowIndicesAfterDeletion(free.bound, g)
  BY DEF Instructions!Without
<1> HIDE DEF C, free
<1>4. /\ free.model \in Seq(Rows) /\ free.cells \in Seq(CellTypes)
      /\ Len(free.model) = n /\ Len(free.cells) = n /\ g \in 1 .. n
  BY <1>1, <1>2 DEF TableSound
<1>5. /\ C.model \in Seq(Rows) /\ Len(C.model) = n - 1
      /\ \A r \in 1 .. (n - 1) : C.model[r] = t.model[Old(r)]
  <2>1. g \in 1 .. Len(free.model)
    BY <1>4
  <2>2. /\ C.model \in Seq(Rows) /\ Len(C.model) = Len(free.model) - 1
        /\ \A r \in 1 .. (Len(free.model) - 1) : C.model[r] = free.model[Old(r)]
    BY <1>3, <1>4, <2>1, OneRemoved
  <2> HIDE DEF Old
  <2> QED
    BY <1>2, <1>4, <2>2
<1>6. /\ C.cells \in Seq(CellTypes) /\ Len(C.cells) = n - 1
      /\ \A r \in 1 .. (n - 1) : C.cells[r] = t.cells[Old(r)]
  <2>3. g \in 1 .. Len(free.cells)
    BY <1>4
  <2>4. /\ C.cells \in Seq(CellTypes) /\ Len(C.cells) = Len(free.cells) - 1
        /\ \A r \in 1 .. (Len(free.cells) - 1) : C.cells[r] = free.cells[Old(r)]
    BY <1>3, <1>4, <2>3, OneRemoved
  <2>1. /\ C.cells \in Seq(CellTypes) /\ Len(C.cells) = n - 1
        /\ \A r \in 1 .. (n - 1) : C.cells[r] = free.cells[Old(r)]
    BY <1>4, <2>4
  <2>2. \A r \in 1 .. (n - 1) : Old(r) \in 1 .. n /\ Old(r) # g
    BY <1>4
  <2> QED
    BY <1>2, <2>1, <2>2
<1>7. DOMAIN free.bound \subseteq 1 .. n /\ g \notin DOMAIN free.bound
      /\ \A r \in DOMAIN free.bound : free.bound[r] = r
  BY <1>1, <1>2 DEF TableSound, BoundWhereTheyStand
<1>8. /\ DOMAIN C.bound = {Instructions!Moved(k, g) : k \in DOMAIN free.bound}
      /\ \A r \in DOMAIN C.bound : C.bound[r] = Instructions!Moved(free.bound[Old(r)], g)
  BY <1>3, <1>7 DEF Instructions!UpdateRowIndicesAfterDeletion
<1>9. \A r \in DOMAIN C.bound : r \in 1 .. (n - 1) /\ Old(r) \in DOMAIN free.bound /\ C.bound[r] = r
  <2> SUFFICES ASSUME NEW r \in DOMAIN C.bound
               PROVE  r \in 1 .. (n - 1) /\ Old(r) \in DOMAIN free.bound /\ C.bound[r] = r
    OBVIOUS
  <2>1. PICK k \in DOMAIN free.bound : r = IF k > g THEN k - 1 ELSE k
    BY <1>8 DEF Instructions!Moved
  <2>2. k \in 1 .. n /\ k # g /\ g \in 1 .. n
    BY <1>4, <1>7
  <2>3. Old(r) = k /\ r \in 1 .. (n - 1)
    BY <2>1, <2>2
  <2>4. C.bound[r] = Instructions!Moved(k, g)
    BY <1>7, <1>8, <2>3
  <2> QED
    BY <2>1, <2>3, <2>4 DEF Instructions!Moved
<1>10. \A r \in 1 .. (n - 1) : r \in DOMAIN C.bound <=> Old(r) \in DOMAIN t.bound
  <2> SUFFICES ASSUME NEW r \in 1 .. (n - 1), Old(r) \in DOMAIN t.bound PROVE r \in DOMAIN C.bound
    BY <1>2, <1>9
  <2>1. Old(r) # g /\ Old(r) \in DOMAIN free.bound
    BY <1>2, <1>4
  <2>2. Instructions!Moved(Old(r), g) = r
    BY <1>4 DEF Instructions!Moved
  <2> HIDE DEF Old
  <2> QED
    BY <1>8, <2>1, <2>2
<1>11. \A r \in 1 .. (n - 1) : Old(r) \in 1 .. n
  BY <1>4
<1> HIDE DEF Old
<1>12. TableSound(C)
  <2>1. \A r \in 1 .. (n - 1) : C.cells[r].there <=> r \in DOMAIN C.bound
    BY <1>1, <1>6, <1>10, <1>11 DEF TableSound, BoundWhereTheyStand
  <2>2. \A r \in DOMAIN C.bound :
            C.bound[r] = r /\ C.cells[r].shown = C.model[r] /\ C.cells[r].wired
    BY <1>2, <1>5, <1>6, <1>9 DEF TableSound, BoundWhereTheyStand
  <2>3. DOMAIN C.bound \subseteq 1 .. (n - 1)
    BY <1>9
  <2> QED
    BY <1>5, <1>6, <2>1, <2>2, <2>3 DEF TableSound, BoundWhereTheyStand
<1> QED
  BY <1>1, <1>5, <1>6, <1>10, <1>12 DEF C, Old

-----------------------------------------------------------------------------
(* The invariant of the table *)

\* The view lies in the table.
ViewSound ==
    /\ host \in {"SerialWindow", "TcpWindow"}
    /\ opened \in BOOLEAN /\ customEnabled \in BOOLEAN /\ isEnabled \in BOOLEAN
    /\ posted \in BOOLEAN /\ saved \in BOOLEAN /\ edited \in BOOLEAN
    /\ height \in 1 .. MaxHeight
    /\ top \in 0 .. Instructions!MaxTop(Len(model_), height)
    /\ blanks \in 0 .. Prefetch + 1

\* The rows on the screen, and those of the ones behind them that a deletion has not
\* used up, are among the bound.
BoundAhead(bound, n, first, high, ahead) ==
    \A r \in 1 .. n :
        Instructions!FirstOnScreen(first) <= r /\ r <= first + high - 1 + ahead => r \in bound

ScreenIsBound ==
    ~posted /\ blanks <= Prefetch =>
        BoundAhead(DOMAIN widget_rows_, Len(model_), top, height, Prefetch - blanks)

\* The window locks the rows while its connection is open.
LockSound ==
    IF host = "SerialWindow"
    THEN isEnabled /\ (customEnabled <=> ~opened)
         /\ Locked(Instructions!Now, customEnabled, opened)
    ELSE isEnabled <=> ~opened

\* What is stored are rows, those of the table if it counts as saved.
FileSound ==
    /\ \E s \in Seq(Rows) : Len(s) <= MaxRows /\ stored = Instructions!GetTableRecord(s)
    /\ saved /\ ~edited => model_ = Instructions!RowsOf(stored)

RowInvariant ==
    /\ TableSound(Instructions!Now) /\ Len(model_) <= MaxRows
    /\ ViewSound /\ ScreenIsBound /\ LockSound /\ FileSound

\* The table as it is read from its variables.
LEMMA NowIs ==
    /\ Instructions!Now.model = model_ /\ Instructions!Now.cells = cells
    /\ Instructions!Now.bound = widget_rows_
  BY DEF Instructions!Now

\* The table becomes what a step makes of it.
LEMMA BecomesSound ==
    ASSUME NEW C, TableSound(C), Instructions!Becomes(C)
    PROVE  TableSound(Instructions!Now)' /\ model_' = C.model
<1>1. model_' = C.model /\ cells' = C.cells /\ widget_rows_' = C.bound
  BY DEF Instructions!Becomes
<1>2. TableSound([model |-> C.model, cells |-> C.cells, bound |-> C.bound])
  BY DEF TableSound, BoundWhereTheyStand
<1>3. (Instructions!Now)' = [model |-> C.model, cells |-> C.cells, bound |-> C.bound]
  BY <1>1 DEF Instructions!Now
<1> QED
  BY <1>1, <1>2, <1>3

\* Controls are set up for the view as it is then.
LEMMA SetupBecomes ==
    ASSUME NEW t, TableSound(t), NEW first \in Nat, NEW high \in Nat,
           NEW enable, enable \in BOOLEAN,
           Instructions!Becomes(Instructions!SetupVisibleRows(t, first, high, enable))
    PROVE  /\ TableSound(Instructions!Now)' /\ model_' = t.model
           /\ BoundAhead(DOMAIN widget_rows_', Len(t.model), first, high, Prefetch)
<1> DEFINE C == Instructions!SetupVisibleRows(t, first, high, enable)
<1>1. TableSound(C)
  BY SetupKeeps, Zenon
<1>2. C.model = t.model
  BY SetupKeeps, Zenon
<1>3. \A r \in 1 .. Len(t.model) :
          r \in DOMAIN C.bound <=> r \in Instructions!ToBind(t, first, high)
  BY SetupKeeps, Zenon
<1>4. widget_rows_' = C.bound
  BY DEF Instructions!Becomes
<1> HIDE DEF C
<1>5. BoundAhead(DOMAIN widget_rows_', Len(t.model), first, high, Prefetch)
  <2>1. Len(t.model) \in Nat
    BY SoundTable
  <2> QED
    BY <1>3, <1>4, <2>1, ToBindIs DEF BoundAhead
<1>6. Instructions!Becomes(C)
  BY DEF C
<1> QED
  BY <1>1, <1>2, <1>5, <1>6, BecomesSound

\* How far a view can be scrolled down.
LEMMA MaxTopIs ==
    ASSUME NEW n \in Nat, NEW high \in Nat
    PROVE  Instructions!MaxTop(n, high) = IF 0 >= n + 1 - high THEN 0 ELSE n + 1 - high
  BY LargerOfTwo DEF Instructions!MaxTop

\* What is locked in the table that a step makes is locked after it.
LEMMA BecomesLocked ==
    ASSUME NEW C, Instructions!Becomes(C), Locked(C, customEnabled', opened')
    PROVE  Locked(Instructions!Now, customEnabled, opened)'
<1>1. cells' = C.cells /\ widget_rows_' = C.bound
  BY DEF Instructions!Becomes
<1>2. \A r \in DOMAIN widget_rows_' :
          (cells'[r].enabled <=> customEnabled') /\ (opened' => cells'[r].send)
  BY <1>1, Zenon DEF Locked
<1>3. Instructions!Now'.bound = widget_rows_' /\ Instructions!Now'.cells = cells'
  BY DEF Instructions!Now
<1> QED
  BY <1>2, <1>3, Zenon DEF Locked

\* A step that leaves the lock alone and moves rows with their controls.
LEMMA LockStays ==
    ASSUME NEW C, Instructions!Becomes(C), LockSound,
           UNCHANGED <<host, opened, customEnabled, isEnabled>>,
           host = "SerialWindow" => Locked(C, customEnabled, opened)
    PROVE  LockSound'
<1>1. CASE host = "SerialWindow"
  <2>1. Locked(C, customEnabled', opened')
    <3>1. customEnabled' = customEnabled /\ opened' = opened
      OBVIOUS
    <3> QED
      BY <1>1, <3>1
  <2>2. Locked(Instructions!Now, customEnabled, opened)'
    BY <2>1, BecomesLocked
  <2> QED
    BY <1>1, <2>2 DEF LockSound
<1>2. CASE host # "SerialWindow"
  BY <1>2 DEF LockSound
<1> QED
  BY <1>1, <1>2

\* What every step that sets up controls, and leaves the lock alone, keeps.
LEMMA ArrangedKeeps ==
    ASSUME NEW t, TableSound(t), NEW first \in Nat, NEW high \in Nat,
           ViewSound, LockSound, UNCHANGED <<host, opened, customEnabled, isEnabled>>,
           host = "SerialWindow" => Locked(t, customEnabled, opened),
           Instructions!Arranged(t, first, high)
    PROVE  /\ TableSound(Instructions!Now)' /\ model_' = t.model /\ blanks' = 0
           /\ BoundAhead(DOMAIN widget_rows_', Len(t.model), first, high, Prefetch)
           /\ LockSound'
<1> DEFINE C == Instructions!SetupVisibleRows(t, first, high, customEnabled)
<1>1. Instructions!Becomes(C) /\ blanks' = 0
  BY DEF Instructions!Arranged
<1>2. customEnabled \in BOOLEAN /\ opened \in BOOLEAN
  BY DEF ViewSound
<1>3. TableSound(Instructions!Now)' /\ model_' = t.model
      /\ BoundAhead(DOMAIN widget_rows_', Len(t.model), first, high, Prefetch)
  BY <1>1, <1>2, SetupBecomes, Zenon
<1>4. host = "SerialWindow" => Locked(C, customEnabled, opened)
  BY <1>2, SetupLocks, Zenon
<1> HIDE DEF C
<1>5. LockSound'
  BY <1>1, <1>4, LockStays
<1> QED
  BY <1>1, <1>3, <1>5

\* The view lies in the table still.
LEMMA ViewStays ==
    ASSUME ViewSound, UNCHANGED <<host, height>>, NEW n \in Nat, Len(model_') = n,
           top' \in 0 .. Instructions!MaxTop(n, height), blanks' \in 0 .. Prefetch + 1,
           opened' \in BOOLEAN, customEnabled' \in BOOLEAN, isEnabled' \in BOOLEAN,
           posted' \in BOOLEAN, saved' \in BOOLEAN, edited' \in BOOLEAN
    PROVE  ViewSound'
  BY DEF ViewSound, Instructions!MaxTop

\* A record gives the rows back it was made of.
LEMMA RecordGivesRowsBack ==
    ASSUME NEW s \in Seq(Rows)
    PROVE  Instructions!RowsOf(Instructions!GetTableRecord(s)) = s
<1>1. Len(s) \in Nat /\ DOMAIN s = 1 .. Len(s) /\ s = [i \in 1 .. Len(s) |-> s[i]]
  BY LenProperties
<1> QED
  BY <1>1 DEF Instructions!RowsOf, Instructions!GetTableRecord

\* A row is added.
LEMMA AddKeepsRows ==
    ASSUME RowInvariant, Instructions!OnAddRowButtonClicked
    PROVE  RowInvariant' /\ Len(model_') = Len(model_) + 1
<1> DEFINE t == [Instructions!Now EXCEPT !.model = Append(@, NewRow),
                                         !.cells = Append(@, Instructions!None)]
<1>1. /\ t.model = Append(model_, NewRow) /\ t.cells = Append(cells, Instructions!None)
      /\ t.bound = widget_rows_
  BY DEF Instructions!Now
<1>2. /\ Instructions!Arranged(t, top, height) /\ Len(model_) < MaxRows
      /\ UNCHANGED <<host, opened, customEnabled, isEnabled, top, height, posted, stored, edited>>
      /\ saved' = FALSE
  BY DEF Instructions!OnAddRowButtonClicked, Instructions!view, Instructions!lock
<1> HIDE DEF t
<1>3. PICK n \in Nat : n = Len(model_)
  BY SoundTable, NowIs DEF RowInvariant
<1>4. /\ model_ \in Seq(Rows) /\ cells \in Seq(CellTypes) /\ Len(cells) = n
      /\ DOMAIN widget_rows_ \subseteq 1 .. n
      /\ \A r \in 1 .. n : cells[r].there <=> r \in DOMAIN widget_rows_
      /\ \A r \in DOMAIN widget_rows_ :
             widget_rows_[r] = r /\ cells[r].shown = model_[r] /\ cells[r].wired
  BY <1>3, NowIs DEF RowInvariant, TableSound, BoundWhereTheyStand
<1>5. NewRow \in Rows /\ Instructions!None \in CellTypes /\ ~Instructions!None.there
  BY RowsAssumption, NoControlsTyped
<1>6. /\ t.model \in Seq(Rows) /\ Len(t.model) = n + 1
      /\ \A r \in 1 .. n : t.model[r] = model_[r]
  BY <1>1, <1>3, <1>4, <1>5, AppendProperties
<1>7. /\ t.cells \in Seq(CellTypes) /\ Len(t.cells) = n + 1
      /\ \A r \in 1 .. n : t.cells[r] = cells[r]
      /\ t.cells[n + 1] = Instructions!None
  BY <1>1, <1>4, <1>5, AppendProperties
<1>8. TableSound(t)
  <2>1. \A r \in 1 .. (n + 1) : t.cells[r].there <=> r \in DOMAIN t.bound
    <3> SUFFICES ASSUME NEW r \in 1 .. (n + 1)
                 PROVE  t.cells[r].there <=> r \in DOMAIN widget_rows_
      BY <1>1
    <3>1. CASE r \in 1 .. n
      BY <1>4, <1>7, <3>1
    <3>2. CASE r \notin 1 .. n
      <4>1. r = n + 1 /\ r \notin DOMAIN widget_rows_
        BY <1>4, <3>2
      <4> QED
        BY <1>5, <1>7, <4>1
    <3> QED
      BY <3>1, <3>2
  <2>2. \A r \in DOMAIN t.bound :
            t.bound[r] = r /\ t.cells[r].shown = t.model[r] /\ t.cells[r].wired
    BY <1>1, <1>4, <1>6, <1>7
  <2>3. DOMAIN t.bound \subseteq 1 .. (n + 1)
    BY <1>1, <1>4
  <2> QED
    BY <1>6, <1>7, <2>1, <2>2, <2>3 DEF TableSound, BoundWhereTheyStand
<1>9. host = "SerialWindow" => Locked(t, customEnabled, opened)
  <2> SUFFICES ASSUME host = "SerialWindow" PROVE Locked(t, customEnabled, opened)
    OBVIOUS
  <2>1. Locked(Instructions!Now, customEnabled, opened)
    BY DEF RowInvariant, LockSound
  <2>2. DOMAIN t.bound = DOMAIN Instructions!Now.bound
        /\ \A r \in DOMAIN t.bound : t.cells[r] = Instructions!Now.cells[r]
    BY <1>1, <1>4, <1>7, NowIs
  <2> QED
    BY <2>1, <2>2, Zenon DEF Locked
<1>10. top \in Nat /\ height \in Nat /\ height >= 1 /\ top <= Instructions!MaxTop(n, height)
  BY <1>3, MaxTopIs DEF RowInvariant, ViewSound
<1>11. /\ TableSound(Instructions!Now)' /\ model_' = t.model /\ blanks' = 0
       /\ BoundAhead(DOMAIN widget_rows_', Len(t.model), top, height, Prefetch)
       /\ LockSound'
  BY <1>2, <1>8, <1>9, <1>10, ArrangedKeeps DEF RowInvariant
<1>12. Len(model_') <= MaxRows
  BY <1>2, <1>3, <1>6, <1>11, TableAssumption
<1>13. ViewSound'
  <2>1. top \in 0 .. Instructions!MaxTop(n + 1, height)
    BY <1>10, MaxTopIs
  <2>2. blanks' \in 0 .. Prefetch + 1 /\ n + 1 \in Nat /\ Len(model_') = n + 1
    BY <1>6, <1>11, TableAssumption
  <2>3. ViewSound /\ posted' \in BOOLEAN
    BY <1>2 DEF RowInvariant, ViewSound, Instructions!OnAddRowButtonClicked
  <2> QED
    BY <1>2, <2>1, <2>2, <2>3, ViewStays DEF ViewSound
<1>14. ScreenIsBound'
  <2>1. Prefetch - 0 = Prefetch
    BY TableAssumption
  <2> QED
    BY <1>2, <1>11, <2>1 DEF ScreenIsBound, BoundAhead, Instructions!FirstOnScreen
<1>15. FileSound'
  BY <1>2 DEF RowInvariant, FileSound, Instructions!GetTableRecord, Instructions!RowsOf
<1> QED
  BY <1>3, <1>6, <1>11, <1>12, <1>13, <1>14, <1>15 DEF RowInvariant

\* A row that is deleted while the view can stay: the rows behind it move up with
\* their controls, and one less is bound ahead.
LEMMA DeleteKeepsRows ==
    ASSUME RowInvariant, NEW g \in DOMAIN model_, Instructions!Delete(g)
    PROVE  RowInvariant' /\ Len(model_') = Len(model_) - 1
<1> DEFINE C == Instructions!Without(Instructions!Now, g)
           Old(r) == IF r < g THEN r ELSE r + 1
<1>1. /\ UNCHANGED <<host, opened, customEnabled, isEnabled, height, posted, stored, edited>>
      /\ saved' = FALSE
  BY DEF Instructions!Delete, Instructions!lock
<1>2. TableSound(Instructions!Now) /\ ViewSound /\ LockSound /\ ScreenIsBound /\ FileSound
  BY DEF RowInvariant
<1>3. PICK n \in Nat : n = Len(model_)
  BY <1>2, SoundTable, NowIs
<1>4. g \in 1 .. n /\ n <= MaxRows /\ MaxRows \in Nat /\ Prefetch \in Nat
  BY <1>2, <1>3, SoundTable, NowIs, TableAssumption DEF RowInvariant
<1>5. /\ TableSound(C) /\ Len(C.model) = n - 1
      /\ \A r \in 1 .. (n - 1) :
             C.cells[r] = cells[Old(r)] /\ (r \in DOMAIN C.bound <=> Old(r) \in DOMAIN widget_rows_)
  <2>1. g \in 1 .. Len(Instructions!Now.model) /\ Len(Instructions!Now.model) = n
    BY <1>3, <1>4, NowIs
  <2>2. /\ TableSound(C) /\ Len(C.model) = n - 1
        /\ \A r \in 1 .. (n - 1) :
               /\ C.cells[r] = Instructions!Now.cells[Old(r)]
               /\ r \in DOMAIN C.bound <=> Old(r) \in DOMAIN Instructions!Now.bound
    BY <1>2, <2>1, WithoutKeeps
  <2> HIDE DEF C, Old
  <2> QED
    BY <2>2, NowIs
<1> HIDE DEF C
<1>6. \A r \in DOMAIN C.bound : r \in 1 .. (n - 1)
  BY <1>5 DEF TableSound
<1>7. host = "SerialWindow" => Locked(C, customEnabled, opened)
  <2> SUFFICES ASSUME host = "SerialWindow" PROVE Locked(C, customEnabled, opened)
    OBVIOUS
  <2>1. Locked(Instructions!Now, customEnabled, opened)
    BY <1>2 DEF LockSound
  <2>2. ASSUME NEW r \in DOMAIN C.bound
        PROVE  (C.cells[r].enabled <=> customEnabled) /\ (opened => C.cells[r].send)
    <3>1. C.cells[r] = Instructions!Now.cells[Old(r)] /\ Old(r) \in DOMAIN Instructions!Now.bound
      BY <1>5, <1>6, NowIs
    <3> HIDE DEF Old
    <3> QED
      BY <2>1, <3>1, Zenon DEF Locked
  <2> QED
    BY <2>2, Zenon DEF Locked
<1>8. /\ height \in Nat /\ height >= 1 /\ top \in Nat
      /\ top <= Instructions!MaxTop(n, height)
      /\ Instructions!MaxTop(n, height) = IF 0 >= n + 1 - height THEN 0 ELSE n + 1 - height
      /\ Instructions!MaxTop(n - 1, height) = IF 0 >= n - height THEN 0 ELSE n - height
      /\ n - 1 \in Nat
  <2>1. /\ height \in Nat /\ height >= 1 /\ n - 1 \in Nat
        /\ top \in 0 .. Instructions!MaxTop(n, height)
    BY <1>2, <1>3, <1>4 DEF ViewSound
  <2> QED
    BY <2>1, <1>4, MaxTopIs
<1>9. FileSound'
  BY <1>1, <1>2 DEF FileSound, Instructions!GetTableRecord, Instructions!RowsOf
<1>10. CASE top > Instructions!MaxTop(Len(model_) - 1, height)
  <2>1. top' = top - 1 /\ Instructions!Arranged(C, top - 1, height) /\ top - 1 \in Nat
    BY <1>3, <1>8, <1>10 DEF Instructions!Delete, C
  <2>2. /\ TableSound(Instructions!Now)' /\ model_' = C.model /\ blanks' = 0
        /\ BoundAhead(DOMAIN widget_rows_', Len(C.model), top - 1, height, Prefetch)
        /\ LockSound'
    BY <1>1, <1>2, <1>5, <1>7, <1>8, <2>1, ArrangedKeeps
  <2>3. ViewSound'
    <3>1. /\ top' \in 0 .. Instructions!MaxTop(n - 1, height) /\ blanks' \in 0 .. Prefetch + 1
          /\ Len(model_') = n - 1
      BY <1>4, <1>5, <1>8, <2>1, <2>2
    <3>2. posted' \in BOOLEAN /\ edited' \in BOOLEAN
      BY <1>1, <1>2 DEF ViewSound
    <3> QED
      BY <1>1, <1>2, <1>8, <3>1, <3>2, ViewStays DEF ViewSound
  <2>4. ScreenIsBound'
    <3>1. Prefetch - 0 = Prefetch
      BY <1>4
    <3> QED
      BY <1>1, <2>1, <2>2, <3>1 DEF ScreenIsBound, BoundAhead, Instructions!FirstOnScreen
  <2> QED
    BY <1>3, <1>4, <1>5, <1>9, <2>2, <2>3, <2>4 DEF RowInvariant
<1>11. CASE ~(top > Instructions!MaxTop(Len(model_) - 1, height))
  <2>1. /\ Instructions!Becomes(C) /\ top' = top
        /\ blanks' = Instructions!Min({blanks, Prefetch}) + 1
    BY <1>11 DEF Instructions!Delete, C
  <2>2. TableSound(Instructions!Now)' /\ model_' = C.model /\ LockSound'
    BY <1>1, <1>2, <1>5, <1>7, <2>1, BecomesSound, LockStays
  <2>3. /\ blanks \in Nat /\ blanks <= Prefetch + 1
        /\ blanks' = (IF blanks <= Prefetch THEN blanks ELSE Prefetch) + 1
    BY <1>2, <1>4, <2>1, SmallerOfTwo DEF ViewSound
  <2>4. ViewSound'
    <3>1. /\ top' \in 0 .. Instructions!MaxTop(n - 1, height) /\ blanks' \in 0 .. Prefetch + 1
          /\ Len(model_') = n - 1
      BY <1>3, <1>4, <1>5, <1>8, <1>11, <2>1, <2>2, <2>3
    <3>2. posted' \in BOOLEAN /\ edited' \in BOOLEAN
      BY <1>1, <1>2 DEF ViewSound
    <3> QED
      BY <1>1, <1>2, <1>8, <3>1, <3>2, ViewStays DEF ViewSound
  <2>5. ScreenIsBound'
    <3>1. /\ widget_rows_' = C.bound /\ Len(model_') = n - 1 /\ posted' = posted
          /\ top' = top /\ height' = height
      BY <1>1, <1>5, <2>1, <2>2 DEF Instructions!Becomes
    <3>2. ASSUME ~posted, blanks' <= Prefetch
          PROVE  BoundAhead(DOMAIN C.bound, n - 1, top, height, Prefetch - blanks')
      <4>1. blanks <= Prefetch /\ blanks' = blanks + 1
        BY <1>4, <2>3, <3>2
      <4>2. BoundAhead(DOMAIN widget_rows_, n, top, height, Prefetch - blanks)
        BY <1>2, <1>3, <3>2, <4>1 DEF ScreenIsBound
      <4> SUFFICES ASSUME NEW r \in 1 .. (n - 1), Instructions!FirstOnScreen(top) <= r,
                          r <= top + height - 1 + (Prefetch - blanks')
                   PROVE  r \in DOMAIN C.bound
        BY DEF BoundAhead
      <4>3. /\ Old(r) \in 1 .. n /\ r <= Old(r) /\ Old(r) <= r + 1
        BY <1>4
      <4>4. Instructions!FirstOnScreen(top) \in Nat
        BY <1>8 DEF Instructions!FirstOnScreen
      <4>5. /\ Instructions!FirstOnScreen(top) <= Old(r)
            /\ Old(r) <= top + height - 1 + (Prefetch - blanks)
        <5> HIDE DEF Old
        <5> QED
          BY <1>4, <1>8, <2>3, <4>1, <4>3, <4>4
      <4> HIDE DEF Old
      <4>6. Old(r) \in DOMAIN widget_rows_
        BY <4>2, <4>3, <4>5 DEF BoundAhead
      <4> QED
        BY <1>5, <4>6
    <3> QED
      BY <3>1, <3>2 DEF ScreenIsBound, BoundAhead, Instructions!FirstOnScreen
  <2> QED
    BY <1>3, <1>4, <1>5, <1>9, <2>2, <2>4, <2>5 DEF RowInvariant
<1> QED
  BY <1>10, <1>11

\* Only a row that has controls can be edited, and they are connected.
LEMMA EditKeepsRows ==
    ASSUME RowInvariant, NEW g \in DOMAIN model_, Instructions!Edit(g)
    PROVE  /\ RowInvariant' /\ Len(model_') = Len(model_)
           /\ \A r \in DOMAIN model_ \ {g} : model_'[r] = model_[r]
<1>1. PICK row \in Rows : /\ cells' = [cells EXCEPT ![g].shown = row]
                          /\ model_' = IF cells[g].wired THEN [model_ EXCEPT ![g] = row] ELSE model_
  BY DEF Instructions!Edit
<1>2. /\ UNCHANGED <<host, widget_rows_, opened, customEnabled, isEnabled, top, height, posted,
                     blanks, saved, stored>>
      /\ edited' = TRUE /\ cells[g].there
  BY DEF Instructions!Edit, Instructions!view, Instructions!lock, Instructions!Usable
<1>3. TableSound(Instructions!Now) /\ ViewSound /\ LockSound /\ ScreenIsBound /\ FileSound
  BY DEF RowInvariant
<1>4. PICK n \in Nat : n = Len(model_)
  BY <1>3, SoundTable, NowIs
<1>5. /\ model_ \in Seq(Rows) /\ cells \in Seq(CellTypes) /\ Len(cells) = n
      /\ model_ \in [1 .. n -> Rows] /\ cells \in [1 .. n -> CellTypes]
      /\ DOMAIN widget_rows_ \subseteq 1 .. n
      /\ \A r \in 1 .. n : cells[r].there <=> r \in DOMAIN widget_rows_
      /\ \A r \in DOMAIN widget_rows_ :
             widget_rows_[r] = r /\ cells[r].shown = model_[r] /\ cells[r].wired
  <2>1. model_ \in [1 .. n -> Rows] /\ cells \in [1 .. n -> CellTypes]
    BY <1>3, <1>4, SoundTable, NowIs
  <2> QED
    BY <1>3, <1>4, <2>1, NowIs DEF TableSound, BoundWhereTheyStand
<1>6. g \in 1 .. n /\ g \in DOMAIN widget_rows_ /\ cells[g].wired
  BY <1>2, <1>5
<1>7. model_' = [model_ EXCEPT ![g] = row] /\ model_' \in [1 .. n -> Rows]
  BY <1>1, <1>5, <1>6
<1>8. PICK c \in CellTypes : c = cells[g]
  BY <1>5, <1>6
<1>9. /\ cells' \in [1 .. n -> CellTypes]
      /\ \A r \in 1 .. n : r # g => cells'[r] = cells[r]
      /\ cells'[g].shown = row /\ cells'[g].there = cells[g].there
      /\ cells'[g].wired = cells[g].wired /\ cells'[g].enabled = cells[g].enabled
      /\ cells'[g].send = cells[g].send
  <2> DEFINE d == [c EXCEPT !.shown = row]
  <2>1. /\ d \in CellTypes /\ d.shown = row /\ d.there = c.there /\ d.wired = c.wired
        /\ d.enabled = c.enabled /\ d.send = c.send
    BY DEF CellTypes
  <2>2. cells' = [cells EXCEPT ![g] = d]
    BY <1>1, <1>8
  <2> HIDE DEF d
  <2>3. /\ cells' \in [1 .. n -> CellTypes] /\ cells'[g] = d
        /\ \A r \in 1 .. n : r # g => cells'[r] = cells[r]
    BY <1>5, <1>6, <2>1, <2>2
  <2> QED
    BY <1>8, <2>1, <2>3
<1>10. /\ model_' \in Seq(Rows) /\ Len(model_') = n
       /\ cells' \in Seq(CellTypes) /\ Len(cells') = n
  BY <1>7, <1>9, FunctionIsSequence
<1>11. TableSound(Instructions!Now)'
  <2>1. \A r \in 1 .. n : cells'[r].there <=> r \in DOMAIN widget_rows_'
    BY <1>2, <1>5, <1>9
  <2>2. \A r \in DOMAIN widget_rows_' :
            widget_rows_'[r] = r /\ cells'[r].shown = model_'[r] /\ cells'[r].wired
    BY <1>2, <1>5, <1>6, <1>7, <1>9
  <2> QED
    BY <1>2, <1>5, <1>10, <2>1, <2>2 DEF TableSound, BoundWhereTheyStand, Instructions!Now
<1>12. LockSound'
  <2>1. CASE host = "SerialWindow"
    <3>1. Locked(Instructions!Now, customEnabled, opened)
      BY <1>3, <2>1 DEF LockSound
    <3>2. ASSUME NEW r \in DOMAIN widget_rows_
          PROVE  (cells'[r].enabled <=> customEnabled) /\ (opened => cells'[r].send)
      <4>1. cells'[r].enabled = Instructions!Now.cells[r].enabled
            /\ cells'[r].send = Instructions!Now.cells[r].send
            /\ r \in DOMAIN Instructions!Now.bound
        BY <1>5, <1>9, NowIs
      <4> QED
        BY <3>1, <4>1, Zenon DEF Locked
    <3>3. Locked(Instructions!Now, customEnabled, opened)'
      <4>1. Instructions!Now'.bound = widget_rows_ /\ Instructions!Now'.cells = cells'
        BY <1>2 DEF Instructions!Now
      <4>2. Locked(Instructions!Now', customEnabled, opened)
        BY <3>2, <4>1, Zenon DEF Locked
      <4>3. customEnabled' = customEnabled /\ opened' = opened
        BY <1>2
      <4> QED
        BY <4>2, <4>3
    <3> QED
      BY <1>2, <1>3, <2>1, <3>3 DEF LockSound
  <2>2. CASE host # "SerialWindow"
    BY <1>2, <1>3, <2>2 DEF LockSound
  <2> QED
    BY <2>1, <2>2
<1>13. ViewSound'
  <2>1. Len(model_') = Len(model_)
    BY <1>4, <1>10
  <2> QED
    BY <1>2, <1>3, <2>1 DEF ViewSound, Instructions!MaxTop
<1>14. ScreenIsBound'
  BY <1>2, <1>3, <1>4, <1>10 DEF ScreenIsBound, BoundAhead, Instructions!FirstOnScreen
<1>15. FileSound'
  BY <1>2, <1>3 DEF FileSound, Instructions!GetTableRecord, Instructions!RowsOf
<1> QED
  BY <1>4, <1>5, <1>7, <1>10, <1>11, <1>12, <1>13, <1>14, <1>15 DEF RowInvariant

\* Steps that set up controls for the rows as they are: a scroll, a resizing, and what
\* it has posted.
LEMMA ViewKeepsRows ==
    ASSUME RowInvariant, Instructions!Scroll \/ Instructions!Resize \/ Instructions!Posted
    PROVE  RowInvariant' /\ model_' = model_
<1>1. UNCHANGED <<host, opened, customEnabled, isEnabled, saved, stored, edited>>
  BY DEF Instructions!Scroll, Instructions!Resize, Instructions!Posted, Instructions!lock,
     Instructions!file, Instructions!view
<1>2. TableSound(Instructions!Now) /\ ViewSound /\ LockSound /\ ScreenIsBound /\ FileSound
      /\ (host = "SerialWindow" => Locked(Instructions!Now, customEnabled, opened))
  BY DEF RowInvariant, LockSound
<1>3. PICK n \in Nat : n = Len(model_)
  BY <1>2, SoundTable, NowIs
<1>4. height \in Nat /\ height >= 1 /\ top \in 0 .. Instructions!MaxTop(n, height) /\ top \in Nat
      /\ Prefetch \in Nat /\ MaxHeight \in Nat
  BY <1>2, <1>3, MaxTopIs, TableAssumption DEF ViewSound
<1>5. ASSUME NEW first \in Nat, NEW high \in 1 .. MaxHeight,
             first \in 0 .. Instructions!MaxTop(n, high),
             Instructions!Arranged(Instructions!Now, first, high),
             top' = first, height' = high, posted' \in BOOLEAN
      PROVE  RowInvariant' /\ model_' = model_
  <2>1. high \in Nat
    BY <1>4
  <2>2. /\ TableSound(Instructions!Now)' /\ model_' = Instructions!Now.model /\ blanks' = 0
        /\ BoundAhead(DOMAIN widget_rows_', Len(Instructions!Now.model), first, high, Prefetch)
        /\ LockSound'
    BY <1>1, <1>2, <1>5, <2>1, ArrangedKeeps
  <2>3. model_' = model_ /\ Len(model_') = n
    BY <1>3, <2>2, NowIs
  <2>4. ViewSound'
    <3>1. blanks' \in 0 .. Prefetch + 1
      BY <1>4, <2>2
    <3> QED
      BY <1>1, <1>2, <1>5, <2>3, <3>1 DEF ViewSound, Instructions!MaxTop
  <2>5. ScreenIsBound'
    <3>1. Prefetch - 0 = Prefetch
      BY <1>4
    <3> QED
      BY <1>5, <2>2, <2>3, <3>1, NowIs DEF ScreenIsBound, BoundAhead, Instructions!FirstOnScreen
  <2>6. FileSound'
    BY <1>1, <1>2, <2>3 DEF FileSound, Instructions!GetTableRecord, Instructions!RowsOf
  <2> QED
    BY <1>3, <2>2, <2>3, <2>4, <2>5, <2>6 DEF RowInvariant
<1>6. CASE Instructions!Scroll
  <2>1. PICK first \in 0 .. Instructions!MaxTop(n, height) :
            top' = first /\ Instructions!Arranged(Instructions!Now, first, height)
    BY <1>3, <1>6 DEF Instructions!Scroll
  <2>2. first \in Nat /\ height \in 1 .. MaxHeight
    BY <1>2, <1>4, MaxTopIs DEF ViewSound
  <2>3. height' = height /\ posted' \in BOOLEAN
    BY <1>2, <1>6 DEF Instructions!Scroll, ViewSound
  <2> QED
    BY <1>5, <2>1, <2>2, <2>3
<1>7. CASE Instructions!Resize
  <2>1. PICK high \in 1 .. MaxHeight :
            /\ height' = high
            /\ IF top > Instructions!MaxTop(n, high)
               THEN /\ top' = Instructions!MaxTop(n, high)
                    /\ Instructions!Arranged(Instructions!Now, top', high)
               ELSE UNCHANGED <<top, Instructions!table, blanks>>
    BY <1>3, <1>7 DEF Instructions!Resize
  <2>2. posted' = TRUE
    BY <1>7 DEF Instructions!Resize
  <2>3. high \in Nat /\ Instructions!MaxTop(n, high) \in Nat
    BY <1>4, MaxTopIs
  <2>4. CASE top > Instructions!MaxTop(n, high)
    <3>1. Instructions!MaxTop(n, high) \in 0 .. Instructions!MaxTop(n, high)
      BY <2>3
    <3> QED
      BY <1>5, <2>1, <2>2, <2>3, <2>4, <3>1
  <2>5. CASE ~(top > Instructions!MaxTop(n, high))
    <3>1. UNCHANGED <<top, model_, cells, widget_rows_, blanks>>
      BY <2>1, <2>5 DEF Instructions!table
    <3>2. ViewSound'
      <4>1. top' \in 0 .. Instructions!MaxTop(n, high)
        BY <1>4, <2>3, <2>5, <3>1
      <4> QED
        BY <1>1, <1>2, <1>3, <2>1, <2>2, <3>1, <4>1 DEF ViewSound, Instructions!MaxTop
    <3>3. ScreenIsBound'
      BY <2>2 DEF ScreenIsBound
    <3>4. (Instructions!Now)' = Instructions!Now
      BY <3>1 DEF Instructions!Now
    <3>5. TableSound(Instructions!Now)'
      BY <1>2, <3>4
    <3>6. LockSound'
      BY <1>1, <1>2, <3>4 DEF LockSound
    <3>7. FileSound'
      BY <1>1, <1>2, <3>1 DEF FileSound, Instructions!GetTableRecord, Instructions!RowsOf
    <3> QED
      BY <3>1, <3>2, <3>3, <3>5, <3>6, <3>7 DEF RowInvariant
  <2> QED
    BY <2>4, <2>5
<1>8. CASE Instructions!Posted
  <2>1. /\ Instructions!Arranged(Instructions!Now, top, height)
        /\ top' = top /\ height' = height /\ posted' = FALSE
    BY <1>8 DEF Instructions!Posted, Instructions!view
  <2>2. height \in 1 .. MaxHeight
    BY <1>2 DEF ViewSound
  <2> QED
    BY <1>4, <1>5, <2>1, <2>2
<1> QED
  BY <1>6, <1>7, <1>8

\* The table is shown, or saved.
LEMMA ShownOrSavedKeepsRows ==
    ASSUME RowInvariant,
           Instructions!Show \/ Instructions!saveSetting \/ UNCHANGED Instructions!vars
    PROVE  RowInvariant' /\ model_' = model_
<1>1. /\ UNCHANGED <<host, opened, customEnabled, isEnabled, model_, cells, widget_rows_, top,
                     height, blanks>>
      /\ posted' \in {posted, TRUE}
      /\ \/ UNCHANGED <<saved, stored, edited>>
         \/ saved' = TRUE /\ edited' = FALSE /\ stored' = Instructions!GetTableRecord(model_)
  BY DEF Instructions!Show, Instructions!saveSetting, Instructions!vars, Instructions!table,
     Instructions!view, Instructions!lock, Instructions!file
<1>2. TableSound(Instructions!Now) /\ ViewSound /\ LockSound /\ ScreenIsBound /\ FileSound
      /\ Len(model_) <= MaxRows
  BY DEF RowInvariant
<1>3. (Instructions!Now)' = Instructions!Now
  BY <1>1 DEF Instructions!Now
<1>4. TableSound(Instructions!Now)' /\ LockSound'
  BY <1>1, <1>2, <1>3 DEF LockSound
<1>5. ViewSound'
  BY <1>1, <1>2 DEF ViewSound, Instructions!MaxTop
<1>6. ScreenIsBound'
  BY <1>1, <1>2 DEF ScreenIsBound, BoundAhead, Instructions!FirstOnScreen
<1>7. FileSound'
  <2>1. CASE UNCHANGED <<saved, stored, edited>>
    BY <1>1, <1>2, <2>1 DEF FileSound, Instructions!GetTableRecord, Instructions!RowsOf
  <2>2. CASE stored' = Instructions!GetTableRecord(model_)
    <3>1. model_ \in Seq(Rows)
      BY <1>2, NowIs DEF TableSound
    <3>2. model_' = Instructions!RowsOf(stored')
      BY <1>1, <2>2, <3>1, RecordGivesRowsBack
    <3> QED
      BY <1>1, <1>2, <2>2, <3>1, <3>2
         DEF FileSound, Instructions!GetTableRecord, Instructions!RowsOf
  <2> QED
    BY <1>1, <2>1, <2>2
<1> QED
  BY <1>1, <1>2, <1>4, <1>5, <1>6, <1>7 DEF RowInvariant

\* The connection is opened or closed.
LEMMA ControlStateKeepsRows ==
    ASSUME RowInvariant, Instructions!SetControlState
    PROVE  RowInvariant' /\ model_' = model_
<1>1. /\ UNCHANGED <<host, model_, widget_rows_, top, height, posted, blanks, saved, stored,
                     edited>>
      /\ opened' = ~opened
      /\ IF host = "SerialWindow" THEN Instructions!SetEnabled(opened)
         ELSE Instructions!setEnabled(opened)
  BY DEF Instructions!SetControlState, Instructions!view, Instructions!file
<1>2. TableSound(Instructions!Now) /\ ViewSound /\ LockSound /\ ScreenIsBound /\ FileSound
      /\ Len(model_) <= MaxRows
  BY DEF RowInvariant
<1>3. PICK n \in Nat : n = Len(model_)
  BY <1>2, SoundTable, NowIs
<1>4. /\ model_ \in Seq(Rows) /\ cells \in Seq(CellTypes) /\ Len(cells) = n
      /\ DOMAIN cells = 1 .. n /\ cells \in [1 .. n -> CellTypes]
      /\ DOMAIN widget_rows_ \subseteq 1 .. n
      /\ \A r \in 1 .. n : cells[r].there <=> r \in DOMAIN widget_rows_
      /\ \A r \in DOMAIN widget_rows_ :
             widget_rows_[r] = r /\ cells[r].shown = model_[r] /\ cells[r].wired
  <2>1. DOMAIN cells = 1 .. n /\ cells \in [1 .. n -> CellTypes]
    BY <1>2, <1>3, SoundTable, NowIs
  <2> QED
    BY <1>2, <1>3, <2>1, NowIs DEF TableSound, BoundWhereTheyStand
<1>5. opened \in BOOLEAN /\ opened' \in BOOLEAN
  BY <1>1, <1>2 DEF ViewSound
<1>6. ScreenIsBound' /\ FileSound'
  BY <1>1, <1>2 DEF ScreenIsBound, BoundAhead, Instructions!FirstOnScreen, FileSound,
     Instructions!GetTableRecord, Instructions!RowsOf
<1>7. CASE host = "SerialWindow"
  <2>1. /\ customEnabled' = opened /\ isEnabled' = TRUE
        /\ cells' = [r \in DOMAIN cells |->
               [cells[r] EXCEPT !.enabled = IF r \in DOMAIN widget_rows_ THEN opened ELSE @,
                                !.send = IF cells[r].there THEN ~opened ELSE @]]
    BY <1>1, <1>7 DEF Instructions!SetEnabled
  <2>2. ASSUME NEW r \in 1 .. n
        PROVE  /\ cells'[r] \in CellTypes /\ cells'[r].shown = cells[r].shown
               /\ cells'[r].there = cells[r].there /\ cells'[r].wired = cells[r].wired
               /\ r \in DOMAIN widget_rows_ => cells'[r].enabled = opened
               /\ r \in DOMAIN widget_rows_ => cells'[r].send = ~opened
    <3>1. PICK c \in CellTypes : c = cells[r]
      BY <1>4
    <3>2. PICK e \in BOOLEAN : e = IF r \in DOMAIN widget_rows_ THEN opened ELSE c.enabled
      BY <1>5, <3>1 DEF CellTypes
    <3>3. PICK d \in BOOLEAN : d = IF c.there THEN ~opened ELSE c.send
      BY <1>5, <3>1 DEF CellTypes
    <3>4. cells'[r] = [c EXCEPT !.enabled = e, !.send = d]
      BY <1>4, <2>1, <3>1, <3>2, <3>3
    <3>5. /\ cells'[r] \in CellTypes /\ cells'[r].shown = c.shown /\ cells'[r].there = c.there
          /\ cells'[r].wired = c.wired /\ cells'[r].enabled = e /\ cells'[r].send = d
      BY <3>4 DEF CellTypes
    <3>6. r \in DOMAIN widget_rows_ => e = opened /\ d = ~opened
      BY <1>4, <3>1, <3>2, <3>3
    <3> QED
      BY <3>1, <3>5, <3>6
  <2>3. cells' \in [1 .. n -> CellTypes]
    <3>1. DOMAIN cells' = 1 .. n /\ cells' = [r \in 1 .. n |-> cells'[r]]
      BY <1>4, <2>1
    <3> QED
      BY <2>2, <3>1
  <2>4. cells' \in Seq(CellTypes) /\ Len(cells') = n
    BY <2>3, FunctionIsSequence
  <2>5. TableSound(Instructions!Now)'
    <3>1. \A r \in 1 .. n : cells'[r].there <=> r \in DOMAIN widget_rows_'
      BY <1>1, <1>4, <2>2
    <3>2. \A r \in DOMAIN widget_rows_' :
              widget_rows_'[r] = r /\ cells'[r].shown = model_'[r] /\ cells'[r].wired
      BY <1>1, <1>4, <2>2
    <3> QED
      BY <1>1, <1>3, <1>4, <2>4, <3>1, <3>2 DEF TableSound, BoundWhereTheyStand, Instructions!Now
  <2>6. LockSound'
    <3>1. customEnabled' <=> ~opened'
      BY <1>1, <1>5, <2>1
    <3>2. \A r \in DOMAIN widget_rows_' :
              (cells'[r].enabled <=> customEnabled') /\ (opened' => cells'[r].send)
      <4> SUFFICES ASSUME NEW r \in DOMAIN widget_rows_
                   PROVE  (cells'[r].enabled <=> customEnabled') /\ (opened' => cells'[r].send)
        BY <1>1
      <4>1. cells'[r].enabled = opened /\ cells'[r].send = ~opened
        BY <1>4, <2>2
      <4> QED
        BY <1>1, <1>5, <2>1, <4>1
    <3>3. Locked(Instructions!Now, customEnabled, opened)'
      <4>1. Instructions!Now'.bound = widget_rows_' /\ Instructions!Now'.cells = cells'
        BY DEF Instructions!Now
      <4> QED
        BY <3>2, <4>1, Zenon DEF Locked
    <3> QED
      BY <1>1, <1>7, <2>1, <3>1, <3>3 DEF LockSound
  <2>7. ViewSound'
    BY <1>1, <1>2, <1>5, <2>1 DEF ViewSound, Instructions!MaxTop
  <2> QED
    BY <1>1, <1>2, <1>6, <2>5, <2>6, <2>7 DEF RowInvariant
<1>8. CASE host # "SerialWindow"
  <2>1. isEnabled' = opened /\ customEnabled' = customEnabled /\ cells' = cells
    BY <1>1, <1>8 DEF Instructions!setEnabled
  <2>2. (Instructions!Now)' = Instructions!Now
    BY <1>1, <2>1 DEF Instructions!Now
  <2>3. TableSound(Instructions!Now)'
    BY <1>2, <2>2
  <2>4. LockSound'
    <3>1. isEnabled' <=> ~opened'
      BY <1>1, <1>5, <2>1
    <3> QED
      BY <1>1, <1>8, <3>1 DEF LockSound
  <2>5. ViewSound'
    BY <1>1, <1>2, <1>5, <2>1 DEF ViewSound, Instructions!MaxTop
  <2> QED
    BY <1>1, <1>2, <1>6, <2>3, <2>4, <2>5 DEF RowInvariant
<1> QED
  BY <1>1, <1>7, <1>8

\* The window is built anew from its record.
LEMMA ReopenKeepsRows ==
    ASSUME RowInvariant, Instructions!Reopen
    PROVE  RowInvariant' /\ model_' = Instructions!RowsOf(stored)
<1> DEFINE t == Instructions!SetupTable(stored)
           C == Instructions!SetupVisibleRows(t, 0, height, customEnabled')
<1>1. /\ UNCHANGED <<host, height, posted, stored>>
      /\ opened' = FALSE /\ isEnabled' = TRUE /\ customEnabled' = (host = "SerialWindow")
      /\ top' = 0 /\ blanks' = 0 /\ saved' = TRUE /\ edited' = FALSE
      /\ Instructions!Becomes(C)
  BY DEF Instructions!Reopen
<1>2. PICK s \in Seq(Rows) : Len(s) <= MaxRows /\ stored = Instructions!GetTableRecord(s)
  BY DEF RowInvariant, FileSound
<1>3. Instructions!RowsOf(stored) = s
  BY <1>2, RecordGivesRowsBack
<1>4. Len(s) \in Nat /\ stored.totalRows = Len(s)
  BY <1>2, LenProperties DEF Instructions!GetTableRecord
<1>5. /\ t.model = s /\ t.cells = [r \in 1 .. Len(s) |-> Instructions!None] /\ t.bound = <<>>
  BY <1>3, <1>4 DEF Instructions!SetupTable
<1> HIDE DEF t
<1>6. DOMAIN t.bound = {}
  <2>1. Len(<<>>) = 0 /\ DOMAIN <<>> = 1 .. Len(<<>>)
    BY EmptySeq, LenProperties
  <2> QED
    BY <1>5, <2>1
<1>7. TableSound(t)
  <2>1. t.cells \in [1 .. Len(s) -> CellTypes]
    BY <1>5, NoControlsTyped
  <2>2. t.cells \in Seq(CellTypes) /\ Len(t.cells) = Len(s)
    BY <1>4, <2>1, FunctionIsSequence
  <2>3. BoundWhereTheyStand(t)
    BY <1>5, <1>6, NoControlsTyped DEF BoundWhereTheyStand
  <2> QED
    BY <1>5, <1>6, <2>2, <2>3 DEF TableSound
<1>8. customEnabled' \in BOOLEAN /\ 0 \in Nat /\ height \in Nat /\ height >= 1
  BY <1>1, TableAssumption DEF RowInvariant, ViewSound
<1>9. /\ TableSound(Instructions!Now)' /\ model_' = t.model
      /\ BoundAhead(DOMAIN widget_rows_', Len(t.model), 0, height, Prefetch)
  BY <1>1, <1>7, <1>8, SetupBecomes, Zenon
<1>10. LockSound'
  <2>1. CASE host = "SerialWindow"
    <3>1. Locked(t, customEnabled', opened')
      BY <1>6 DEF Locked
    <3>2. opened' \in BOOLEAN
      BY <1>1
    <3>3. Locked(C, customEnabled', opened')
      BY <1>7, <1>8, <3>1, <3>2, SetupLocks, Zenon
    <3> HIDE DEF C
    <3>4. Locked(Instructions!Now, customEnabled, opened)'
      BY <1>1, <3>3, BecomesLocked
    <3> QED
      BY <1>1, <2>1, <3>4 DEF LockSound
  <2>2. CASE host # "SerialWindow"
    BY <1>1, <2>2 DEF LockSound
  <2> QED
    BY <2>1, <2>2
<1>11. ViewSound'
  <2>1. ViewSound
    BY DEF RowInvariant
  <2>2. Len(model_') = Len(s) /\ 0 \in 0 .. Instructions!MaxTop(Len(s), height)
    BY <1>4, <1>5, <1>8, <1>9, MaxTopIs
  <2>3. 0 \in 0 .. Prefetch + 1
    BY TableAssumption
  <2> QED
    BY <1>1, <1>8, <2>1, <2>2, <2>3 DEF ViewSound, Instructions!MaxTop
<1>12. ScreenIsBound'
  <2>1. Prefetch - 0 = Prefetch
    BY TableAssumption
  <2> QED
    BY <1>1, <1>9, <2>1 DEF ScreenIsBound, BoundAhead, Instructions!FirstOnScreen
<1>13. FileSound'
  <2>1. model_' = Instructions!RowsOf(stored')
    BY <1>1, <1>3, <1>5, <1>9
  <2> QED
    BY <1>1, <1>2, <2>1 DEF FileSound, Instructions!GetTableRecord, Instructions!RowsOf
<1> QED
  BY <1>2, <1>3, <1>5, <1>9, <1>10, <1>11, <1>12, <1>13 DEF RowInvariant

\* The invariant of the table is inductive.
LEMMA RowInvariantAlways == Instructions!Spec => []RowInvariant
<1>1. Instructions!Init => RowInvariant
  <2> SUFFICES ASSUME Instructions!Init PROVE RowInvariant
    OBVIOUS
  <2>1. /\ host \in {"SerialWindow", "TcpWindow"} /\ opened = FALSE /\ isEnabled = TRUE
        /\ model_ = <<>> /\ cells = <<>> /\ widget_rows_ = <<>>
        /\ customEnabled = (host = "SerialWindow")
        /\ top = 0 /\ height \in 1 .. MaxHeight /\ posted = FALSE /\ blanks = 0
        /\ saved = TRUE /\ stored = Instructions!GetTableRecord(<<>>) /\ edited = FALSE
    BY DEF Instructions!Init
  <2>2. /\ <<>> \in Seq(Rows) /\ <<>> \in Seq(CellTypes) /\ Len(<<>>) = 0
        /\ DOMAIN <<>> = {} /\ 1 .. 0 = {}
    BY EmptySeq
  <2>3. TableSound(Instructions!Now) /\ Len(model_) <= MaxRows
    BY <2>1, <2>2, NowIs, TableAssumption DEF TableSound, BoundWhereTheyStand
  <2>4. ViewSound
    <3>1. 0 \in 0 .. Instructions!MaxTop(0, height) /\ 0 \in 0 .. Prefetch + 1
      BY <2>1, TableAssumption, MaxTopIs
    <3> QED
      BY <2>1, <2>2, <3>1 DEF ViewSound
  <2>5. ScreenIsBound
    BY <2>1, <2>2 DEF ScreenIsBound, BoundAhead
  <2>6. LockSound
    <3>1. DOMAIN Instructions!Now.bound = {}
      BY <2>1, <2>2, NowIs
    <3> QED
      BY <2>1, <3>1 DEF LockSound, Locked
  <2>7. FileSound
    <3>1. model_ = Instructions!RowsOf(stored)
      BY <2>1, <2>2, RecordGivesRowsBack
    <3>2. <<>> \in Seq(Rows) /\ Len(<<>>) <= MaxRows /\ stored = Instructions!GetTableRecord(<<>>)
      BY <2>1, <2>2, TableAssumption
    <3>3. \E s \in Seq(Rows) : Len(s) <= MaxRows /\ stored = Instructions!GetTableRecord(s)
      BY <3>2, Zenon
    <3> QED
      BY <3>1, <3>3 DEF FileSound
  <2> QED
    BY <2>3, <2>4, <2>5, <2>6, <2>7 DEF RowInvariant
<1>2. RowInvariant /\ [Instructions!Next]_Instructions!vars => RowInvariant'
  BY AddKeepsRows, DeleteKeepsRows, EditKeepsRows, ViewKeepsRows, ShownOrSavedKeepsRows,
     ControlStateKeepsRows, ReopenKeepsRows DEF Instructions!Next
<1> QED
  BY <1>1, <1>2, PTL DEF Instructions!Spec

\* What the invariant says of the properties.
LEMMA RowInvariantShows ==
    ASSUME RowInvariant
    PROVE  /\ Instructions!RowsShowTheirData /\ Instructions!SavedRowsAreStored
           /\ Instructions!LockedWhileOpen
<1>1. TableSound(Instructions!Now) /\ Len(model_) <= MaxRows /\ ViewSound /\ LockSound
      /\ ScreenIsBound /\ FileSound
  BY DEF RowInvariant
<1>2. PICK n \in Nat : n = Len(model_)
  BY <1>1, SoundTable, NowIs
<1>3. /\ model_ \in Seq(Rows) /\ cells \in Seq(CellTypes) /\ Len(cells) = n
      /\ DOMAIN model_ = 1 .. n /\ DOMAIN widget_rows_ \subseteq 1 .. n
      /\ \A r \in 1 .. n : cells[r].there <=> r \in DOMAIN widget_rows_
      /\ \A r \in DOMAIN widget_rows_ :
             widget_rows_[r] = r /\ cells[r].shown = model_[r] /\ cells[r].wired
  <2>1. DOMAIN model_ = 1 .. n
    BY <1>1, <1>2, SoundTable, NowIs
  <2> QED
    BY <1>1, <1>2, <2>1, NowIs DEF TableSound, BoundWhereTheyStand
<1>4. Instructions!TypeOK
  <2>1. /\ opened \in BOOLEAN /\ customEnabled \in BOOLEAN /\ isEnabled \in BOOLEAN
        /\ posted \in BOOLEAN /\ saved \in BOOLEAN /\ edited \in BOOLEAN
        /\ top \in 0 .. Instructions!MaxTop(Len(model_), height) /\ height \in 1 .. MaxHeight
        /\ blanks \in 0 .. Prefetch + 1
    BY <1>1 DEF ViewSound
  <2> QED
    BY <1>1, <1>2, <1>3, <2>1 DEF Instructions!TypeOK, CellTypes
<1>5. ASSUME ~posted, blanks <= Prefetch, NEW r \in DOMAIN model_, Instructions!OnScreen(r)
      PROVE  cells[r].there
  <2>1. /\ top \in Nat /\ height \in Nat /\ blanks \in Nat /\ Prefetch \in Nat
    BY <1>1, <1>2, MaxTopIs, TableAssumption DEF ViewSound
  <2>2. /\ Instructions!FirstOnScreen(top) <= r
        /\ r <= Instructions!Min({n, top + height - 1})
    BY <1>2, <1>5, NowIs DEF Instructions!OnScreen, Instructions!LastOnScreen
  <2>3. r <= top + height - 1
    BY <1>2, <1>3, <2>1, <2>2, SmallerOfTwo
  <2>4. r <= top + height - 1 + (Prefetch - blanks)
    BY <1>3, <1>5, <2>1, <2>3
  <2>5. BoundAhead(DOMAIN widget_rows_, n, top, height, Prefetch - blanks)
    BY <1>1, <1>2, <1>5 DEF ScreenIsBound
  <2>6. r \in DOMAIN widget_rows_
    BY <1>3, <2>2, <2>4, <2>5 DEF BoundAhead
  <2> QED
    BY <1>3, <2>6
<1>6. Instructions!RowsShowTheirData
  BY <1>3, <1>4, <1>5 DEF Instructions!RowsShowTheirData
<1>7. Instructions!SavedRowsAreStored
  BY <1>1 DEF FileSound, Instructions!SavedRowsAreStored
<1>8. Instructions!LockedWhileOpen
  <2>1. CASE host = "SerialWindow"
    <3>1. isEnabled /\ (customEnabled <=> ~opened)
          /\ Locked(Instructions!Now, customEnabled, opened)
      BY <1>1, <2>1 DEF LockSound
    <3>2. \A r \in DOMAIN widget_rows_ :
              (cells[r].enabled <=> ~opened) /\ (opened => cells[r].send)
      <4>1. Instructions!Now.bound = widget_rows_ /\ Instructions!Now.cells = cells
        BY NowIs
      <4> QED
        BY <3>1, <4>1, Zenon DEF Locked
    <3> QED
      BY <1>3, <3>1, <3>2 DEF Instructions!LockedWhileOpen, Instructions!Usable
  <2>2. CASE host # "SerialWindow"
    BY <1>1, <2>2 DEF LockSound, Instructions!LockedWhileOpen, Instructions!Usable
  <2> QED
    BY <2>1, <2>2
<1> QED
  BY <1>6, <1>7, <1>8

\* A step that changes the data of rows is one of the user, who edits one row.
LEMMA RowsChangeStep ==
    ASSUME RowInvariant, [Instructions!Next]_Instructions!vars,
           Len(model_') = Len(model_), model_' # Instructions!RowsOf(stored)
    PROVE  \E r \in DOMAIN model_ \cup {0} :
               /\ \A i \in DOMAIN model_ \ {r} : model_'[i] = model_[i]
               /\ (r # 0 /\ model_'[r] # model_[r])
                      => Instructions!OnScreen(r) /\ Instructions!Usable(r)
<1>1. Len(model_) \in Nat /\ model_ \in Seq(Rows)
  BY NowIs, SoundTable DEF RowInvariant, TableSound
<1>2. ASSUME model_' = model_
      PROVE  \E r \in DOMAIN model_ \cup {0} :
                 /\ \A i \in DOMAIN model_ \ {r} : model_'[i] = model_[i]
                 /\ (r # 0 /\ model_'[r] # model_[r])
                        => Instructions!OnScreen(r) /\ Instructions!Usable(r)
  BY <1>2
<1>3. ASSUME NEW g \in DOMAIN model_, Instructions!Edit(g)
      PROVE  \E r \in DOMAIN model_ \cup {0} :
                 /\ \A i \in DOMAIN model_ \ {r} : model_'[i] = model_[i]
                 /\ (r # 0 /\ model_'[r] # model_[r])
                        => Instructions!OnScreen(r) /\ Instructions!Usable(r)
  <2>1. Instructions!OnScreen(g) /\ Instructions!Usable(g)
    BY <1>3 DEF Instructions!Edit
  <2>2. \A i \in DOMAIN model_ \ {g} : model_'[i] = model_[i]
    BY <1>3, EditKeepsRows
  <2> QED
    BY <2>1, <2>2
<1>4. ~Instructions!OnAddRowButtonClicked
  <2> SUFFICES ASSUME Instructions!OnAddRowButtonClicked PROVE FALSE
    OBVIOUS
  <2>1. Len(model_') = Len(model_) + 1
    BY AddKeepsRows
  <2> QED
    BY <1>1, <2>1
<1>5. \A g \in DOMAIN model_ : ~Instructions!Delete(g)
  BY <1>1, DeleteKeepsRows
<1>6. ~Instructions!Reopen
  BY ReopenKeepsRows
<1> QED
  BY <1>2, <1>3, <1>4, <1>5, <1>6, ViewKeepsRows, ShownOrSavedKeepsRows, ControlStateKeepsRows
     DEF Instructions!Next

-----------------------------------------------------------------------------
(* What the mouse is dragged over in a chat *)

\* The same two facts of the operators as the chat has them.
LEMMA ChatLarger ==
    ASSUME NEW a \in Int, NEW b \in Int
    PROVE  Chat!Max({a, b}) = IF a >= b THEN a ELSE b
<1>1. \E x \in {a, b} : \A y \in {a, b} : x >= y
  OBVIOUS
<1>2. Chat!Max({a, b}) \in {a, b} /\ \A y \in {a, b} : Chat!Max({a, b}) >= y
  BY <1>1, Zenon DEF Chat!Max
<1> QED
  BY <1>2

\* The smaller of two.
LEMMA ChatSmaller ==
    ASSUME NEW a \in Int, NEW b \in Int
    PROVE  Chat!Min({a, b}) = IF a <= b THEN a ELSE b
<1>1. \E x \in {a, b} : \A y \in {a, b} : x <= y
  OBVIOUS
<1>2. Chat!Min({a, b}) \in {a, b} /\ \A y \in {a, b} : Chat!Min({a, b}) <= y
  BY <1>1, Zenon DEF Chat!Min
<1> QED
  BY <1>2

\* Places in the text of the messages there are, and the marks they can have.
Places == [row : 1 .. rows, pos : 0 .. Length]
Spans == [start : 0 .. Length, end : 0 .. Length]
MarkTypes == Spans \cup {Chat!NoMark}

\* There is room for a character in a line.
LEMMA LineHasRoom == Chat!LineLength \in Nat \ {0}
<1>1. Room \in Nat /\ CharWidth \in Nat \ {0} /\ CharWidth <= Room
  BY MessagesAssumption
<1> QED
  BY <1>1 DEF Chat!LineLength

\* A line begins within the text; if it is not the last, all of it is.
LEMMA LineBegins ==
    ASSUME NEW line \in 0 .. Chat!LastLine
    PROVE  /\ line * Chat!LineLength \in 0 .. Length
           /\ line = Chat!LastLine \/ Length # 0
<1>1. Length \in Nat /\ Chat!LineLength \in Nat \ {0}
  BY MessagesAssumption, LineHasRoom
<1>2. CASE Length = 0
  <2>1. line = 0 /\ Chat!LastLine = 0
    BY <1>2 DEF Chat!LastLine
  <2> QED
    BY <1>1, <2>1
<1>3. CASE Length # 0
  <2> DEFINE q == (Length - 1) \div Chat!LineLength
  <2>1. q \in Nat /\ q * Chat!LineLength <= Length - 1
    BY <1>1, <1>3
  <2>2. line \in 0 .. q
    BY <1>3 DEF Chat!LastLine
  <2> HIDE DEF q
  <2>3. line * Chat!LineLength <= q * Chat!LineLength /\ line * Chat!LineLength \in Nat
    BY <1>1, <2>1, <2>2
  <2> QED
    BY <1>1, <1>3, <2>1, <2>3
<1> QED
  BY <1>2, <1>3

\* An x of a line is a place in the text.
LEMMA CursorIsPlace ==
    ASSUME NEW line \in 0 .. Chat!LastLine, NEW x \in Int
    PROVE  Chat!xToCursor(line, x) \in 0 .. Length
<1> DEFINE begin == line * Chat!LineLength
           end == Chat!Min({Length, begin + Chat!LineLength})
           nearest == Chat!Min({end, begin + (2 * x + CharWidth) \div (2 * CharWidth)})
<1>1. Length \in Nat /\ CharWidth \in Nat \ {0} /\ Chat!LineLength \in Nat \ {0}
  BY MessagesAssumption, LineHasRoom
<1>2. begin \in 0 .. Length /\ (line = Chat!LastLine \/ Length # 0)
  BY LineBegins
<1> HIDE DEF begin
<1>3. end \in begin .. Length /\ (Length # 0 => end # 0)
  BY <1>1, <1>2, ChatSmaller
<1> HIDE DEF end
<1>4. CASE x <= 0
  <2>1. Chat!xToCursor(line, x) = begin
    BY <1>4 DEF Chat!xToCursor, begin
  <2> QED
    BY <1>2, <2>1
<1>5. CASE x > 0 /\ x < (end - begin) * CharWidth
  <2>1. Chat!xToCursor(line, x) = nearest
    BY <1>5 DEF Chat!xToCursor, begin, end
  <2>2. (2 * x + CharWidth) \div (2 * CharWidth) \in Nat
    BY <1>1, <1>5
  <2>3. nearest \in begin .. end
    BY <1>2, <1>3, <2>2, ChatSmaller
  <2> QED
    BY <1>1, <1>2, <1>3, <2>1, <2>3
<1>6. CASE ~(x <= 0) /\ ~(x > 0 /\ x < (end - begin) * CharWidth)
  <2>1. Chat!xToCursor(line, x) = IF line = Chat!LastLine THEN end ELSE end - 1
    BY <1>6 DEF Chat!xToCursor, begin, end
  <2> QED
    BY <1>1, <1>2, <1>3, <2>1
<1> QED
  BY <1>4, <1>5, <1>6

\* A point of the view is a place in the text, one of those that are drawn near it: as it
\* is taken two pixels to the right of it and three below.
LEMMA PointIsPlace ==
    ASSUME NEW p \in Chat!Points
    PROVE  /\ Chat!PlaceAt(p) \in Places /\ Chat!PlaceAt(p).row = p.row /\ p.row \in 1 .. rows
           /\ Chat!PlaceAt(p) \in Chat!Near(p)
<1> DEFINE x == p.at.x - 4
           y == Chat!Max({0, p.at.y - 4 - 1})
           onLine == Chat!Min({Chat!LastLine, y \div LineHeight})
           line == IF 0 <= x /\ x <= Room THEN onLine ELSE Chat!LastLine
           q == [row |-> p.row, at |-> [x |-> p.at.x + 2, y |-> p.at.y + 3]]
<1>1. p.row \in 1 .. rows /\ p.at.x \in Int /\ p.at.y \in Int
  BY MessagesAssumption DEF Chat!Points
<1>2. Length \in Nat /\ Room \in Nat /\ LineHeight \in Nat \ {0} /\ Chat!LineLength \in Nat \ {0}
  BY MessagesAssumption, LineHasRoom
<1>3. Chat!LastLine \in Nat
  BY <1>2 DEF Chat!LastLine
<1>4. y \in Nat
  BY <1>1, ChatLarger
<1>5. Chat!Max({0, (p.at.y + 3) - 2 * 4}) = y
  <2>1. (p.at.y + 3) - 2 * 4 = p.at.y - 4 - 1
    BY <1>1
  <2> QED
    BY <2>1
<1>6. q.row = p.row /\ q.at.x = p.at.x + 2 /\ q.at.y = p.at.y + 3
  OBVIOUS
<1>7. Chat!PlaceAt(p) = [row |-> p.row, pos |-> Chat!xToCursor(line, x)]
  BY DEF Chat!PlaceAt, Chat!posToCursor, Chat!verticalMargin
<1> HIDE DEF y
<1>8. y \div LineHeight \in Nat
  BY <1>2, <1>4
<1>9. onLine \in 0 .. Chat!LastLine /\ (Chat!LastLine = 0 => onLine = 0)
  BY <1>3, <1>8, ChatSmaller
<1>10. Chat!xToCursor(line, x) \in 0 .. Length
  <2>1. line \in 0 .. Chat!LastLine /\ x \in Int
    BY <1>1, <1>3, <1>9
  <2> HIDE DEF line, x
  <2> QED
    BY <2>1, CursorIsPlace
<1>11. Chat!PlaceAt(p) \in [row : {p.row}, pos : 0 .. Length]
  <2> HIDE DEF line, x
  <2> QED
    BY <1>7, <1>10
<1>12. ASSUME ~Chat!BesideLine(p) PROVE Chat!PlaceAt(p) = Chat!DrawnAt(q)
  <2>1. line = onLine
    BY <1>1, <1>2, <1>3, <1>9, <1>12 DEF Chat!BesideLine, Chat!verticalMargin
  <2>2. Chat!DrawnAt(q) = [row |-> q.row, pos |-> Chat!xToCursor(onLine, q.at.x - 6)]
    BY <1>5, <1>6 DEF Chat!DrawnAt, Chat!verticalMargin, Chat!horizontalMargin
  <2>3. q.at.x - 6 = x
    BY <1>1, <1>6
  <2> QED
    BY <1>6, <1>7, <2>1, <2>2, <2>3
<1>13. Chat!PlaceAt(p) \in Places /\ Chat!PlaceAt(p).row = p.row
  <2> HIDE DEF line, x
  <2> QED
    BY <1>1, <1>7, <1>10 DEF Places
<1>14. Chat!PlaceAt(p) \in Chat!Near(p)
  <2>1. 2 \in 0 .. Chat!horizontalMargin - Chat!verticalMargin /\ 3 \in 0 .. Chat!verticalMargin
    BY DEF Chat!verticalMargin, Chat!horizontalMargin
  <2> QED
    BY <1>11, <1>12, <2>1, Zenon DEF Chat!Near
<1> QED
  BY <1>1, <1>13, <1>14

\* What is marked of a row between two places.
MarkBetween(r, a, c) ==
    IF r = a.row /\ r = c.row
    THEN [start |-> IF a.pos <= c.pos THEN a.pos ELSE c.pos,
          end |-> IF a.pos <= c.pos THEN c.pos ELSE a.pos]
    ELSE IF r = a.row
         THEN IF c.row < r THEN [start |-> 0, end |-> a.pos] ELSE [start |-> a.pos, end |-> Length]
         ELSE IF r = c.row
              THEN IF a.row < r THEN [start |-> 0, end |-> c.pos]
                   ELSE [start |-> c.pos, end |-> Length]
              ELSE [start |-> 0, end |-> Length]

\* The cases of updateSelections, put together.
LEMMA MarkOfIs ==
    ASSUME NEW r \in Int, NEW a \in Places, NEW c \in Places
    PROVE  Chat!MarkOf(r, a, c) = MarkBetween(r, a, c)
<1>1. /\ a.row \in Int /\ c.row \in Int /\ a.pos \in Int /\ c.pos \in Int /\ Length \in Int
      /\ 0 <= a.pos /\ a.pos <= Length /\ 0 <= c.pos /\ c.pos <= Length
  BY MessagesAssumption DEF Places
<1> DEFINE up == a.row >= c.row
           s == IF r = a.row THEN a.pos ELSE IF r = c.row /\ up THEN c.pos ELSE 0
           e == IF r = c.row /\ (r = a.row \/ ~up) THEN c.pos
                ELSE IF r = a.row /\ up THEN 0 ELSE Length
<1>2. s \in Int /\ e \in Int
  BY <1>1
<1>3. Chat!MarkOf(r, a, c) = [start |-> Chat!Min({s, e}), end |-> Chat!Max({s, e})]
  BY DEF Chat!MarkOf
<1>4. /\ Chat!Min({s, e}) = IF s <= e THEN s ELSE e
      /\ Chat!Max({s, e}) = IF s >= e THEN s ELSE e
  <2> HIDE DEF s, e
  <2> QED
    BY <1>2, ChatLarger, ChatSmaller
<1>5. [start |-> IF s <= e THEN s ELSE e, end |-> IF s >= e THEN s ELSE e] = MarkBetween(r, a, c)
  BY <1>1 DEF MarkBetween
<1> HIDE DEF s, e
<1> QED
  BY <1>3, <1>4, <1>5

\* A mark of a drag is within the text.
LEMMA MarkOfTyped ==
    ASSUME NEW r \in Int, NEW a \in Places, NEW c \in Places
    PROVE  Chat!MarkOf(r, a, c) \in Spans
<1>1. /\ a.pos \in 0 .. Length /\ c.pos \in 0 .. Length /\ Length \in Nat
  BY MessagesAssumption DEF Places
<1>2. MarkBetween(r, a, c) \in Spans
  BY <1>1 DEF MarkBetween, Spans
<1> QED
  BY <1>2, MarkOfIs

\* What is highlighted of a mark, and what is copied of it.
LEMMA SpanIsText ==
    ASSUME NEW m \in Spans
    PROVE  LET first == IF m.start <= m.end THEN m.start ELSE m.end
               past == IF m.start >= m.end THEN m.start ELSE m.end
           IN  /\ Chat!createSelectionFormats(m) = first .. past - 1
               /\ Chat!selectedText(m) = first .. past - 1
<1>1. m.start \in Nat /\ m.end \in Nat
  BY MessagesAssumption DEF Spans
<1>2. /\ Chat!Min({m.start, m.end}) = IF m.start <= m.end THEN m.start ELSE m.end
      /\ Chat!Max({m.start, m.end}) = IF m.start >= m.end THEN m.start ELSE m.end
  BY <1>1, ChatLarger, ChatSmaller
<1> QED
  BY <1>1, <1>2 DEF Chat!createSelectionFormats, Chat!selectedText

\* A row without a mark has no text that is highlighted or copied.
LEMMA NoMarkHasNoText ==
    /\ Chat!createSelectionFormats(Chat!NoMark) = {}
    /\ Chat!selectedText(Chat!NoMark) = {}
<1>1. Chat!Min({-1, -1}) = -1
  BY ChatSmaller
<1> QED
  BY <1>1 DEF Chat!createSelectionFormats, Chat!selectedText, Chat!NoMark

\* The text between two places, as a range of each row.
LEMMA DraggedIs ==
    ASSUME NEW r \in Int, NEW a \in Places, NEW c \in Places
    PROVE  Chat!Dragged(r, a, c) =
               IF Chat!Between(r, a.row, c.row)
               THEN MarkBetween(r, a, c).start .. MarkBetween(r, a, c).end - 1
               ELSE {}
<1>1. /\ a.row \in Int /\ c.row \in Int /\ a.pos \in Int /\ c.pos \in Int /\ Length \in Int
      /\ 0 <= a.pos /\ a.pos <= Length /\ 0 <= c.pos /\ c.pos <= Length
  BY MessagesAssumption DEF Places
<1>2. Chat!Dragged(r, a, c) =
          {i \in 0 .. Length - 1 :
              ((r < a.row \/ (r = a.row /\ i < a.pos)) /\ ~(r < c.row \/ (r = c.row /\ i < c.pos)))
              \/ (~(r < a.row \/ (r = a.row /\ i < a.pos))
                    /\ (r < c.row \/ (r = c.row /\ i < c.pos)))}
  BY DEF Chat!Dragged
<1>3. CASE ~Chat!Between(r, a.row, c.row)
  <2>1. (r < a.row /\ r < c.row) \/ (a.row < r /\ c.row < r)
    BY <1>1, <1>3 DEF Chat!Between
  <2> QED
    BY <1>1, <1>2, <1>3, <2>1
<1>4. CASE r = a.row /\ r = c.row
  <2>1. MarkBetween(r, a, c) = [start |-> IF a.pos <= c.pos THEN a.pos ELSE c.pos,
                                end |-> IF a.pos <= c.pos THEN c.pos ELSE a.pos]
    BY <1>4 DEF MarkBetween
  <2>2. Chat!Between(r, a.row, c.row)
    BY <1>1, <1>4 DEF Chat!Between
  <2> QED
    BY <1>1, <1>2, <1>4, <2>1, <2>2
<1>5. CASE r = a.row /\ r # c.row
  <2>1. Chat!Between(r, a.row, c.row)
    BY <1>1, <1>5 DEF Chat!Between
  <2>2. CASE c.row < r
    <3>1. MarkBetween(r, a, c) = [start |-> 0, end |-> a.pos]
      BY <1>5, <2>2 DEF MarkBetween
    <3> QED
      BY <1>1, <1>2, <1>5, <2>1, <2>2, <3>1
  <2>3. CASE ~(c.row < r)
    <3>1. MarkBetween(r, a, c) = [start |-> a.pos, end |-> Length]
      BY <1>5, <2>3 DEF MarkBetween
    <3> QED
      BY <1>1, <1>2, <1>5, <2>1, <2>3, <3>1
  <2> QED
    BY <2>2, <2>3
<1>6. CASE r # a.row /\ r = c.row
  <2>1. Chat!Between(r, a.row, c.row)
    BY <1>1, <1>6 DEF Chat!Between
  <2>2. CASE a.row < r
    <3>1. MarkBetween(r, a, c) = [start |-> 0, end |-> c.pos]
      BY <1>6, <2>2 DEF MarkBetween
    <3> QED
      BY <1>1, <1>2, <1>6, <2>1, <2>2, <3>1
  <2>3. CASE ~(a.row < r)
    <3>1. MarkBetween(r, a, c) = [start |-> c.pos, end |-> Length]
      BY <1>6, <2>3 DEF MarkBetween
    <3> QED
      BY <1>1, <1>2, <1>6, <2>1, <2>3, <3>1
  <2> QED
    BY <2>2, <2>3
<1>7. CASE r # a.row /\ r # c.row /\ Chat!Between(r, a.row, c.row)
  <2>1. MarkBetween(r, a, c) = [start |-> 0, end |-> Length]
    BY <1>7 DEF MarkBetween
  <2>2. (a.row < r /\ r < c.row) \/ (c.row < r /\ r < a.row)
    BY <1>1, <1>7 DEF Chat!Between
  <2> QED
    BY <1>1, <1>2, <1>7, <2>1, <2>2
<1> QED
  BY <1>3, <1>4, <1>5, <1>6, <1>7

\* What a drag marks of a row is what lies between its places.
LEMMA MarkIsDragged ==
    ASSUME NEW r \in Int, NEW a \in Places, NEW c \in Places, Chat!Between(r, a.row, c.row)
    PROVE  Chat!createSelectionFormats(Chat!MarkOf(r, a, c)) = Chat!Dragged(r, a, c)
<1> DEFINE m == MarkBetween(r, a, c)
<1>1. Chat!MarkOf(r, a, c) = m /\ m \in Spans
  BY MarkOfIs, MarkOfTyped
<1>2. m.start <= m.end
  <2>1. /\ a.pos \in 0 .. Length /\ c.pos \in 0 .. Length /\ Length \in Nat
    BY MessagesAssumption DEF Places
  <2> QED
    BY <2>1 DEF MarkBetween
<1>3. Chat!Dragged(r, a, c) = m.start .. m.end - 1
  BY DraggedIs
<1> HIDE DEF m
<1>4. m.start \in Nat /\ m.end \in Nat
  BY <1>1, MessagesAssumption DEF Spans
<1>5. Chat!createSelectionFormats(m) = m.start .. m.end - 1
  <2>1. (IF m.start >= m.end THEN m.start ELSE m.end) = m.end
    BY <1>2, <1>4
  <2> QED
    BY <1>1, <1>2, <2>1, SpanIsText
<1> QED
  BY <1>1, <1>3, <1>5

\* While a drag goes on, its two places are those of the points where it began and where
\* the mouse is, what lies between them is marked, and of the rows the mouse has passed
\* only the one it is on is kept.
DragIsMarked ==
    /\ anchor \in Places /\ current \in Places /\ current.row = pointed.row
    /\ anchor \in Chat!Near(pressed) /\ current \in Chat!Near(pointed)
    /\ m_tempSelections = {r \in 1 .. rows : Chat!Between(r, anchor.row, current.row)}
    /\ \A r \in 1 .. Arrivals :
           marks[r] = IF r \in m_tempSelections THEN Chat!MarkOf(r, anchor, current)
                      ELSE Chat!NoMark
    /\ tmp_index_list_ \subseteq {pointed.row}
    /\ tmp_index_list_ = {} => pointed.row = anchor.row

\* Else the marked rows are those of the last drag.
LastIsMarked ==
    /\ m_tempSelections = {}
    /\ \A r \in 1 .. Arrivals : marks[r] # Chat!NoMark => r \in m_finalSelections

ChatSound ==
    /\ rows \in 1 .. Arrivals
    /\ marks \in [1 .. Arrivals -> MarkTypes]
    /\ m_finalSelections \subseteq 1 .. rows
    /\ active => m_isMousePressed /\ ~menu /\ DragIsMarked
    /\ ~active => LastIsMarked

\* As long as the mouse has left out no row.
ChatInvariant == ~skipped => ChatSound

\* The marks once updateSelections has been called in a drag that leaves out no row.
LEMMA UpdateMarks ==
    ASSUME NEW m, m \in [1 .. Arrivals -> MarkTypes], rows \in 1 .. Arrivals,
           NEW a \in Places, NEW c \in Places, Chat!updateSelections(m, a, c),
           \A r \in 1 .. Arrivals :
               (r \in 1 .. rows /\ Chat!Between(r, a.row, c.row)) \/ m[r] = Chat!NoMark
    PROVE  /\ marks' \in [1 .. Arrivals -> MarkTypes]
           /\ m_tempSelections' = {r \in 1 .. rows : Chat!Between(r, a.row, c.row)}
           /\ \A r \in 1 .. Arrivals :
                  marks'[r] = IF r \in m_tempSelections' THEN Chat!MarkOf(r, a, c)
                              ELSE Chat!NoMark
<1> DEFINE range == {r \in 1 .. rows : Chat!Between(r, a.row, c.row)}
           cleared == Chat!Unmarked(m, m_finalSelections)
<1>1. /\ marks' = [r \in 1 .. Arrivals |-> IF r \in range THEN Chat!MarkOf(r, a, c)
                                           ELSE cleared[r]]
      /\ m_tempSelections' = range
  BY DEF Chat!updateSelections
<1>2. \A r \in 1 .. Arrivals : r \notin range => cleared[r] = Chat!NoMark
  <2> SUFFICES ASSUME NEW r \in 1 .. Arrivals, r \notin range
               PROVE  cleared[r] = Chat!NoMark
    OBVIOUS
  <2>1. m[r] = Chat!NoMark
    OBVIOUS
  <2> HIDE DEF range
  <2> QED
    BY <2>1 DEF Chat!Unmarked
<1>3. \A r \in range : Chat!MarkOf(r, a, c) \in Spans
  BY MarkOfTyped
<1> HIDE DEF range, cleared
<1> QED
  BY <1>1, <1>2, <1>3 DEF range, MarkTypes

\* The button goes down: what was marked is not any more, and a drag may begin.
LEMMA PressKeepsMarks ==
    ASSUME ChatSound, ~skipped, NEW p \in Chat!Points, Chat!mousePressEvent(p)
    PROVE  ChatSound'
<1> DEFINE cleared == Chat!Unmarked(marks, m_finalSelections)
           place == Chat!PlaceAt(p)
<1>1. /\ ~m_isMousePressed /\ ~menu /\ m_isMousePressed' = TRUE /\ tmp_index_list_' = {}
      /\ UNCHANGED <<rows, m_finalSelections, menu>>
  BY DEF Chat!mousePressEvent
<1>2. \/ /\ active' = TRUE /\ anchor' = place /\ current' = place
         /\ marks' = [cleared EXCEPT ![p.row] = [start |-> place.pos, end |-> place.pos]]
         /\ m_tempSelections' = m_tempSelections \cup {p.row}
         /\ pressed' = p /\ pointed' = p
      \/ /\ marks' = cleared
         /\ UNCHANGED <<active, anchor, current, m_tempSelections>>
  BY DEF Chat!mousePressEvent, Chat!Kept
<1>3. ~active /\ LastIsMarked /\ rows \in 1 .. Arrivals /\ m_finalSelections \subseteq 1 .. rows
      /\ marks \in [1 .. Arrivals -> MarkTypes]
  BY <1>1 DEF ChatSound
<1>4. /\ cleared \in [1 .. Arrivals -> MarkTypes]
      /\ \A r \in 1 .. Arrivals : cleared[r] = Chat!NoMark
  <2>1. \A r \in 1 .. Arrivals : r \notin m_finalSelections => marks[r] = Chat!NoMark
    BY <1>3 DEF LastIsMarked
  <2> QED
    BY <1>3, <2>1 DEF Chat!Unmarked, MarkTypes
<1>5. /\ place \in Places /\ place.row = p.row /\ p.row \in 1 .. rows /\ place.pos \in 0 .. Length
      /\ place \in Chat!Near(p)
  BY PointIsPlace DEF Places
<1> HIDE DEF cleared, place
<1>6. CASE active' = TRUE /\ anchor' = place /\ current' = place
           /\ marks' = [cleared EXCEPT ![p.row] = [start |-> place.pos, end |-> place.pos]]
           /\ m_tempSelections' = m_tempSelections \cup {p.row}
           /\ pressed' = p /\ pointed' = p
  <2>1. m_tempSelections' = {p.row}
    BY <1>3, <1>6 DEF LastIsMarked
  <2>2. {r \in 1 .. rows : Chat!Between(r, place.row, place.row)} = {p.row}
    BY <1>3, <1>5 DEF Chat!Between
  <2>3. Chat!MarkOf(p.row, place, place) = [start |-> place.pos, end |-> place.pos]
    <3>1. place.pos <= place.pos
      BY <1>5, MessagesAssumption
    <3> QED
      BY <1>5, <3>1, MarkOfIs DEF MarkBetween
  <2>4. [start |-> place.pos, end |-> place.pos] \in Spans /\ p.row \in 1 .. Arrivals
    <3>1. p.row \in 1 .. Arrivals
      <4>1. Arrivals \in Int /\ rows \in 1 .. Arrivals /\ p.row \in 1 .. rows
        BY <1>3, <1>5, MessagesAssumption
      <4> QED
        BY <4>1
    <3>2. place.pos \in 0 .. Length
      BY <1>5
    <3> QED
      BY <3>1, <3>2 DEF Spans
  <2>5. /\ marks' \in [1 .. Arrivals -> MarkTypes]
        /\ marks'[p.row] = [start |-> place.pos, end |-> place.pos]
        /\ \A r \in 1 .. Arrivals : r # p.row => marks'[r] = Chat!NoMark
    BY <1>4, <1>6, <2>4 DEF MarkTypes
  <2>6. DragIsMarked'
    <3>1. anchor' \in Places' /\ current' \in Places'
      BY <1>1, <1>5, <1>6 DEF Places
    <3>2. \A r \in 1 .. Arrivals :
              marks'[r] = IF r \in m_tempSelections' THEN Chat!MarkOf(r, anchor', current')
                          ELSE Chat!NoMark
      BY <1>6, <2>1, <2>3, <2>5
    <3>3. m_tempSelections' = {r \in 1 .. rows' : Chat!Between(r, anchor'.row, current'.row)}
      BY <1>1, <1>6, <2>1, <2>2
    <3>4. anchor' \in Chat!Near(pressed)' /\ current' \in Chat!Near(pointed)'
      BY <1>5, <1>6
    <3> QED
      BY <1>1, <1>5, <1>6, <3>1, <3>2, <3>3, <3>4
         DEF DragIsMarked, Chat!NoMark, Chat!MarkOf, Chat!Between
  <2> QED
    BY <1>1, <1>3, <1>6, <2>5, <2>6 DEF ChatSound
<1>7. CASE marks' = cleared /\ UNCHANGED <<active, anchor, current, m_tempSelections>>
  <2>1. LastIsMarked'
    BY <1>1, <1>3, <1>4, <1>7 DEF LastIsMarked, Chat!NoMark
  <2> QED
    BY <1>1, <1>3, <1>4, <1>7, <2>1 DEF ChatSound
<1> QED
  BY <1>2, <1>6, <1>7

\* The mouse, which was on the row under, comes to the row of p: that one is kept, and
\* the other is unmarked if it had been entered in this drag.
LEMMA PassedIs ==
    ASSUME NEW p, p.row \in Int, NEW under \in Int, tmp_index_list_ \subseteq {under}
    PROVE  /\ Chat!Passed(p).list = {p.row}
           /\ tmp_index_list_ # {} /\ under # p.row => under \in Chat!Passed(p).rows
<1> DEFINE list == tmp_index_list_ \cup {p.row}
           first == Chat!Min(list)
           before == IF old_index_ < first /\ old_index_ # Chat!NoRow THEN {old_index_} ELSE {}
           up == IF p.row > first THEN {first} ELSE {}
           end == Chat!Max(list \ up)
           down == IF p.row < end THEN {end} ELSE {}
<1>1. /\ Chat!Passed(p).rows = before \cup up \cup down
      /\ Chat!Passed(p).list = list \ (up \cup down)
  BY DEF Chat!Passed
<1> HIDE DEF before
<1>2. CASE tmp_index_list_ = {} \/ under = p.row
  <2>1. list = {p.row, p.row}
    BY <1>2
  <2> HIDE DEF list
  <2>2. first = p.row
    BY <2>1, ChatSmaller
  <2> HIDE DEF first
  <2>3. up = {} /\ list \ up = {p.row, p.row}
    BY <2>1, <2>2
  <2> HIDE DEF up
  <2>4. end = p.row
    BY <2>3, ChatLarger
  <2> HIDE DEF end
  <2>5. down = {}
    BY <2>4
  <2> HIDE DEF down
  <2> QED
    <3>1. list \ (up \cup down) = {p.row}
      BY <2>1, <2>3, <2>5
    <3> QED
      BY <1>1, <1>2, <3>1
<1>3. CASE tmp_index_list_ = {under} /\ under < p.row
  <2>1. list = {under, p.row}
    BY <1>3
  <2> HIDE DEF list
  <2>2. first = under
    BY <1>3, <2>1, ChatSmaller
  <2> HIDE DEF first
  <2>3. up = {under} /\ list \ up = {p.row, p.row}
    BY <1>3, <2>1, <2>2
  <2> HIDE DEF up
  <2>4. end = p.row
    BY <2>3, ChatLarger
  <2> HIDE DEF end
  <2>5. down = {}
    BY <2>4
  <2> HIDE DEF down
  <2> QED
    BY <1>1, <2>1, <2>3, <2>5
<1>4. CASE tmp_index_list_ = {under} /\ p.row < under
  <2>1. list = {under, p.row}
    BY <1>4
  <2> HIDE DEF list
  <2>2. first = p.row
    BY <1>4, <2>1, ChatSmaller
  <2> HIDE DEF first
  <2>3. up = {} /\ list \ up = {under, p.row}
    BY <2>1, <2>2
  <2> HIDE DEF up
  <2>4. end = under
    BY <1>4, <2>3, ChatLarger
  <2> HIDE DEF end
  <2>5. down = {under}
    BY <1>4, <2>4
  <2> HIDE DEF down
  <2> QED
    BY <1>1, <1>4, <2>1, <2>3, <2>5
<1>5. tmp_index_list_ = {} \/ tmp_index_list_ = {under}
  OBVIOUS
<1>6. under = p.row \/ under < p.row \/ p.row < under
  OBVIOUS
<1> QED
  BY <1>2, <1>3, <1>4, <1>5, <1>6

\* The mouse is moved by at most a row.
LEMMA MoveKeepsMarks ==
    ASSUME ChatSound, NEW p \in Chat!Points, Chat!mouseMoveEvent(p), ~skipped'
    PROVE  ChatSound'
<1> DEFINE passed == Chat!Passed(p)
           place == Chat!PlaceAt(p)
           m == Chat!Unmarked(marks, passed.rows)
           under == pointed.row
<1>1. /\ active /\ ~menu /\ current' = place /\ tmp_index_list_' = passed.list
      /\ Chat!updateSelections(m, anchor, place)
      /\ Chat!Between(p.row, under - 1, under + 1) /\ pressed' = pressed /\ pointed' = p
      /\ UNCHANGED <<rows, m_finalSelections, m_isMousePressed, active, anchor, menu>>
  BY DEF Chat!mouseMoveEvent, Chat!Kept
<1>2. /\ DragIsMarked /\ m_isMousePressed /\ rows \in 1 .. Arrivals
      /\ m_finalSelections \subseteq 1 .. rows /\ marks \in [1 .. Arrivals -> MarkTypes]
  BY <1>1 DEF ChatSound
<1>3. place \in Places /\ place.row = p.row /\ p.row \in 1 .. rows /\ place \in Chat!Near(p)
  BY PointIsPlace
<1>4. /\ anchor \in Places /\ current \in Places /\ current.row = under /\ anchor.row \in Int
      /\ under \in Int /\ p.row \in Int
  BY <1>2, <1>3 DEF DragIsMarked, Places
<1>5. /\ passed.list = {p.row}
      /\ tmp_index_list_ # {} /\ under # p.row => under \in passed.rows
  <2>1. tmp_index_list_ \subseteq {under}
    BY <1>2 DEF DragIsMarked
  <2> HIDE DEF under
  <2> QED
    BY <1>4, <2>1, PassedIs
<1> HIDE DEF passed, place
<1>6. m \in [1 .. Arrivals -> MarkTypes]
  BY <1>2 DEF Chat!Unmarked, MarkTypes
<1>7. ASSUME NEW r \in 1 .. Arrivals, ~(r \in 1 .. rows /\ Chat!Between(r, anchor.row, place.row))
      PROVE  m[r] = Chat!NoMark
  <2>1. CASE r \in passed.rows
    BY <1>2, <2>1 DEF Chat!Unmarked
  <2>2. CASE r \notin passed.rows
    <3>1. m[r] = marks[r]
      BY <1>2, <2>2 DEF Chat!Unmarked
    <3>2. r \notin m_tempSelections
      <4> SUFFICES ASSUME r \in 1 .. rows, Chat!Between(r, anchor.row, under) PROVE FALSE
        BY <1>2, <1>4 DEF DragIsMarked
      <4>1. /\ (anchor.row <= r /\ r <= under) \/ (under <= r /\ r <= anchor.row)
            /\ ~((anchor.row <= r /\ r <= p.row) \/ (p.row <= r /\ r <= anchor.row))
            /\ under - 1 <= p.row /\ p.row <= under + 1
        BY <1>1, <1>3, <1>4, <1>7 DEF Chat!Between
      <4>2. r = under /\ under # p.row /\ under # anchor.row
        BY <1>4, <4>1
      <4> QED
        BY <1>2, <1>5, <2>2, <4>2 DEF DragIsMarked
    <3> QED
      BY <1>2, <3>1, <3>2 DEF DragIsMarked
  <2> QED
    BY <2>1, <2>2
<1> HIDE DEF m
<1>8. \A r \in 1 .. Arrivals :
          (r \in 1 .. rows /\ Chat!Between(r, anchor.row, place.row)) \/ m[r] = Chat!NoMark
  BY <1>7
<1>9. /\ marks' \in [1 .. Arrivals -> MarkTypes]
      /\ m_tempSelections' = {r \in 1 .. rows : Chat!Between(r, anchor.row, place.row)}
      /\ \A r \in 1 .. Arrivals :
             marks'[r] = IF r \in m_tempSelections' THEN Chat!MarkOf(r, anchor, place)
                         ELSE Chat!NoMark
  <2>1. /\ rows \in 1 .. Arrivals /\ place \in Places /\ anchor \in Places
        /\ Chat!updateSelections(m, anchor, place)
    BY <1>1, <1>2, <1>3, <1>4
  <2> QED
    BY <1>6, <1>8, <2>1, UpdateMarks, Zenon
<1>10. DragIsMarked'
  <2>1. anchor' \in Places' /\ current' \in Places'
    BY <1>1, <1>3, <1>4 DEF Places
  <2>2. anchor' \in Chat!Near(pressed)' /\ current' \in Chat!Near(pointed)'
    BY <1>1, <1>2, <1>3 DEF DragIsMarked
  <2> QED
    BY <1>1, <1>3, <1>5, <1>9, <2>1, <2>2
       DEF DragIsMarked, Chat!NoMark, Chat!MarkOf, Chat!Between
<1> QED
  BY <1>1, <1>2, <1>9, <1>10 DEF ChatSound

\* The button goes up: what is marked is what the last drag was over.
LEMMA ReleaseKeepsMarks ==
    ASSUME ChatSound, NEW left \in BOOLEAN, Chat!mouseReleaseEvent(left)
    PROVE  ChatSound'
<1>1. rows' = rows
  BY DEF Chat!mouseReleaseEvent
<1>2. /\ rows \in 1 .. Arrivals /\ m_finalSelections \subseteq 1 .. rows
      /\ marks \in [1 .. Arrivals -> MarkTypes]
  BY DEF ChatSound
<1>3. CASE active
  <2>1. active' = FALSE /\ Chat!commitSelections
    BY <1>3 DEF Chat!mouseReleaseEvent
  <2>2. DragIsMarked
    BY <1>3 DEF ChatSound
  <2>3. /\ marks' \in [1 .. Arrivals -> MarkTypes]
        /\ \A r \in 1 .. Arrivals : marks'[r] \in {marks[r], Chat!NoMark}
    BY <1>2, <2>1 DEF Chat!commitSelections, Chat!Unmarked, MarkTypes
  <2>4. m_finalSelections' = m_tempSelections /\ m_tempSelections' = {}
    BY <2>1 DEF Chat!commitSelections
  <2>5. LastIsMarked'
    <3>1. \A r \in 1 .. Arrivals : marks'[r] # Chat!NoMark => r \in m_finalSelections'
      BY <2>2, <2>3, <2>4 DEF DragIsMarked
    <3> QED
      BY <2>4, <3>1 DEF LastIsMarked, Chat!NoMark
  <2>6. m_finalSelections' \subseteq 1 .. rows'
    BY <1>1, <2>2, <2>4 DEF DragIsMarked
  <2> QED
    BY <1>1, <1>2, <2>1, <2>3, <2>5, <2>6 DEF ChatSound
<1>4. CASE ~active
  <2>1. UNCHANGED <<active, marks, m_finalSelections, m_tempSelections>>
    BY <1>4 DEF Chat!mouseReleaseEvent
  <2>2. LastIsMarked'
    BY <1>4, <2>1 DEF ChatSound, LastIsMarked, Chat!NoMark
  <2> QED
    BY <1>1, <1>2, <1>4, <2>1, <2>2 DEF ChatSound
<1> QED
  BY <1>3, <1>4

\* A message arrives, the button goes down below the last one, the menu closes.
LEMMA OthersKeepMarks ==
    ASSUME ChatSound,
           \/ Chat!appendMessages \/ Chat!mousePressBelow \/ Chat!menuClosed
           \/ UNCHANGED Chat!vars
    PROVE  ChatSound'
<1>1. /\ rows \in 1 .. Arrivals /\ m_finalSelections \subseteq 1 .. rows
      /\ marks \in [1 .. Arrivals -> MarkTypes] /\ Arrivals \in Nat
  BY MessagesAssumption DEF ChatSound
<1>2. CASE Chat!appendMessages
  <2>1. /\ rows < Arrivals /\ rows' = rows + 1
        /\ UNCHANGED <<marks, m_tempSelections, m_finalSelections, m_isMousePressed, active,
                       anchor, current, tmp_index_list_, menu, pressed, pointed>>
    BY <1>2 DEF Chat!appendMessages
  <2>2. 1 .. rows \subseteq 1 .. rows' /\ rows' \in 1 .. Arrivals
    BY <1>1, <2>1
  <2>3. DragIsMarked => DragIsMarked'
    <3> SUFFICES ASSUME DragIsMarked PROVE DragIsMarked'
      OBVIOUS
    <3>1. anchor \in Places' /\ current \in Places'
      BY <2>2 DEF DragIsMarked, Places
    <3>2. anchor.row \in 1 .. rows /\ current.row \in 1 .. rows
      BY DEF DragIsMarked, Places
    <3>3. {r \in 1 .. rows : Chat!Between(r, anchor.row, current.row)}
              = {r \in 1 .. rows' : Chat!Between(r, anchor.row, current.row)}
      BY <1>1, <2>1, <3>2 DEF Chat!Between
    <3>4. anchor' \in Chat!Near(pressed)' /\ current' \in Chat!Near(pointed)'
      BY <2>1 DEF DragIsMarked
    <3> QED
      BY <2>1, <3>1, <3>3, <3>4 DEF DragIsMarked, Chat!NoMark, Chat!MarkOf, Chat!Between
  <2>4. LastIsMarked => LastIsMarked'
    BY <2>1 DEF LastIsMarked, Chat!NoMark
  <2> QED
    BY <1>1, <2>1, <2>2, <2>3, <2>4 DEF ChatSound
<1>3. CASE Chat!mousePressBelow
  <2>1. /\ ~m_isMousePressed /\ m_isMousePressed' = TRUE
        /\ marks' = Chat!Unmarked(marks, m_finalSelections)
        /\ UNCHANGED <<rows, m_tempSelections, m_finalSelections, active>>
    BY <1>3 DEF Chat!mousePressBelow
  <2>2. ~active /\ LastIsMarked
    BY <2>1 DEF ChatSound
  <2>3. /\ marks' \in [1 .. Arrivals -> MarkTypes]
        /\ \A r \in 1 .. Arrivals : marks'[r] \in {marks[r], Chat!NoMark}
    BY <1>1, <2>1 DEF Chat!Unmarked, MarkTypes
  <2>4. LastIsMarked'
    BY <2>1, <2>2, <2>3 DEF LastIsMarked, Chat!NoMark
  <2> QED
    BY <1>1, <2>1, <2>2, <2>3, <2>4 DEF ChatSound
<1>4. CASE Chat!menuClosed \/ UNCHANGED Chat!vars
  <2>1. /\ UNCHANGED <<rows, marks, m_tempSelections, m_finalSelections, m_isMousePressed, active,
                       anchor, current, tmp_index_list_, pressed, pointed>>
        /\ menu' => menu
    BY <1>4 DEF Chat!menuClosed, Chat!vars
  <2>2. DragIsMarked => DragIsMarked'
    <3> SUFFICES ASSUME DragIsMarked PROVE DragIsMarked'
      OBVIOUS
    <3>1. anchor' \in Chat!Near(pressed)' /\ current' \in Chat!Near(pointed)'
      BY <2>1 DEF DragIsMarked
    <3> QED
      BY <2>1, <3>1 DEF DragIsMarked, Places, Chat!NoMark, Chat!MarkOf, Chat!Between
  <2>3. LastIsMarked => LastIsMarked'
    BY <2>1 DEF LastIsMarked, Chat!NoMark
  <2> QED
    BY <1>1, <2>1, <2>2, <2>3 DEF ChatSound
<1> QED
  BY <1>2, <1>3, <1>4

\* Once a row is left out it stays so, and else every step keeps the marks right.
LEMMA ChatInvariantStep ==
    ASSUME ChatInvariant, [Chat!Next]_Chat!vars
    PROVE  ChatInvariant'
<1> SUFFICES ASSUME ~skipped' PROVE ChatSound'
  BY DEF ChatInvariant
<1>1. \A p \in Chat!Points : ~Chat!wheelEvent(p)
  BY DEF Chat!wheelEvent
<1>2. ~skipped
  <2>1. CASE \E p \in Chat!Points : Chat!mouseMoveEvent(p)
    BY <2>1 DEF Chat!mouseMoveEvent
  <2>2. CASE UNCHANGED skipped
    BY <2>2
  <2> QED
    BY <1>1, <2>1, <2>2
       DEF Chat!Next, Chat!vars, Chat!appendMessages, Chat!mousePressEvent, Chat!mousePressBelow,
           Chat!menuClosed, Chat!mouseReleaseEvent
<1>3. ChatSound
  BY <1>2 DEF ChatInvariant
<1> QED
  BY <1>1, <1>2, <1>3, PressKeepsMarks, MoveKeepsMarks, ReleaseKeepsMarks, OthersKeepMarks DEF Chat!Next

\* The invariant of the chat is inductive.
LEMMA ChatInvariantAlways == Chat!Spec => []ChatInvariant
<1>1. Chat!Init => ChatInvariant
  <2> SUFFICES ASSUME Chat!Init PROVE ChatSound
    BY DEF ChatInvariant
  <2>1. /\ rows = 1 /\ marks = [r \in 1 .. Arrivals |-> Chat!NoMark] /\ m_tempSelections = {}
        /\ m_finalSelections = {} /\ active = FALSE
    BY DEF Chat!Init
  <2>2. 1 \in 1 .. Arrivals
    BY MessagesAssumption
  <2> QED
    BY <2>1, <2>2 DEF ChatSound, LastIsMarked, MarkTypes
<1>2. ChatInvariant /\ [Chat!Next]_Chat!vars => ChatInvariant'
  BY ChatInvariantStep
<1> QED
  BY <1>1, <1>2, PTL DEF Chat!Spec

\* What the invariant says of the text that is marked.
LEMMA ChatInvariantShows ==
    ASSUME ChatInvariant
    PROVE  Chat!DraggedTextIsTaken
<1> SUFFICES ASSUME ~skipped PROVE
        /\ active => \E a \in Chat!Near(pressed), c \in Chat!Near(pointed) :
               \A r \in 1 .. rows :
                   Chat!createSelectionFormats(marks[r]) = Chat!Dragged(r, a, c)
        /\ ~active => \A r \in 1 .. rows : Chat!selectedText(marks[r]) # {} =>
               [row |-> r, text |-> Chat!selectedText(marks[r])] \in Chat!Selected
        /\ menu =>
               UNION {{<<part.row, i>> : i \in part.text} : part \in Chat!Selected} =
               UNION {{<<r, i>> : i \in Chat!createSelectionFormats(marks[r])} : r \in 1 .. rows}
  BY DEF Chat!DraggedTextIsTaken
<1>1. ChatSound /\ Arrivals \in Nat
  BY MessagesAssumption DEF ChatInvariant
<1>2. /\ rows \in 1 .. Arrivals /\ m_finalSelections \subseteq 1 .. rows
      /\ marks \in [1 .. Arrivals -> MarkTypes] /\ 1 .. rows \subseteq 1 .. Arrivals
  BY <1>1 DEF ChatSound
<1>3. ASSUME active, NEW r \in 1 .. rows
      PROVE  Chat!createSelectionFormats(marks[r]) = Chat!Dragged(r, anchor, current)
  <2>1. DragIsMarked
    BY <1>1, <1>3 DEF ChatSound
  <2>2. anchor \in Places /\ current \in Places /\ r \in Int
    BY <1>2, <2>1 DEF DragIsMarked
  <2>3. CASE Chat!Between(r, anchor.row, current.row)
    <3>1. marks[r] = Chat!MarkOf(r, anchor, current)
      BY <1>2, <2>1, <2>3 DEF DragIsMarked
    <3> QED
      BY <2>2, <2>3, <3>1, MarkIsDragged
  <2>4. CASE ~Chat!Between(r, anchor.row, current.row)
    <3>1. marks[r] = Chat!NoMark
      BY <1>2, <2>1, <2>4 DEF DragIsMarked
    <3>2. Chat!Dragged(r, anchor, current) = {}
      BY <2>2, <2>4, DraggedIs
    <3> QED
      BY <3>1, <3>2, NoMarkHasNoText
  <2> QED
    BY <2>3, <2>4
<1>4. ASSUME ~active, NEW r \in 1 .. rows, marks[r] # Chat!NoMark PROVE r \in m_finalSelections
  BY <1>1, <1>2, <1>4 DEF ChatSound, LastIsMarked
<1>5. ASSUME NEW r \in 1 .. rows
      PROVE  Chat!selectedText(marks[r]) = Chat!createSelectionFormats(marks[r])
  <2>1. marks[r] \in Spans \/ marks[r] = Chat!NoMark
    BY <1>2 DEF MarkTypes
  <2>2. CASE marks[r] \in Spans
    BY <2>2, SpanIsText
  <2>3. CASE marks[r] = Chat!NoMark
    BY <2>3, NoMarkHasNoText
  <2> QED
    BY <2>1, <2>2, <2>3
<1>6. ASSUME ~active, NEW r \in 1 .. rows, Chat!selectedText(marks[r]) # {}
      PROVE  [row |-> r, text |-> Chat!selectedText(marks[r])] \in Chat!Selected
  <2>1. r \in m_finalSelections
    BY <1>4, <1>6, NoMarkHasNoText
  <2> QED
    BY <2>1 DEF Chat!Selected
<1>7. ASSUME menu
      PROVE  UNION {{<<part.row, i>> : i \in part.text} : part \in Chat!Selected} =
             UNION {{<<r, i>> : i \in Chat!createSelectionFormats(marks[r])} : r \in 1 .. rows}
  <2>1. ~active
    BY <1>1, <1>7 DEF ChatSound
  <2>2. ASSUME NEW part \in Chat!Selected, NEW i \in part.text
        PROVE  part.row \in 1 .. rows /\ i \in Chat!createSelectionFormats(marks[part.row])
    <3>1. PICK r \in m_finalSelections : part = [row |-> r, text |-> Chat!selectedText(marks[r])]
      BY DEF Chat!Selected
    <3>2. part.row = r /\ part.text = Chat!selectedText(marks[r]) /\ r \in 1 .. rows
      BY <1>2, <3>1
    <3> QED
      BY <1>5, <2>2, <3>2
  <2>3. ASSUME NEW r \in 1 .. rows, NEW i \in Chat!createSelectionFormats(marks[r])
        PROVE  \E part \in Chat!Selected : part.row = r /\ i \in part.text
    <3>1. i \in Chat!selectedText(marks[r])
      BY <1>5, <2>3
    <3>2. [row |-> r, text |-> Chat!selectedText(marks[r])] \in Chat!Selected
      BY <1>6, <2>1, <3>1
    <3> QED
      BY <3>1, <3>2
  <2> QED
    BY <2>2, <2>3
<1>8. ASSUME active
      PROVE  \E a \in Chat!Near(pressed), c \in Chat!Near(pointed) :
                 \A r \in 1 .. rows :
                     Chat!createSelectionFormats(marks[r]) = Chat!Dragged(r, a, c)
  <2>1. anchor \in Chat!Near(pressed) /\ current \in Chat!Near(pointed)
    BY <1>1, <1>8 DEF ChatSound, DragIsMarked
  <2> QED
    BY <1>3, <1>8, <2>1
<1> QED
  BY <1>6, <1>7, <1>8

-----------------------------------------------------------------------------
(* Induction, which the library has for well-founded relations *)

\* A set of natural numbers that is not empty has a least element.
LEMMA LeastNat ==
    ASSUME NEW S \in SUBSET Nat, S # {}
    PROVE  \E n \in S : \A m \in S : n <= m
<1> DEFINE R == {ss \in Nat \X Nat : ss[1] < ss[2]}
<1>1. IsWellFoundedOn(R, Nat)
  <2>1. R = OpToRel(<, Nat)
    BY Zenon DEF OpToRel
  <2> QED
    BY <2>1, NatLessThanWellFounded
<1>2. \A m, n \in Nat : m < n => <<m, n>> \in R
  OBVIOUS
<1> HIDE DEF R
<1>3. PICK n \in S : \A m \in S : <<m, n>> \notin R
  BY <1>1, WFMin, Zenon
<1>4. \A m \in S : ~(m < n)
  BY <1>2, <1>3
<1> QED
  BY <1>4

\* Induction: a set with 0, and with the successor of each of its numbers, has all.
LEMMA EveryNat ==
    ASSUME NEW S, 0 \in S, \A n \in Nat : n \in S => n + 1 \in S
    PROVE  \A n \in Nat : n \in S
<1> SUFFICES ASSUME Nat \ S # {} PROVE FALSE
  OBVIOUS
<1>1. PICK n \in Nat \ S : \A m \in Nat \ S : n <= m
  BY LeastNat, Nat \ S \in SUBSET Nat
<1>2. n - 1 \in Nat /\ n - 1 \notin Nat \ S
  BY <1>1
<1> QED
  BY <1>1, <1>2, n - 1 + 1 = n

-----------------------------------------------------------------------------
(* The terminal *)

\* The state the blocks of a message come after.
StateBefore == IF terminal_ = <<>> THEN "none" ELSE terminal_[Len(terminal_)].state

\* The blocks of some lines are what the recursion says, one after the other.
LEMMA HighlightedIs ==
    ASSUME NEW N \in Nat, NEW lines, DOMAIN lines = 1 .. N
    PROVE  /\ DOMAIN Screen!Highlighted(lines) = 1 .. N
           /\ Screen!Highlighted(lines) = [i \in 1 .. N |-> Screen!Highlighted(lines)[i]]
           /\ \A i \in 1 .. N :
                 Screen!Highlighted(lines)[i] =
                     Screen!highlightBlock(lines[i],
                         IF i > 1 THEN Screen!Highlighted(lines)[i - 1].state ELSE StateBefore)
<1> DEFINE After(f, i) == Screen!highlightBlock(lines[i], IF i > 1 THEN f[i - 1].state
                                                          ELSE StateBefore)
           Longer(f) == [i \in DOMAIN lines |-> After(f, i)]
           block == CHOOSE f : f = Longer(f)
           S == {n \in Nat : n <= N =>
                    \E f : DOMAIN f = 1 .. n /\ \A i \in 1 .. n : f[i] = After(f, i)}
<1>1. Screen!Highlighted(lines) = block
  BY DEF Screen!Highlighted, StateBefore
<1>2. 0 \in S
  <2>1. DOMAIN [i \in 1 .. 0 |-> 0] = 1 .. 0
    OBVIOUS
  <2> HIDE DEF After
  <2> QED
    BY <2>1
<1>3. ASSUME NEW n \in Nat, n \in S PROVE n + 1 \in S
  <2> SUFFICES ASSUME n + 1 <= N
               PROVE  \E f : /\ DOMAIN f = 1 .. n + 1
                             /\ \A i \in 1 .. n + 1 : f[i] = After(f, i)
    OBVIOUS
  <2>1. PICK f : DOMAIN f = 1 .. n /\ \A i \in 1 .. n : f[i] = After(f, i)
    BY <1>3
  <2> DEFINE g == [i \in 1 .. n + 1 |-> IF i = n + 1 THEN After(f, n + 1) ELSE f[i]]
  <2>2. DOMAIN g = 1 .. n + 1 /\ g[n + 1] = After(f, n + 1) /\ \A i \in 1 .. n : g[i] = f[i]
    <3> HIDE DEF After
    <3> QED
      OBVIOUS
  <2> HIDE DEF g
  <2>3. ASSUME NEW i \in 1 .. n + 1 PROVE After(g, i) = After(f, i)
    <3>1. CASE i > 1
      <4>1. i - 1 \in 1 .. n
        BY <3>1
      <4> QED
        BY <2>2, <4>1
    <3>2. CASE ~(i > 1)
      BY <3>2
    <3> QED
      BY <3>1, <3>2
  <2> HIDE DEF After
  <2>4. \A i \in 1 .. n + 1 : g[i] = After(g, i)
    <3> TAKE i \in 1 .. n + 1
    <3>1. i = n + 1 \/ i \in 1 .. n
      OBVIOUS
    <3> QED
      BY <2>1, <2>2, <2>3, <3>1
  <2> QED
    BY <2>2, <2>4
<1>4. N \in S
  <2> HIDE DEF S
  <2> QED
    BY <1>2, <1>3, EveryNat
<1>5. PICK f : DOMAIN f = 1 .. N /\ \A i \in 1 .. N : f[i] = After(f, i)
  BY <1>4
<1> HIDE DEF After
<1>6. PICK g : g = Longer(g)
  <2> DEFINE g == [i \in 1 .. N |-> f[i]]
  <2>1. \A i \in 1 .. N : After(g, i) = After(f, i)
    <3> TAKE i \in 1 .. N
    <3>1. i > 1 => i - 1 \in 1 .. N
      OBVIOUS
    <3>2. i > 1 => g[i - 1] = f[i - 1]
      BY <3>1
    <3> HIDE DEF g
    <3> QED
      BY <3>2 DEF After
  <2>2. \A i \in 1 .. N : g[i] = After(g, i)
    <3> TAKE i \in 1 .. N
    <3>1. g[i] = f[i]
      OBVIOUS
    <3> HIDE DEF g
    <3> QED
      BY <1>5, <2>1, <3>1
  <2>3. g = Longer(g)
    <3>1. g = [i \in 1 .. N |-> g[i]]
      OBVIOUS
    <3> HIDE DEF g
    <3> QED
      BY <2>2, <3>1
  <2> QED
    BY <2>3
<1>7. block = Longer(block)
  <2> HIDE DEF Longer
  <2> QED
    BY <1>6
<1> HIDE DEF block
<1>8. /\ DOMAIN block = 1 .. N /\ block = [i \in 1 .. N |-> block[i]]
      /\ \A i \in 1 .. N : block[i] = After(block, i)
  <2> DEFINE longer == Longer(block)
  <2>1. /\ DOMAIN longer = 1 .. N /\ longer = [i \in 1 .. N |-> longer[i]]
        /\ \A i \in 1 .. N : longer[i] = After(block, i)
    OBVIOUS
  <2> HIDE DEF longer
  <2>2. block = longer
    BY <1>7 DEF longer
  <2> QED
    BY <2>1, <2>2
<1> QED
  BY <1>1, <1>8 DEF After

\* The lines of a text, with no mark of the terminal in it, have the colour of their
\* direction; all blocks have the lines they are made of.
LEMMA LinesAreColoured ==
    ASSUME NEW N \in Nat, NEW lines, NEW out \in BOOLEAN, DOMAIN lines = 1 .. N,
           \A i \in 1 .. N : lines[i].at = i /\ lines[i].out = out
    PROVE  LET block == Screen!Highlighted(lines) IN
           /\ DOMAIN block = 1 .. N /\ \A i \in 1 .. N : block[i].line = lines[i]
           /\ (\A i \in 1 .. N : lines[i].holds \notin {"[Tx]", "sent", "received"}) =>
                 \A i \in 1 .. N : block[i].colour =
                     IF i = 1 /\ lines[i].holds = "hex" THEN "hex"
                     ELSE IF out THEN "sent" ELSE "received"
<1> DEFINE block == Screen!Highlighted(lines)
           Before(i) == IF i > 1 THEN block[i - 1].state ELSE StateBefore
           direction == IF out THEN "sent" ELSE "received"
<1>1. /\ DOMAIN block = 1 .. N
      /\ \A i \in 1 .. N : block[i] = Screen!highlightBlock(lines[i], Before(i))
  BY HighlightedIs
<1> HIDE DEF block, Before
<1>2. \A line, prev : Screen!highlightBlock(line, prev).line = line
  BY DEF Screen!highlightBlock
<1>3. ASSUME \A i \in 1 .. N : lines[i].holds \notin {"[Tx]", "sent", "received"},
             NEW i \in 1 .. N
      PROVE  IF i = 1 THEN /\ block[i].state = direction
                           /\ block[i].colour = IF lines[i].holds = "hex" THEN "hex" ELSE direction
             ELSE /\ block[i].state = block[i - 1].state
                  /\ block[i - 1].state # "none" => block[i].colour = block[i - 1].state
  <2>1. Screen!StartsMessage(lines[i]) <=> i = 1
    BY <1>3 DEF Screen!StartsMessage
  <2>2. CASE i = 1
    <3>1. Screen!HasTx(lines[i]) <=> out
      BY <1>3, <2>2 DEF Screen!HasTx
    <3>2. Screen!Direction(lines[i]) = direction
      BY <3>1 DEF Screen!Direction
    <3>3. block[i] = [line |-> lines[i], state |-> direction,
                      colour |-> IF lines[i].holds = "hex" THEN "hex" ELSE direction]
      BY <1>1, <2>1, <2>2, <3>2 DEF Screen!highlightBlock
    <3> HIDE DEF direction
    <3> QED
      BY <2>2, <3>3
  <2>3. CASE i # 1
    <3>1. Before(i) = block[i - 1].state
      BY <2>3 DEF Before
    <3>2. block[i] = [line |-> lines[i], state |-> Before(i),
                      colour |-> IF Before(i) = "none" THEN "black" ELSE Before(i)]
      BY <1>1, <2>1, <2>3 DEF Screen!highlightBlock
    <3> QED
      BY <2>3, <3>1, <3>2
  <2> QED
    BY <2>2, <2>3
<1>4. ASSUME \A i \in 1 .. N : lines[i].holds \notin {"[Tx]", "sent", "received"}
      PROVE  \A i \in 1 .. N : block[i].state = direction
  <2> DEFINE S == {n \in Nat : n \in 1 .. N => block[n].state = direction}
  <2>1. 0 \in S
    OBVIOUS
  <2>2. ASSUME NEW n \in Nat, n \in S PROVE n + 1 \in S
    <3> SUFFICES ASSUME n + 1 \in 1 .. N PROVE block[n + 1].state = direction
      OBVIOUS
    <3>1. CASE n = 0
      BY <1>3, <1>4, <3>1
    <3>2. CASE n # 0
      <4>1. n \in 1 .. N /\ n + 1 # 1 /\ n + 1 - 1 = n
        BY <3>2
      <4>2. block[n + 1].state = block[n].state
        BY <1>3, <1>4, <4>1
      <4> QED
        BY <2>2, <4>1, <4>2
    <3> QED
      BY <3>1, <3>2
  <2>3. \A n \in Nat : n \in S
    <3> HIDE DEF S
    <3> QED
      BY <2>1, <2>2, EveryNat
  <2> QED
    BY <2>3
<1>5. ASSUME \A i \in 1 .. N : lines[i].holds \notin {"[Tx]", "sent", "received"},
             NEW i \in 1 .. N
      PROVE  block[i].colour = IF i = 1 /\ lines[i].holds = "hex" THEN "hex" ELSE direction
  <2>1. CASE i = 1
    BY <1>3, <1>5, <2>1
  <2>2. CASE i # 1
    <3>1. i - 1 \in 1 .. N
      BY <2>2
    <3>2. block[i - 1].state = direction /\ direction # "none"
      BY <1>4, <1>5, <3>1
    <3>3. block[i - 1].state # "none" => block[i].colour = block[i - 1].state
      BY <1>3, <1>5, <2>2
    <3> HIDE DEF direction
    <3> QED
      BY <2>2, <3>2, <3>3
  <2> QED
    BY <2>1, <2>2
<1> QED
  BY <1>1, <1>2, <1>5 DEF block

Formats == {"TEXT", "HEX"}
ShownMessages == [out : BOOLEAN, payload : Screen!Payloads, format : Formats]

\* What Counted counts, of any messages.
Tally(messages, out, n) ==
    LET count[i \in 0 .. Len(messages)] ==
            IF i = 0 THEN 0
            ELSE LET m == messages[i]
                 IN  count[i - 1] + IF m.out = out THEN Len(m.payload) ELSE 0
    IN  count[n]

\* A payload has lines.
LEMMA PayloadsAre ==
    ASSUME NEW payload \in Screen!Payloads
    PROVE  /\ Len(payload) \in Nat /\ DOMAIN payload = 1 .. Len(payload)
           /\ payload \in Seq(Screen!LineKinds)
<1>1. PICK n \in 1 .. MaxLines : payload \in [1 .. n -> Screen!LineKinds]
  BY DEF Screen!Payloads
<1>2. payload \in Seq(Screen!LineKinds) /\ Len(payload) = n
  BY <1>1, FunctionIsSequence
<1> QED
  BY <1>1, <1>2

\* The count is as the recursion says.
LEMMA TallyIs ==
    ASSUME NEW messages \in Seq(ShownMessages), NEW out
    PROVE  /\ Tally(messages, out, 0) = 0
           /\ \A i \in 1 .. Len(messages) :
                 Tally(messages, out, i) = Tally(messages, out, i - 1)
                     + IF messages[i].out = out THEN Len(messages[i].payload) ELSE 0
           /\ \A i \in 0 .. Len(messages) : Tally(messages, out, i) \in Nat
<1> DEFINE N == Len(messages)
           Own(i) == IF messages[i].out = out THEN Len(messages[i].payload) ELSE 0
           Counts(f) == [i \in 0 .. N |-> IF i = 0 THEN 0 ELSE f[i - 1] + Own(i)]
           count == CHOOSE f : f = Counts(f)
           Summed(n) == \E f \in [0 .. n -> Nat] :
                            f[0] = 0 /\ \A i \in 1 .. n : f[i] = f[i - 1] + Own(i)
           S == {n \in Nat : n <= N => Summed(n)}
<1>1. \A n : Tally(messages, out, n) = count[n]
  BY DEF Tally
<1>2. N \in Nat /\ \A i \in 1 .. N : messages[i] \in ShownMessages
  BY LenProperties, ElementOfSeq
<1>3. \A i \in 1 .. N : Own(i) \in Nat
  BY <1>2, PayloadsAre DEF ShownMessages
<1> HIDE DEF Own, N
<1>4. 0 \in S
  <2> DEFINE f == [i \in 0 .. 0 |-> 0]
  <2>1. f \in [0 .. 0 -> Nat] /\ f[0] = 0
    OBVIOUS
  <2> HIDE DEF f
  <2>2. \A i \in 1 .. 0 : f[i] = f[i - 1] + Own(i)
    OBVIOUS
  <2> QED
    BY <2>1, <2>2
<1>5. ASSUME NEW n \in Nat, n \in S PROVE n + 1 \in S
  <2> HIDE DEF Summed
  <2> SUFFICES ASSUME n + 1 <= N PROVE Summed(n + 1)
    OBVIOUS
  <2>0. n <= N /\ Summed(n)
    BY <1>2, <1>5
  <2>1. PICK f \in [0 .. n -> Nat] : f[0] = 0 /\ \A i \in 1 .. n : f[i] = f[i - 1] + Own(i)
    BY <2>0 DEF Summed
  <2> DEFINE g == [i \in 0 .. n + 1 |-> IF i = n + 1 THEN f[n] + Own(n + 1) ELSE f[i]]
  <2>2. f[n] \in Nat /\ Own(n + 1) \in Nat /\ f[n] + Own(n + 1) \in Nat
    <3>1. n + 1 \in 1 .. N
      BY <1>2
    <3> QED
      BY <1>3, <3>1
  <2>3. g \in [0 .. n + 1 -> Nat] /\ g[n + 1] = f[n] + Own(n + 1) /\ \A i \in 0 .. n : g[i] = f[i]
    BY <2>2
  <2> HIDE DEF g
  <2>4. \A i \in 1 .. n + 1 : g[i] = g[i - 1] + Own(i)
    <3> TAKE i \in 1 .. n + 1
    <3>1. CASE i = n + 1
      <4>1. i - 1 = n /\ n \in 0 .. n
        BY <3>1
      <4> QED
        BY <2>3, <3>1, <4>1
    <3>2. CASE i # n + 1
      <4>1. i \in 1 .. n /\ i \in 0 .. n /\ i - 1 \in 0 .. n
        BY <3>2
      <4> QED
        BY <2>1, <2>3, <4>1
    <3> QED
      BY <3>1, <3>2
  <2>5. g[0] = 0
    BY <2>1, <2>3
  <2> QED
    BY <2>3, <2>4, <2>5 DEF Summed
<1>6. N \in S
  <2> HIDE DEF S
  <2> QED
    BY <1>2, <1>4, <1>5, EveryNat
<1>7. PICK f \in [0 .. N -> Nat] : f[0] = 0 /\ \A i \in 1 .. N : f[i] = f[i - 1] + Own(i)
  <2>1. Summed(N)
    <3> HIDE DEF Summed
    <3> QED
      BY <1>2, <1>6
  <2> QED
    BY <2>1
<1>8. f = Counts(f)
  <2>1. \A i \in 0 .. N : f[i] = IF i = 0 THEN 0 ELSE f[i - 1] + Own(i)
    <3> TAKE i \in 0 .. N
    <3>1. i = 0 \/ i \in 1 .. N
      BY <1>2
    <3> QED
      BY <1>7, <3>1
  <2>2. f = [i \in 0 .. N |-> f[i]]
    OBVIOUS
  <2> QED
    BY <2>1, <2>2
<1>9. count = Counts(count)
  <2> HIDE DEF Counts
  <2> QED
    BY <1>8
<1> HIDE DEF count
<1>10. \A i \in 0 .. N : count[i] = IF i = 0 THEN 0 ELSE count[i - 1] + Own(i)
  <2> DEFINE counts == Counts(count)
  <2>1. \A i \in 0 .. N : counts[i] = IF i = 0 THEN 0 ELSE count[i - 1] + Own(i)
    OBVIOUS
  <2> HIDE DEF counts
  <2>2. count = counts
    BY <1>9 DEF counts
  <2> QED
    BY <2>1, <2>2
<1>11. count[0] = 0
  BY <1>2, <1>10
<1>12. \A i \in 1 .. N : count[i] = count[i - 1] + Own(i)
  <2> TAKE i \in 1 .. N
  <2>1. i \in 0 .. N /\ i # 0
    BY <1>2
  <2> QED
    BY <1>10, <2>1
<1> DEFINE T == {n \in Nat : n <= N => count[n] \in Nat}
<1>13. 0 \in T
  BY <1>11
<1>14. ASSUME NEW n \in Nat, n \in T PROVE n + 1 \in T
  <2> SUFFICES ASSUME n + 1 <= N PROVE count[n + 1] \in Nat
    OBVIOUS
  <2>1. n + 1 \in 1 .. N /\ n + 1 - 1 = n /\ n <= N
    BY <1>2
  <2> QED
    BY <1>3, <1>12, <1>14, <2>1
<1>15. \A n \in Nat : n \in T
  <2> HIDE DEF T
  <2> QED
    BY <1>13, <1>14, EveryNat
<1>16. \A i \in 0 .. N : count[i] \in Nat
  BY <1>2, <1>15
<1>17. \A i \in 1 .. N :
          Tally(messages, out, i) = Tally(messages, out, i - 1)
              + IF messages[i].out = out THEN Len(messages[i].payload) ELSE 0
  BY <1>1, <1>12 DEF Own
<1> QED
  BY <1>1, <1>11, <1>16, <1>17 DEF N

\* One message more adds its lines, if it is of the direction.
LEMMA TallyMore ==
    ASSUME NEW messages \in Seq(ShownMessages), NEW m \in ShownMessages, NEW out
    PROVE  Tally(Append(messages, m), out, Len(messages) + 1)
               = Tally(messages, out, Len(messages)) + IF m.out = out THEN Len(m.payload) ELSE 0
<1> DEFINE more == Append(messages, m)
           N == Len(messages)
<1>1. /\ more \in Seq(ShownMessages) /\ N \in Nat /\ Len(more) = N + 1 /\ more[N + 1] = m
      /\ \A i \in 1 .. N : more[i] = messages[i]
  BY AppendProperties, LenProperties
<1>2. /\ Tally(messages, out, 0) = 0
      /\ \A i \in 1 .. N : Tally(messages, out, i) = Tally(messages, out, i - 1)
            + IF messages[i].out = out THEN Len(messages[i].payload) ELSE 0
  BY TallyIs
<1> HIDE DEF more
<1>3. /\ Tally(more, out, 0) = 0
      /\ \A i \in 1 .. N + 1 : Tally(more, out, i) = Tally(more, out, i - 1)
            + IF more[i].out = out THEN Len(more[i].payload) ELSE 0
  <2>1. \A i \in 1 .. Len(more) : Tally(more, out, i) = Tally(more, out, i - 1)
            + IF more[i].out = out THEN Len(more[i].payload) ELSE 0
    BY <1>1, TallyIs
  <2>2. Tally(more, out, 0) = 0
    BY <1>1, TallyIs
  <2> QED
    BY <1>1, <2>1, <2>2
<1> HIDE DEF N
<1> DEFINE S == {n \in Nat : n <= N => Tally(more, out, n) = Tally(messages, out, n)}
<1>4. 0 \in S
  BY <1>2, <1>3
<1>5. ASSUME NEW n \in Nat, n \in S PROVE n + 1 \in S
  <2> SUFFICES ASSUME n + 1 <= N PROVE Tally(more, out, n + 1) = Tally(messages, out, n + 1)
    OBVIOUS
  <2>1. n + 1 \in 1 .. N /\ n + 1 \in 1 .. N + 1 /\ n + 1 - 1 = n /\ n <= N
    BY <1>1
  <2> QED
    BY <1>1, <1>2, <1>3, <1>5, <2>1
<1>6. N \in S
  <2> HIDE DEF S
  <2> QED
    BY <1>1, <1>4, <1>5, EveryNat
<1>7. N + 1 \in 1 .. N + 1 /\ N + 1 - 1 = N /\ N <= N
  BY <1>1
<1> QED
  BY <1>1, <1>3, <1>6, <1>7 DEF more, N

\* What is in the variables of the terminal.
TerminalTypes ==
    /\ display_type_ \in Formats
    /\ written = [messages |-> written.messages, first |-> written.first]
    /\ written.messages \in Seq(ShownMessages)
    /\ written.first \in 1 .. Len(written.messages) + 1
    /\ \E S : terminal_ \in Seq(S)

TerminalInvariant == TerminalTypes /\ Screen!TerminalTellsTheTruth

\* The lines of a message on the screen are those of its whole.
LineIsTrue(block) ==
    LET line == block.line  m == written.messages[line.message]
    IN  /\ line.message \in written.first .. Len(written.messages)
        /\ line.at \in DOMAIN Screen!Whole(m) /\ line.holds = Screen!Whole(m)[line.at]
        /\ m.format = display_type_
        /\ ~Screen!Marked(m) =>
             block.colour = IF line.at = 1 /\ line.holds = "hex" THEN "hex"
                            ELSE IF m.out THEN "sent" ELSE "received"

LinesAreThere ==
    \A n \in written.first .. Len(written.messages) :
        \A at \in DOMAIN Screen!Whole(written.messages[n]) :
            \E i \in DOMAIN terminal_ : terminal_[i].line.message = n /\ terminal_[i].line.at = at

\* The parts of the truth.
LEMMA TruthIs ==
    Screen!TerminalTellsTheTruth <=>
        /\ LinesAreThere
        /\ \A i, j \in DOMAIN terminal_ :
              i < j => Screen!Above(terminal_[i].line, terminal_[j].line)
        /\ \A i \in DOMAIN terminal_ : LineIsTrue(terminal_[i])
        /\ send_byte_count_ = Tally(written.messages, TRUE, Len(written.messages))
        /\ recv_byte_count_ = Tally(written.messages, FALSE, Len(written.messages))
<1>1. \A out : Screen!Counted(out, Len(written.messages))
                   = Tally(written.messages, out, Len(written.messages))
  BY DEF Screen!Counted, Tally
<1> QED
  BY <1>1 DEF Screen!TerminalTellsTheTruth, LinesAreThere, LineIsTrue, Screen!Message

\* What a message brings: a line for each of its whole, below the others, and its
\* lines to the count.
LEMMA MessageIsShown ==
    ASSUME TerminalInvariant, NEW out \in BOOLEAN, NEW payload \in Screen!Payloads,
           Screen!showMessage(out, payload)
    PROVE  TerminalInvariant'
<1> DEFINE N == Len(written.messages)
           first == written.first
           m == [out |-> out, payload |-> payload, format |-> display_type_]
           text == Screen!Whole(m)
           K == Len(text)
           lines == Screen!Lines(N + 1, out, payload)
           block == Screen!Highlighted(lines)
           T == Len(terminal_)
<1>1. TerminalTypes /\ Screen!TerminalTellsTheTruth
  BY DEF TerminalInvariant
<1>2. /\ written.messages \in Seq(ShownMessages) /\ N \in Nat /\ first \in 1 .. N + 1
      /\ display_type_ \in Formats
  BY <1>1, LenProperties DEF TerminalTypes
<1>3. /\ terminal_' = terminal_ \o block
      /\ send_byte_count_' = send_byte_count_ + IF out THEN Len(payload) ELSE 0
      /\ recv_byte_count_' = recv_byte_count_ + IF out THEN 0 ELSE Len(payload)
      /\ written' = [written EXCEPT !.messages = Append(@, m)]
      /\ display_type_' = display_type_
  BY DEF Screen!showMessage
<1>4. /\ written'.messages = Append(written.messages, m) /\ written'.first = first
      /\ written' = [messages |-> written'.messages, first |-> written'.first]
  <2>1. PICK messages, since_ : written = [messages |-> messages, first |-> since_]
    BY <1>1 DEF TerminalTypes
  <2> HIDE DEF m
  <2> QED
    BY <1>3, <2>1
<1>5. m \in ShownMessages /\ m.out = out /\ m.payload = payload /\ m.format = display_type_
  BY <1>2 DEF ShownMessages
<1>6. /\ written'.messages \in Seq(ShownMessages) /\ Len(written'.messages) = N + 1
      /\ written'.messages[N + 1] = m
      /\ \A n \in 1 .. N : written'.messages[n] = written.messages[n]
  <2> HIDE DEF m
  <2> QED
    BY <1>2, <1>4, <1>5, AppendProperties
<1>7. /\ text = IF display_type_ = "HEX" THEN <<"hex">> ELSE payload
      /\ K \in Nat /\ DOMAIN text = 1 .. K
  <2>1. text = IF display_type_ = "HEX" THEN <<"hex">> ELSE payload
    BY <1>5 DEF Screen!Whole
  <2>2. Len(<<"hex">>) = 1 /\ DOMAIN <<"hex">> = 1 .. 1
    OBVIOUS
  <2>3. Len(payload) \in Nat /\ DOMAIN payload = 1 .. Len(payload)
    BY PayloadsAre
  <2> HIDE DEF text
  <2> QED
    BY <2>1, <2>2, <2>3
<1> HIDE DEF m, text
<1>8. lines = [i \in 1 .. K |-> [message |-> N + 1, at |-> i, out |-> out, holds |-> text[i]]]
  BY <1>7 DEF Screen!Lines
<1>9. /\ DOMAIN lines = 1 .. K
      /\ \A i \in 1 .. K : /\ lines[i].message = N + 1 /\ lines[i].at = i /\ lines[i].out = out
                           /\ lines[i].holds = text[i]
  BY <1>8
<1> HIDE DEF lines, K, block
<1>10. /\ DOMAIN block = 1 .. K /\ \A i \in 1 .. K : block[i].line = lines[i]
       /\ (\A i \in 1 .. K : lines[i].holds \notin {"[Tx]", "sent", "received"}) =>
             \A i \in 1 .. K : block[i].colour =
                 IF i = 1 /\ lines[i].holds = "hex" THEN "hex"
                 ELSE IF out THEN "sent" ELSE "received"
  BY <1>7, <1>9, LinesAreColoured DEF block
<1>11. ASSUME ~Screen!Marked(m), NEW i \in 1 .. K
       PROVE  lines[i].holds \notin {"[Tx]", "sent", "received"}
  <2>1. CASE display_type_ = "HEX"
    <3>1. text[i] = "hex"
      <4>1. text = <<"hex">> /\ K = 1
        BY <1>7, <2>1 DEF K
      <4> QED
        BY <4>1
    <3> QED
      BY <1>9, <3>1
  <2>2. CASE display_type_ # "HEX"
    <3>1. text = payload /\ m.format = "TEXT"
      BY <1>2, <1>5, <1>7, <2>2 DEF Formats
    <3>2. payload[i] \in Screen!ToSet(payload)
      BY <1>7, <3>1 DEF Screen!ToSet
    <3> QED
      BY <1>5, <1>9, <1>11, <3>1, <3>2 DEF Screen!Marked
  <2> QED
    BY <2>1, <2>2
<1>12. /\ \E S : terminal_' \in Seq(S)
       /\ T \in Nat /\ DOMAIN terminal_ = 1 .. T /\ DOMAIN terminal_' = 1 .. T + K
       /\ \A i \in 1 .. T : terminal_'[i] = terminal_[i]
       /\ \A i \in 1 .. K : terminal_'[T + i] = block[i]
  <2>1. PICK R : terminal_ \in Seq(R)
    BY <1>1 DEF TerminalTypes
  <2>2. PICK B : block \in Seq(B) /\ Len(block) = K
    <3> DEFINE B == {block[i] : i \in 1 .. K}
               b == [i \in 1 .. K |-> block[i]]
    <3>1. block = b
      <4>1. block = [i \in 1 .. K |-> block[i]]
        BY <1>7, <1>9, HighlightedIs DEF block
      <4> QED
        BY <4>1
    <3>2. b \in [1 .. K -> B]
      OBVIOUS
    <3> HIDE DEF b, B
    <3> QED
      BY <1>7, <3>1, <3>2, FunctionIsSequence
  <2> DEFINE S == R \cup B
  <2>3. terminal_ \in Seq(S) /\ block \in Seq(S) /\ T \in Nat /\ DOMAIN terminal_ = 1 .. T
    BY <2>1, <2>2
  <2> HIDE DEF S, T
  <2>4. /\ terminal_ \o block \in Seq(S) /\ Len(terminal_ \o block) = T + K
        /\ \A i \in 1 .. T + K : (terminal_ \o block)[i] =
               IF i <= T THEN terminal_[i] ELSE block[i - T]
    BY <2>2, <2>3, ConcatProperties DEF T
  <2>5. DOMAIN terminal_' = 1 .. T + K
    BY <1>3, <2>4, LenProperties
  <2>6. \A i \in 1 .. T : terminal_'[i] = terminal_[i]
    <3> TAKE i \in 1 .. T
    <3>1. i \in 1 .. T + K /\ i <= T
      BY <1>7, <2>3
    <3> QED
      BY <1>3, <2>4, <3>1
  <2>7. \A i \in 1 .. K : terminal_'[T + i] = block[i]
    <3> TAKE i \in 1 .. K
    <3>1. PICK j : j = T + i
      OBVIOUS
    <3>2. j \in 1 .. T + K /\ ~(j <= T) /\ j - T = i
      BY <1>7, <2>3, <3>1
    <3>3. (terminal_ \o block)[j] = IF j <= T THEN terminal_[j] ELSE block[j - T]
      BY <2>4, <3>2
    <3>4. (terminal_ \o block)[j] = block[i]
      BY <3>2, <3>3, Zenon
    <3> QED
      BY <1>3, <3>1, <3>4
  <2> QED
    BY <1>3, <2>3, <2>4, <2>5, <2>6, <2>7
<1> HIDE DEF T
<1>13. \A i \in 1 .. T + K : i \in 1 .. T \/ \E k \in 1 .. K : i = T + k
  <2> TAKE i \in 1 .. T + K
  <2>1. i \in 1 .. T \/ (i - T \in 1 .. K /\ i = T + (i - T))
    BY <1>7, <1>12
  <2> QED
    BY <2>1
<1>14. \A i \in 1 .. K : T + i \in 1 .. T + K /\ \A j \in 1 .. T : j < T + i /\ j \in 1 .. T + K
  BY <1>7, <1>12
<1>15. /\ LinesAreThere
       /\ \A i, j \in 1 .. T : i < j => Screen!Above(terminal_[i].line, terminal_[j].line)
       /\ \A i \in 1 .. T : LineIsTrue(terminal_[i])
       /\ send_byte_count_ = Tally(written.messages, TRUE, N)
       /\ recv_byte_count_ = Tally(written.messages, FALSE, N)
  BY <1>1, <1>12, TruthIs
<1>16. \A n \in 1 .. N + 1 : n = N + 1 \/ n \in 1 .. N
  BY <1>2
<1>17. /\ first .. N + 1 \subseteq 1 .. N + 1 /\ first .. N \subseteq 1 .. N
       /\ N + 1 \in first .. N + 1 /\ first .. N \subseteq first .. N + 1
       /\ \A n \in first .. N + 1 : n = N + 1 \/ n \in first .. N
       /\ \A n \in first .. N : n < N + 1
  BY <1>2
<1> HIDE DEF N, first
<1>18. LinesAreThere'
  <2>1. ASSUME NEW n \in first .. N + 1, NEW at \in DOMAIN Screen!Whole(written'.messages[n])
        PROVE  \E i \in DOMAIN terminal_' :
                   terminal_'[i].line.message = n /\ terminal_'[i].line.at = at
    <3>1. CASE n = N + 1
      <4>1. at \in 1 .. K
        BY <1>6, <1>7, <2>1, <3>1 DEF text
      <4>2. T + at \in DOMAIN terminal_' /\ terminal_'[T + at].line = lines[at]
        BY <1>10, <1>12, <1>14, <4>1
      <4> QED
        BY <1>9, <3>1, <4>1, <4>2
    <3>2. CASE n \in first .. N
      <4>1. written'.messages[n] = written.messages[n]
        BY <1>6, <1>17, <3>2
      <4>4. at \in DOMAIN Screen!Whole(written.messages[n])
        BY <4>1, Zenon
      <4>5. \E i \in DOMAIN terminal_ :
                terminal_[i].line.message = n /\ terminal_[i].line.at = at
        BY <1>15, <3>2, <4>4, Zenon DEF LinesAreThere, first, N
      <4>2. PICK i \in 1 .. T : terminal_[i].line.message = n /\ terminal_[i].line.at = at
        BY <1>12, <4>5
      <4>3. i \in 1 .. T + K
        BY <1>7, <1>12
      <4> QED
        BY <1>12, <4>2, <4>3
    <3> QED
      BY <1>17, <3>1, <3>2
  <2>2. \A n : Screen!Whole(written.messages[n])' = Screen!Whole(written'.messages[n])
    BY DEF Screen!Whole
  <2>3. written'.first = first /\ Len(written'.messages) = N + 1
    BY <1>4, <1>6 DEF first
  <2>4. \A n \in written'.first .. Len(written'.messages) :
            \A at \in DOMAIN Screen!Whole(written.messages[n])' :
                \E i \in DOMAIN terminal_' :
                    terminal_'[i].line.message = n /\ terminal_'[i].line.at = at
    BY <2>1, <2>2, <2>3, Zenon
  <2> QED
    BY <2>4, Zenon DEF LinesAreThere
<1>19. ASSUME NEW i \in DOMAIN terminal_' PROVE LineIsTrue(terminal_[i])'
  <2>1. CASE i \in 1 .. T
    <3>1. LineIsTrue(terminal_[i]) /\ terminal_'[i] = terminal_[i]
      BY <1>12, <1>15, <2>1
    <3> DEFINE n == terminal_[i].line.message
    <3>2. n \in first .. N
      BY <3>1 DEF LineIsTrue, first, N
    <3>3. written'.messages[n] = written.messages[n] /\ n \in first .. N + 1
      BY <1>6, <1>17, <3>2
    <3> QED
      BY <1>3, <1>4, <1>6, <3>1, <3>3 DEF LineIsTrue, first, Screen!Whole, Screen!Marked
  <2>2. ASSUME NEW k \in 1 .. K, i = T + k PROVE LineIsTrue(terminal_[i])'
    <3>1. terminal_'[i] = block[k] /\ block[k].line = lines[k]
      BY <1>10, <1>12, <2>2
    <3>2. /\ lines[k].message = N + 1 /\ lines[k].at = k /\ lines[k].holds = text[k]
          /\ k \in DOMAIN text /\ written'.messages[N + 1] = m
      BY <1>6, <1>7, <1>9
    <3>3. ~Screen!Marked(m) => block[k].colour =
              IF k = 1 /\ lines[k].holds = "hex" THEN "hex" ELSE IF out THEN "sent" ELSE "received"
      BY <1>10, <1>11
    <3> DEFINE block_ == terminal_'[i]  line == lines[k]
    <3>4. block_.line.message = N + 1 /\ written'.messages[block_.line.message] = m
      BY <3>1, <3>2
    <3>5. N + 1 \in written'.first .. Len(written'.messages)
      BY <1>4, <1>6, <1>17 DEF first
    <3>6. Screen!Whole(m) = text
      BY <1>5 DEF Screen!Whole, text
    <3>7. /\ block_.line.at \in DOMAIN Screen!Whole(m)
          /\ block_.line.holds = Screen!Whole(m)[block_.line.at]
      BY <3>1, <3>2, <3>6
    <3>8. m.format = display_type_' /\ m.out = out
      BY <1>3, <1>5
    <3>9. ~Screen!Marked(m) =>
              block_.colour = IF block_.line.at = 1 /\ block_.line.holds = "hex" THEN "hex"
                              ELSE IF m.out THEN "sent" ELSE "received"
      BY <3>1, <3>2, <3>3, <3>8
    <3> HIDE DEF block_, text
    <3> QED
      BY <3>4, <3>5, <3>7, <3>8, <3>9 DEF LineIsTrue, block_, Screen!Whole, Screen!Marked
  <2> QED
    BY <1>12, <1>13, <2>1, <2>2
<1>20. \A i, j \in DOMAIN terminal_' :
           i < j => Screen!Above(terminal_'[i].line, terminal_'[j].line)
  <2> TAKE i, j \in DOMAIN terminal_'
  <2> HAVE i < j
  <2>1. CASE i \in 1 .. T /\ j \in 1 .. T
    BY <1>12, <1>15, <2>1
  <2>2. ASSUME i \in 1 .. T, NEW k \in 1 .. K, j = T + k
        PROVE  Screen!Above(terminal_'[i].line, terminal_'[j].line)
    <3>1. LineIsTrue(terminal_[i]) /\ terminal_'[i] = terminal_[i]
      BY <1>12, <1>15, <2>2
    <3>2. terminal_[i].line.message < N + 1
      BY <1>17, <3>1 DEF LineIsTrue, first, N
    <3>3. terminal_'[j].line.message = N + 1
      BY <1>9, <1>10, <1>12, <2>2
    <3> QED
      BY <3>1, <3>2, <3>3 DEF Screen!Above
  <2>3. ASSUME NEW h \in 1 .. K, i = T + h, NEW k \in 1 .. K, j = T + k
        PROVE  Screen!Above(terminal_'[i].line, terminal_'[j].line)
    <3>1. h < k
      BY <1>7, <1>12, <2>3
    <3>2. terminal_'[i].line = lines[h] /\ terminal_'[j].line = lines[k]
      BY <1>10, <1>12, <2>3
    <3> QED
      BY <1>9, <3>1, <3>2 DEF Screen!Above
  <2>4. ASSUME NEW h \in 1 .. K, i = T + h, j \in 1 .. T PROVE FALSE
    BY <1>7, <1>12, <2>4
  <2> QED
    BY <1>12, <1>13, <2>1, <2>2, <2>3, <2>4
<1>21. /\ send_byte_count_' = Tally(written'.messages, TRUE, N + 1)
       /\ recv_byte_count_' = Tally(written'.messages, FALSE, N + 1)
  <2>1. \A o \in BOOLEAN : Tally(written'.messages, o, N + 1)
             = Tally(written.messages, o, N) + IF m.out = o THEN Len(m.payload) ELSE 0
    BY <1>2, <1>4, <1>5, TallyMore DEF N
  <2>2. Tally(written'.messages, TRUE, N + 1)
             = Tally(written.messages, TRUE, N) + IF out THEN Len(payload) ELSE 0
    BY <1>5, <2>1
  <2>3. Tally(written'.messages, FALSE, N + 1)
             = Tally(written.messages, FALSE, N) + IF out THEN 0 ELSE Len(payload)
    BY <1>5, <2>1
  <2> QED
    BY <1>3, <1>15, <2>2, <2>3
<1>22. Screen!TerminalTellsTheTruth'
  <2>1. (Screen!TerminalTellsTheTruth <=>
            /\ LinesAreThere
            /\ \A i, j \in DOMAIN terminal_ :
                  i < j => Screen!Above(terminal_[i].line, terminal_[j].line)
            /\ \A i \in DOMAIN terminal_ : LineIsTrue(terminal_[i])
            /\ send_byte_count_ = Tally(written.messages, TRUE, Len(written.messages))
            /\ recv_byte_count_ = Tally(written.messages, FALSE, Len(written.messages)))'
    BY TruthIs, PTL
  <2>2. \A i, j \in DOMAIN terminal_' :
            i < j => Screen!Above(terminal_[i].line, terminal_[j].line)'
    BY <1>20 DEF Screen!Above
  <2> QED
    BY <1>6, <1>18, <1>19, <1>21, <2>1, <2>2
<1>23. TerminalTypes'
  <2>1. written'.first \in 1 .. Len(written'.messages) + 1
    BY <1>2, <1>4, <1>6 DEF first, N
  <2> QED
    BY <1>2, <1>3, <1>4, <1>6, <1>12, <2>1 DEF TerminalTypes
<1> QED
  BY <1>22, <1>23 DEF TerminalInvariant

\* No step of the terminal makes it tell anything else.
LEMMA TerminalInvariantStep ==
    ASSUME TerminalInvariant, [Screen!Next]_(Screen!vars)
    PROVE  TerminalInvariant'
<1>1. TerminalTypes /\ Screen!TerminalTellsTheTruth
  BY DEF TerminalInvariant
<1>2. ASSUME UNCHANGED <<display_type_, terminal_, send_byte_count_, recv_byte_count_, written>>
      PROVE  TerminalInvariant'
  <2>1. TerminalTypes'
    BY <1>1, <1>2, Zenon DEF TerminalTypes
  <2>2. Screen!TerminalTellsTheTruth'
    <3>1. (Screen!TerminalTellsTheTruth <=>
              /\ LinesAreThere
              /\ \A i, j \in DOMAIN terminal_ :
                    i < j => Screen!Above(terminal_[i].line, terminal_[j].line)
              /\ \A i \in DOMAIN terminal_ : LineIsTrue(terminal_[i])
              /\ send_byte_count_ = Tally(written.messages, TRUE, Len(written.messages))
              /\ recv_byte_count_ = Tally(written.messages, FALSE, Len(written.messages)))'
      BY TruthIs, PTL
    <3>2. /\ display_type_' = display_type_ /\ terminal_' = terminal_ /\ written' = written
          /\ send_byte_count_' = send_byte_count_ /\ recv_byte_count_' = recv_byte_count_
      BY <1>2
    <3>3. LinesAreThere'
      <4>1. LinesAreThere
        BY <1>1, TruthIs
      <4>2. \A n : Screen!Whole(written.messages[n])' = Screen!Whole(written.messages[n])
        BY <3>2 DEF Screen!Whole
      <4> QED
        BY <3>2, <4>1, <4>2 DEF LinesAreThere
    <3>4. (\A i, j \in DOMAIN terminal_ :
               i < j => Screen!Above(terminal_[i].line, terminal_[j].line))'
      BY <1>1, <3>2, TruthIs, Zenon DEF Screen!Above
    <3>5. (\A i \in DOMAIN terminal_ : LineIsTrue(terminal_[i]))'
      BY <1>1, <3>2, TruthIs, Zenon DEF LineIsTrue, Screen!Whole, Screen!Marked
    <3>6. (/\ send_byte_count_ = Tally(written.messages, TRUE, Len(written.messages))
           /\ recv_byte_count_ = Tally(written.messages, FALSE, Len(written.messages)))'
      BY <1>1, <3>2, TruthIs, Zenon
    <3> QED
      BY <3>1, <3>3, <3>4, <3>5, <3>6
  <2> QED
    BY <2>1, <2>2 DEF TerminalInvariant
<1>3. ASSUME Screen!Cleared, display_type_' \in Formats,
             UNCHANGED <<send_byte_count_, recv_byte_count_>>
      PROVE  TerminalInvariant'
  <2> DEFINE N == Len(written.messages)
  <2>1. /\ terminal_' = <<>> /\ written'.messages = written.messages /\ written'.first = N + 1
        /\ written' = [messages |-> written'.messages, first |-> written'.first]
    <3>1. PICK messages, since_ : written = [messages |-> messages, first |-> since_]
      BY <1>1 DEF TerminalTypes
    <3> QED
      BY <1>3, <3>1 DEF Screen!Cleared
  <2>2. N \in Nat /\ written.messages \in Seq(ShownMessages)
    BY <1>1, LenProperties DEF TerminalTypes
  <2>3. TerminalTypes'
    <3>1. \E S : <<>> \in Seq(S)
      OBVIOUS
    <3>2. N + 1 \in 1 .. N + 1
      BY <2>2
    <3> QED
      BY <1>3, <2>1, <2>2, <3>1, <3>2 DEF TerminalTypes
  <2>4. \A out : Screen!Counted(out, N) = Screen!Counted(out, N)'
    BY <2>1 DEF Screen!Counted
  <2>5. DOMAIN <<>> = {} /\ N + 1 .. N = {}
    BY <2>2
  <2>6. /\ send_byte_count_ = Screen!Counted(TRUE, N)
        /\ recv_byte_count_ = Screen!Counted(FALSE, N)
    BY <1>1 DEF Screen!TerminalTellsTheTruth
  <2>7. Screen!TerminalTellsTheTruth'
    BY <1>3, <2>1, <2>4, <2>5, <2>6 DEF Screen!TerminalTellsTheTruth
  <2> QED
    BY <2>3, <2>7 DEF TerminalInvariant
<1>4. display_type_ \in Formats
  BY <1>1 DEF TerminalTypes
<1>5. CASE Screen!clear_history
  BY <1>3, <1>4, <1>5 DEF Screen!clear_history
<1>6. ASSUME NEW type \in {"TEXT", "HEX"}, Screen!setDisplayType(type) PROVE TerminalInvariant'
  BY <1>3, <1>6 DEF Screen!setDisplayType, Formats
<1>7. CASE Screen!addDisplayWidget
  BY <1>2, <1>7 DEF Screen!addDisplayWidget
<1>8. ASSUME NEW idx \in {0, 1}, Screen!switchPage(idx) PROVE TerminalInvariant'
  BY <1>2, <1>8 DEF Screen!switchPage
<1>9. CASE UNCHANGED Screen!vars
  BY <1>2, <1>9 DEF Screen!vars
<1> QED
  BY <1>5, <1>6, <1>7, <1>8, <1>9, MessageIsShown DEF Screen!Next

\* The terminal tells the truth, always.
LEMMA TerminalInvariantAlways == Screen!Spec => []TerminalInvariant
<1>1. Screen!Init => TerminalInvariant
  <2> SUFFICES ASSUME Screen!Init PROVE TerminalInvariant
    OBVIOUS
  <2>1. /\ display_type_ = "TEXT" /\ terminal_ = <<>> /\ send_byte_count_ = 0
        /\ recv_byte_count_ = 0 /\ written = [messages |-> <<>>, first |-> 1]
    BY DEF Screen!Init
  <2>2. written.messages = <<>> /\ written.first = 1 /\ Len(<<>>) = 0 /\ <<>> \in Seq(ShownMessages)
    BY <2>1
  <2>3. TerminalTypes
    BY <2>1, <2>2 DEF TerminalTypes, Formats
  <2>4. \A out : Tally(written.messages, out, Len(written.messages)) = 0
    BY <2>2, TallyIs
  <2>5. DOMAIN <<>> = {} /\ 1 .. 0 = {}
    OBVIOUS
  <2>6. LinesAreThere
    BY <2>1, <2>2, <2>5 DEF LinesAreThere
  <2> QED
    BY <2>1, <2>3, <2>4, <2>5, <2>6, TruthIs DEF TerminalInvariant
<1>2. TerminalInvariant /\ [Screen!Next]_(Screen!vars) => TerminalInvariant'
  BY TerminalInvariantStep
<1> QED
  BY <1>1, <1>2, PTL DEF Screen!Spec

-----------------------------------------------------------------------------
(* The parsers of a serial window *)

\* The least of some natural numbers.
LEMMA LeastIs ==
    ASSUME NEW S \in SUBSET Nat, S # {}
    PROVE  Min(S) \in S /\ \A m \in S : Min(S) <= m
  BY LeastNat DEF Min

\* Where a byte, and where two bytes, occur.
LEMMA ByteOccurs ==
    ASSUME NEW b \in Seq(Nat), NEW x \in Nat, NEW i \in Nat \ {0}
    PROVE  Occurrences(b, <<x>>, i) = {p \in i .. Len(b) : b[p] = x}
<1>1. Len(<<x>>) = 1 /\ <<x>> \in Seq(Nat) /\ <<x>>[1] = x
  OBVIOUS
<1>2. ASSUME NEW p \in i .. Len(b) PROVE SubSeq(b, p, p + Len(<<x>>) - 1) = <<x>> <=> b[p] = x
  <2> DEFINE cut == SubSeq(b, p, p)
  <2>1. \A j \in p .. p : b[j] \in Nat
    BY LenProperties
  <2>2. cut \in Seq(Nat) /\ Len(cut) = 1 /\ cut[1] = b[p]
    BY <2>1, SubSeqProperties
  <2>3. p + Len(<<x>>) - 1 = p
    BY <1>1
  <2>4. cut[1] = x => cut = <<x>>
    <3> HIDE DEF cut
    <3> QED
      BY <1>1, <2>2, SeqEqual
  <2> HIDE DEF cut
  <2> QED
    BY <1>1, <2>2, <2>3, <2>4 DEF cut
<1>3. Len(b) - Len(<<x>>) + 1 = Len(b)
  BY <1>1, LenProperties
<1> QED
  BY <1>2, <1>3 DEF Occurrences

\* Where two bytes occur one after the other.
LEMMA TwoBytesOccur ==
    ASSUME NEW b \in Seq(Nat), NEW x \in Nat, NEW y \in Nat, NEW i \in Nat \ {0}
    PROVE  Occurrences(b, <<x, y>>, i) = {p \in i .. Len(b) - 1 : b[p] = x /\ b[p + 1] = y}
<1>1. Len(<<x, y>>) = 2 /\ <<x, y>> \in Seq(Nat) /\ <<x, y>>[1] = x /\ <<x, y>>[2] = y
  OBVIOUS
<1>2. ASSUME NEW p \in i .. Len(b) - 1
      PROVE  SubSeq(b, p, p + Len(<<x, y>>) - 1) = <<x, y>> <=> b[p] = x /\ b[p + 1] = y
  <2> DEFINE cut == SubSeq(b, p, p + 1)
  <2>1. \A j \in p .. p + 1 : b[j] \in Nat
    BY LenProperties
  <2>2. cut \in Seq(Nat) /\ Len(cut) = 2 /\ cut[1] = b[p] /\ cut[2] = b[p + 1]
    BY <2>1, SubSeqProperties
  <2>3. p + Len(<<x, y>>) - 1 = p + 1
    BY <1>1
  <2>4. cut[1] = x /\ cut[2] = y => cut = <<x, y>>
    <3> HIDE DEF cut
    <3>1. \A j \in 1 .. 2 : j = 1 \/ j = 2
      OBVIOUS
    <3> QED
      BY <1>1, <2>2, <3>1, SeqEqual
  <2> HIDE DEF cut
  <2> QED
    BY <1>1, <2>2, <2>3, <2>4 DEF cut
<1>3. Len(b) - Len(<<x, y>>) + 1 = Len(b) - 1
  BY <1>1, LenProperties
<1> QED
  BY <1>2, <1>3 DEF Occurrences

\* Where a pattern can occur: an empty one behind the last byte too.
LEMMA OccursWithin ==
    ASSUME NEW b \in Seq(Nat), NEW pattern \in Seq(Nat), NEW i \in Nat \ {0}
    PROVE  /\ Occurrences(b, pattern, i) \subseteq i .. Len(b) + 1
           /\ Occurrences(b, pattern, i) \in SUBSET Nat
<1>1. Len(b) \in Nat /\ Len(pattern) \in Nat
  BY LenProperties
<1> QED
  BY <1>1 DEF Occurrences

-----------------------------------------------------------------------------
(* Frames *)

\* Rules by their uuid.
RuleTable(R) == DOMAIN R \subseteq Nat /\ R \in [DOMAIN R -> Rules]

\* The frame that is read at a place: there is none, or it has a rule, a first
\* and a last byte, is too short yet, and has a value.
Ends(b, R, i) == i > Len(b) \/ Matching(b, R, i) = {}
FrameRule(b, R, i) == R[BestRule(b, R, i)]
FrameAt(b, R, i) == Min(Occurrences(b, FrameRule(b, R, i).header, i))
FrameLast(b, R, i) == Min({Len(b), FrameEnd(b, FrameRule(b, R, i), FrameAt(b, R, i))})
FrameWaits(b, R, i) ==
    LET rule == FrameRule(b, R, i)
    IN  Len(b) - FrameAt(b, R, i) + 1 < rule.headerLen + rule.typeOffset + rule.lenOffset
FrameValue(b, R, i) ==
    PayloadValue(SubSeq(b, FrameAt(b, R, i) + FrameRule(b, R, i).lenOffset + 1, FrameLast(b, R, i)))

\* A rule that matches is found, and none of the others matches earlier.
LEMMA BestIs ==
    ASSUME NEW b \in Seq(Nat), NEW R, RuleTable(R), NEW i \in Nat \ {0}, Matching(b, R, i) # {}
    PROVE  /\ BestRule(b, R, i) \in Matching(b, R, i)
           /\ FrameAt(b, R, i) \in Occurrences(b, FrameRule(b, R, i).header, i)
           /\ FrameAt(b, R, i) \in i .. Len(b) + 1
           /\ \A v \in Matching(b, R, i) : \A p \in Occurrences(b, R[v].header, i) :
                  FrameAt(b, R, i) <= p
<1> DEFINE M == Matching(b, R, i)
           First(u) == Min(Occurrences(b, R[u].header, i))
<1>1. ASSUME NEW u \in M
      PROVE  /\ First(u) \in Occurrences(b, R[u].header, i) /\ First(u) \in i .. Len(b) + 1
             /\ \A p \in Occurrences(b, R[u].header, i) : First(u) <= p
             /\ First(u) \in Nat /\ u \in Nat
  <2>1. u \in DOMAIN R /\ Occurrences(b, R[u].header, i) # {}
    BY DEF Matching
  <2>2. R[u].header \in Seq(Nat) /\ u \in Nat
    BY <2>1 DEF RuleTable, Rules
  <2> DEFINE places == Occurrences(b, R[u].header, i)
  <2>3. places \in SUBSET Nat /\ places \subseteq i .. Len(b) + 1
    BY <2>2, OccursWithin
  <2>4. Min(places) \in places /\ \A p \in places : Min(places) <= p
    <3> HIDE DEF places
    <3>1. places # {}
      BY <2>1 DEF places
    <3> QED
      BY <2>3, <3>1, LeastIs
  <2> QED
    BY <2>2, <2>3, <2>4
<1> DEFINE Firsts == {First(u) : u \in M}
           Soonest == {u \in M : First(u) = Min(Firsts)}
<1>2. Firsts \in SUBSET Nat /\ Firsts # {}
  <2> HIDE DEF First, M
  <2> QED
    BY <1>1 DEF M
<1>3. Min(Firsts) \in Firsts /\ \A f \in Firsts : Min(Firsts) <= f
  <2> HIDE DEF Firsts
  <2> QED
    BY <1>2, LeastIs
<1>4. Soonest \in SUBSET Nat /\ Soonest # {}
  <2> HIDE DEF First, M
  <2> QED
    BY <1>1, <1>3
<1>5. Min(Soonest) \in Soonest /\ \A u \in Soonest : Min(Soonest) <= u
  <2> HIDE DEF Soonest
  <2> QED
    BY <1>4, LeastIs
<1> DEFINE Better(u, v) == First(u) < First(v) \/ (First(u) = First(v) /\ u <= v)
<1>6. \E u \in M : \A v \in M : Better(u, v)
  <2>1. ASSUME NEW v \in M PROVE Better(Min(Soonest), v)
    <3> HIDE DEF First, M
    <3>1. First(v) \in Firsts /\ First(v) \in Nat /\ Min(Firsts) \in Nat
      BY <1>1, <1>2, <1>3
    <3>2. First(Min(Soonest)) = Min(Firsts) /\ Min(Firsts) <= First(v)
      BY <1>3, <1>5, <3>1
    <3>3. First(v) = Min(Firsts) => Min(Soonest) <= v
      BY <1>5
    <3> HIDE DEF Firsts, Soonest
    <3> QED
      BY <3>1, <3>2, <3>3
  <2> HIDE DEF First, M, Better
  <2> QED
    BY <1>5, <2>1
<1>7. BestRule(b, R, i) = CHOOSE u \in M : \A v \in M : Better(u, v)
  BY DEF BestRule
<1>8. BestRule(b, R, i) \in M /\ \A v \in M : Better(BestRule(b, R, i), v)
  <2> HIDE DEF M, Better
  <2> QED
    BY <1>6, <1>7
<1>9. FrameAt(b, R, i) = First(BestRule(b, R, i))
  BY DEF FrameAt, FrameRule
<1>10. \A v \in M : FrameAt(b, R, i) <= First(v)
  <2> HIDE DEF M, First
  <2> QED
    BY <1>1, <1>8, <1>9
<1>11. ASSUME NEW v \in M, NEW p \in Occurrences(b, R[v].header, i) PROVE FrameAt(b, R, i) <= p
  <2>1. First(v) <= p /\ FrameAt(b, R, i) <= First(v) /\ First(v) \in Nat
    BY <1>1, <1>10
  <2>2. FrameAt(b, R, i) \in Nat /\ p \in Nat
    <3>1. v \in DOMAIN R
      BY DEF Matching
    <3>2. R[v].header \in Seq(Nat)
      BY <3>1 DEF RuleTable, Rules
    <3>3. p \in Nat
      BY <3>2, OccursWithin
    <3> HIDE DEF M, First
    <3> QED
      BY <1>1, <1>8, <1>9, <3>3
  <2> HIDE DEF First
  <2> QED
    BY <2>1, <2>2
<1> HIDE DEF First
<1> QED
  BY <1>1, <1>8, <1>9, <1>11 DEF M, FrameRule

\* A frame that is complete enough ends within the bytes, not before it begins.
LEMMA FrameWithin ==
    ASSUME NEW b \in Seq(Nat), NEW R, RuleTable(R), NEW i \in 1 .. Len(b) + 1,
           ~Ends(b, R, i), ~FrameWaits(b, R, i)
    PROVE  /\ FrameAt(b, R, i) \in i .. Len(b) /\ FrameLast(b, R, i) \in FrameAt(b, R, i) .. Len(b)
           /\ FrameEnd(b, FrameRule(b, R, i), FrameAt(b, R, i)) \in Nat
           /\ FrameValue(b, R, i) \in Nat
<1> DEFINE rule == FrameRule(b, R, i)
           at == FrameAt(b, R, i)
           last == FrameLast(b, R, i)
           end == FrameEnd(b, rule, at)
<1>1. Len(b) \in Nat /\ i \in Nat \ {0} /\ \A p \in 1 .. Len(b) : b[p] \in Nat
  BY LenProperties
<1>2. BestRule(b, R, i) \in Matching(b, R, i) /\ at \in i .. Len(b) + 1
  BY <1>1, BestIs DEF Ends
<1>3. rule \in Rules
  BY <1>2 DEF Matching, RuleTable, FrameRule
<1>4. rule.headerLen \in Nat \ {0} /\ rule.typeOffset \in Nat \ {0} /\ rule.lenOffset \in Nat
  BY <1>3 DEF Rules
<1> DEFINE h == rule.headerLen
           t == rule.typeOffset
           l == rule.lenOffset
<1>5. h \in Nat /\ t \in Nat /\ l \in Nat /\ h >= 1 /\ t >= 1 /\ Len(b) - at + 1 >= h + t + l
  <2> DEFINE least == h + t + l
             there == Len(b) - at + 1
  <2>1. ~(there < least)
    BY DEF FrameWaits
  <2>2. there \in Int
    <3> HIDE DEF at
    <3> QED
      BY <1>1, <1>2
  <2>3. h \in Nat /\ t \in Nat /\ l \in Nat /\ h >= 1 /\ t >= 1
    <3> HIDE DEF rule
    <3> QED
      BY <1>4
  <2> HIDE DEF h, t, l, there
  <2>4. least \in Int
    BY <2>3
  <2> HIDE DEF least
  <2>5. there >= least
    BY <2>1, <2>2, <2>4
  <2> QED
    BY <2>3, <2>5 DEF there, least
<1> HIDE DEF rule, at, h, t, l
<1>6. at \in i .. Len(b) /\ at + l \in 1 .. Len(b)
  BY <1>1, <1>2, <1>5
<1>7. end \in Nat /\ end >= at
  <2>1. b[at + l] \in Nat
    BY <1>1, <1>6
  <2>2. end = at + l + b[at + l]
    BY DEF FrameEnd, l
  <2> HIDE DEF end
  <2> QED
    BY <1>1, <1>5, <1>6, <2>1, <2>2
<1> HIDE DEF end
<1>8. last \in at .. Len(b)
  <2>1. {Len(b), end} \in SUBSET Nat /\ {Len(b), end} # {}
    BY <1>1, <1>7
  <2>2. last = Min({Len(b), end})
    BY DEF FrameLast, rule, at, end
  <2>3. last \in {Len(b), end} /\ \A m \in {Len(b), end} : last <= m
    BY <2>1, <2>2, LeastIs
  <2> HIDE DEF last
  <2> QED
    BY <1>1, <1>6, <1>7, <2>3
<1>9. FrameValue(b, R, i) \in Nat
  <2> DEFINE payload == SubSeq(b, at + l + 1, last)
  <2> HIDE DEF last
  <2>1. payload \in Seq(Nat)
    <3>1. \A p \in at + l + 1 .. last : b[p] \in Nat
      BY <1>1, <1>5, <1>6, <1>8
    <3>2. at + l + 1 \in Int /\ last \in Int
      BY <1>1, <1>5, <1>6, <1>8
    <3> QED
      BY <3>1, <3>2, SubSeqProperties
  <2>2. FrameValue(b, R, i) = PayloadValue(payload)
    BY DEF FrameValue, rule, at, l, last
  <2> HIDE DEF payload
  <2>3. Len(payload) \in Nat /\ \A j \in 1 .. Len(payload) : payload[j] \in Nat
    BY <2>1, LenProperties
  <2>4. payload # <<>> => Len(payload) # 0
    BY <2>1, EmptySeq
  <2>5. CASE payload = <<>>
    BY <2>2, <2>5 DEF PayloadValue
  <2>6. CASE payload # <<>> /\ Len(payload) = 1
    BY <2>2, <2>3, <2>6 DEF PayloadValue
  <2>7. CASE payload # <<>> /\ Len(payload) # 1
    <3>1. payload[1] \in Nat /\ payload[2] \in Nat
      <4>1. Len(payload) \in Nat /\ Len(payload) # 0 /\ Len(payload) # 1
        BY <2>3, <2>4, <2>7
      <4> DEFINE m == Len(payload)
      <4>2. 1 \in 1 .. m /\ 2 \in 1 .. m
        <5>1. m \in Nat /\ m # 0 /\ m # 1
          BY <4>1
        <5> HIDE DEF m
        <5> QED
          BY <5>1
      <4> QED
        BY <2>3, <4>2
    <3>2. PayloadValue(payload) = payload[2] * 256 + payload[1]
      BY <2>7 DEF PayloadValue
    <3> QED
      BY <2>2, <3>1, <3>2
  <2> QED
    BY <2>5, <2>6, <2>7
<1> QED
  BY <1>6, <1>7, <1>8, <1>9 DEF rule, at, end

\* What parseBuffer does at a place, if what it does at the later ones is f.
Backwards(f, N, stops, rest, own, next) ==
    [i \in 1 .. N |->
        IF i \in stops THEN [plotted |-> <<>>, left |-> rest[i]]
        ELSE [plotted |-> own[i] \o f[next[i]].plotted, left |-> f[next[i]].left]]

\* Where it does not stop, it goes on at a later place.
GoesOn(N, stops, next) == \A i \in 1 .. N : i \notin stops => next[i] \in i + 1 .. N

\* A recursion from the end of a sequence to its beginning has a solution.
LEMMA FromTheEnd ==
    ASSUME NEW N \in Nat, NEW stops, NEW rest, NEW own, NEW next,
           GoesOn(N, stops, next)
    PROVE  \E f : f = Backwards(f, N, stops, rest, own, next)
<1> DEFINE From(f, i) == IF i \in stops THEN [plotted |-> <<>>, left |-> rest[i]]
                         ELSE [plotted |-> own[i] \o f[next[i]].plotted,
                               left |-> f[next[i]].left]
           Solves(f, n) == DOMAIN f = 1 .. N /\ \A i \in 1 .. N : i > N - n => f[i] = From(f, i)
           S == {n \in Nat : n <= N => \E f : Solves(f, n)}
<1>1. 0 \in S
  <2> DEFINE f == [i \in 1 .. N |-> 0]
  <2>1. DOMAIN f = 1 .. N /\ \A i \in 1 .. N : ~(i > N - 0)
    OBVIOUS
  <2> HIDE DEF f, From
  <2> QED
    BY <2>1
<1>2. ASSUME NEW n \in Nat, n \in S PROVE n + 1 \in S
  <2> SUFFICES ASSUME n + 1 <= N PROVE \E f : Solves(f, n + 1)
    <3> HIDE DEF Solves
    <3> QED
      OBVIOUS
  <2>1. PICK f : Solves(f, n)
    <3> HIDE DEF Solves
    <3> QED
      BY <1>2
  <2> DEFINE k == N - n
             g == [i \in 1 .. N |-> IF i = k THEN From(f, k) ELSE f[i]]
  <2>2. k \in 1 .. N
    OBVIOUS
  <2>3. DOMAIN g = 1 .. N /\ g[k] = From(f, k) /\ \A i \in 1 .. N : i # k => g[i] = f[i]
    <3> HIDE DEF From, k
    <3> QED
      BY <2>2
  <2> HIDE DEF g
  <2>4. ASSUME NEW i \in 1 .. N, i >= k PROVE From(g, i) = From(f, i)
    <3>1. CASE i \in stops
      BY <3>1
    <3>2. CASE i \notin stops
      <4>1. next[i] \in 1 .. N /\ next[i] # k
        BY <2>4, <3>2 DEF GoesOn
      <4>2. g[next[i]] = f[next[i]]
        BY <2>3, <4>1
      <4> QED
        BY <3>2, <4>2
    <3> QED
      BY <3>1, <3>2
  <2>5. \A i \in 1 .. N : i > N - (n + 1) => g[i] = From(g, i)
    <3> TAKE i \in 1 .. N
    <3> HAVE i > N - (n + 1)
    <3>1. i >= k /\ (i # k => i > N - n)
      OBVIOUS
    <3> HIDE DEF From, k
    <3> QED
      BY <2>1, <2>3, <2>4, <3>1
  <2> HIDE DEF From
  <2> QED
    BY <2>3, <2>5
<1>3. N \in S
  <2> HIDE DEF S
  <2> QED
    BY <1>1, <1>2, EveryNat
<1>4. PICK f : Solves(f, N)
  <2> HIDE DEF Solves
  <2> QED
    BY <1>3
<1> DEFINE g == [i \in 1 .. N |-> f[i]]
<1>5. \A i \in 1 .. N : From(g, i) = From(f, i)
  <2> TAKE i \in 1 .. N
  <2>1. i \notin stops => g[next[i]] = f[next[i]]
    BY DEF GoesOn
  <2> HIDE DEF g
  <2> QED
    BY <2>1
<1>6. g = [i \in 1 .. N |-> From(g, i)]
  <2>1. \A i \in 1 .. N : g[i] = From(g, i)
    <3> HIDE DEF From
    <3> QED
      BY <1>4, <1>5
  <2>2. g = [i \in 1 .. N |-> g[i]]
    OBVIOUS
  <2> HIDE DEF g, From
  <2> QED
    BY <2>1, <2>2
<1> HIDE DEF g
<1> QED
  BY <1>6 DEF Backwards

\* What the loop of parseBuffer does at a place of the buffer.
LEMMA ParseFramesIs ==
    ASSUME NEW b \in Seq(Nat), NEW R, RuleTable(R)
    PROVE  \E parse :
              /\ ParseFrames(b, R) = parse[1]
              /\ \A i \in 1 .. Len(b) + 1 :
                    parse[i] =
                        IF Ends(b, R, i) THEN [plotted |-> <<>>, left |-> <<>>]
                        ELSE IF FrameWaits(b, R, i)
                             THEN [plotted |-> <<>>, left |-> Rest(b, FrameAt(b, R, i))]
                             ELSE [plotted |-> << <<FrameRule(b, R, i).channel,
                                                    FrameValue(b, R, i)>> >>
                                                  \o parse[FrameLast(b, R, i) + 1].plotted,
                                   left |-> parse[FrameLast(b, R, i) + 1].left]
<1> DEFINE N == Len(b) + 1
           stops == {i \in 1 .. N : Ends(b, R, i) \/ FrameWaits(b, R, i)}
           rest == [i \in 1 .. N |-> IF Ends(b, R, i) THEN <<>> ELSE Rest(b, FrameAt(b, R, i))]
           own == [i \in 1 .. N |-> << <<FrameRule(b, R, i).channel, FrameValue(b, R, i)>> >>]
           next == [i \in 1 .. N |-> FrameLast(b, R, i) + 1]
           From(f, i) == IF Ends(b, R, i) THEN [plotted |-> <<>>, left |-> <<>>]
                         ELSE IF FrameWaits(b, R, i)
                              THEN [plotted |-> <<>>, left |-> Rest(b, FrameAt(b, R, i))]
                              ELSE [plotted |-> << <<FrameRule(b, R, i).channel,
                                                     FrameValue(b, R, i)>> >>
                                                   \o f[FrameLast(b, R, i) + 1].plotted,
                                    left |-> f[FrameLast(b, R, i) + 1].left]
           All(f) == [i \in 1 .. N |-> From(f, i)]
           parse == CHOOSE f : f = All(f)
<1>1. N \in Nat
  BY LenProperties
<1>2. \A i \in 1 .. N : i \notin stops => next[i] \in i + 1 .. N
  <2> TAKE i \in 1 .. N
  <2> HAVE i \notin stops
  <2>1. FrameAt(b, R, i) \in i .. Len(b) /\ FrameLast(b, R, i) \in FrameAt(b, R, i) .. Len(b)
    BY FrameWithin
  <2>2. next[i] = FrameLast(b, R, i) + 1 /\ Len(b) \in Nat
    BY LenProperties
  <2> HIDE DEF next
  <2> QED
    BY <2>1, <2>2
<1>3. PICK g : g = Backwards(g, N, stops, rest, own, next)
  <2>1. GoesOn(N, stops, next)
    <3> HIDE DEF stops, next, N
    <3> QED
      BY <1>2 DEF GoesOn
  <2> HIDE DEF stops, rest, own, next, N
  <2> QED
    BY <1>1, <2>1, FromTheEnd
<1>4. ASSUME NEW i \in 1 .. N
      PROVE  (IF i \in stops THEN [plotted |-> <<>>, left |-> rest[i]]
              ELSE [plotted |-> own[i] \o g[next[i]].plotted, left |-> g[next[i]].left])
             = From(g, i)
  OBVIOUS
<1>5. g = All(g)
  <2> HIDE DEF From, stops, rest, own, next, N
  <2> QED
    BY <1>3, <1>4 DEF Backwards
<1>6. parse = All(parse)
  <2> HIDE DEF All
  <2> QED
    BY <1>5
<1>7. \A i \in 1 .. N : parse[i] = From(parse, i)
  <2> DEFINE whole == All(parse)
  <2>1. \A i \in 1 .. N : whole[i] = From(parse, i)
    <3> HIDE DEF From, parse
    <3> QED
      OBVIOUS
  <2> HIDE DEF parse, whole
  <2>2. parse = whole
    BY <1>6 DEF whole
  <2> QED
    BY <2>1, <2>2
<1>8. ParseFrames(b, R) = parse[1]
  BY DEF ParseFrames, Ends, FrameWaits, FrameAt, FrameRule, FrameLast, FrameValue
<1> HIDE DEF parse
<1> QED
  BY <1>7, <1>8

\* Cutting off what is before a place, which may be the one behind the last.
LEMMA RestIs ==
    ASSUME NEW b \in Seq(Nat), NEW i \in 1 .. Len(b) + 1
    PROVE  /\ Rest(b, i) \in Seq(Nat) /\ Len(Rest(b, i)) = Len(b) - i + 1
           /\ \A j \in 1 .. Len(b) - i + 1 : Rest(b, i)[j] = b[i + j - 1]
           /\ i = Len(b) + 1 => Rest(b, i) = <<>>
<1>1. Len(b) \in Nat /\ i \in Int /\ \A j \in i .. Len(b) : b[j] \in Nat
  BY LenProperties
<1> DEFINE cut == SubSeq(b, i, Len(b))
<1>2. /\ cut \in Seq(Nat) /\ Len(cut) = IF i <= Len(b) THEN Len(b) - i + 1 ELSE 0
      /\ \A j \in 1 .. Len(b) - i + 1 : cut[j] = b[i + j - 1]
  BY <1>1, SubSeqProperties
<1>3. i = Len(b) + 1 => cut = <<>>
  BY <1>1, SubSeqEmpty
<1> HIDE DEF cut
<1> QED
  BY <1>1, <1>2, <1>3 DEF cut, Rest

\* Frames are plotted on the channels of rules, and bytes are left.
LEMMA FramesTyped ==
    ASSUME NEW b \in Seq(Nat), NEW R, RuleTable(R)
    PROVE  /\ ParseFrames(b, R).plotted \in Seq({R[u].channel : u \in DOMAIN R} \X Nat)
           /\ ParseFrames(b, R).left \in Seq(Nat)
<1> DEFINE N == Len(b) + 1
           Pairs == {R[u].channel : u \in DOMAIN R} \X Nat
           Typed(result) == result.plotted \in Seq(Pairs) /\ result.left \in Seq(Nat)
<1>1. N \in Nat /\ Len(b) \in Nat
  BY LenProperties
<1>2. PICK parse :
          /\ ParseFrames(b, R) = parse[1]
          /\ \A i \in 1 .. Len(b) + 1 :
                parse[i] =
                    IF Ends(b, R, i) THEN [plotted |-> <<>>, left |-> <<>>]
                    ELSE IF FrameWaits(b, R, i)
                         THEN [plotted |-> <<>>, left |-> Rest(b, FrameAt(b, R, i))]
                         ELSE [plotted |-> << <<FrameRule(b, R, i).channel,
                                                FrameValue(b, R, i)>> >>
                                              \o parse[FrameLast(b, R, i) + 1].plotted,
                               left |-> parse[FrameLast(b, R, i) + 1].left]
  BY ParseFramesIs
<1>3. <<>> \in Seq(Pairs) /\ <<>> \in Seq(Nat)
  BY EmptySeq
<1> DEFINE S == {n \in Nat : \A i \in 1 .. N : i > N - n => Typed(parse[i])}
<1>4. 0 \in S
  <2> HIDE DEF Typed
  <2> QED
    BY <1>1
<1>5. ASSUME NEW n \in Nat, n \in S PROVE n + 1 \in S
  <2> SUFFICES ASSUME NEW i \in 1 .. N, i > N - (n + 1) PROVE Typed(parse[i])
    <3> HIDE DEF Typed
    <3> QED
      OBVIOUS
  <2>1. CASE Ends(b, R, i)
    <3>1. parse[i] = [plotted |-> <<>>, left |-> <<>>]
      BY <1>2, <2>1
    <3> QED
      BY <1>3, <3>1
  <2>2. CASE ~Ends(b, R, i) /\ FrameWaits(b, R, i)
    <3>1. parse[i] = [plotted |-> <<>>, left |-> Rest(b, FrameAt(b, R, i))]
      BY <1>2, <2>2
    <3>2. FrameAt(b, R, i) \in i .. Len(b) + 1
      BY <2>2, BestIs DEF Ends
    <3>3. Rest(b, FrameAt(b, R, i)) \in Seq(Nat)
      BY <1>1, <3>2, RestIs
    <3> QED
      BY <1>3, <3>1, <3>3
  <2>3. CASE ~Ends(b, R, i) /\ ~FrameWaits(b, R, i)
    <3> DEFINE next == FrameLast(b, R, i) + 1
               pair == <<FrameRule(b, R, i).channel, FrameValue(b, R, i)>>
    <3>1. parse[i] = [plotted |-> <<pair>> \o parse[next].plotted, left |-> parse[next].left]
      BY <1>2, <2>3
    <3>2. /\ FrameLast(b, R, i) \in FrameAt(b, R, i) .. Len(b) /\ FrameAt(b, R, i) \in i .. Len(b)
          /\ FrameValue(b, R, i) \in Nat
      BY <2>3, FrameWithin
    <3>3. next \in 1 .. N /\ next > N - n
      BY <1>1, <3>2
    <3>4. Typed(parse[next])
      <4> HIDE DEF next, Typed
      <4> QED
        BY <1>5, <3>3
    <3>5. pair \in Pairs
      <4>1. BestRule(b, R, i) \in DOMAIN R
        <5>1. Matching(b, R, i) # {} /\ i \in Nat \ {0}
          BY <1>1, <2>3 DEF Ends
        <5>2. BestRule(b, R, i) \in Matching(b, R, i)
          BY <5>1, BestIs
        <5> QED
          BY <5>2 DEF Matching
      <4> QED
        BY <3>2, <4>1 DEF FrameRule
    <3> HIDE DEF next, pair, Pairs
    <3>6. <<pair>> \in Seq(Pairs)
      BY <3>5
    <3>7. <<pair>> \o parse[next].plotted \in Seq(Pairs)
      BY <3>4, <3>6, ConcatProperties
    <3> QED
      BY <3>1, <3>4, <3>7
  <2> QED
    BY <2>1, <2>2, <2>3
<1>6. N \in S
  <2> HIDE DEF S
  <2> QED
    BY <1>1, <1>4, <1>5, EveryNat
<1>7. Typed(parse[1])
  <2> HIDE DEF Typed
  <2> QED
    BY <1>1, <1>6
<1> QED
  BY <1>2, <1>7

-----------------------------------------------------------------------------
(* Leaving members out *)

\* The members are taken one after the other.
LEMMA OmittingIs ==
    ASSUME NEW A, NEW s \in Seq(A), NEW T
    PROVE  \E kept :
              /\ Omitting(s, T) = kept[Len(s)] /\ kept[0] = <<>>
              /\ \A n \in 1 .. Len(s) :
                    kept[n] = IF s[n] \in T THEN kept[n - 1] ELSE Append(kept[n - 1], s[n])
<1> DEFINE N == Len(s)
           Round(f, n) == IF n = 0 THEN <<>>
                          ELSE IF s[n] \in T THEN f[n - 1] ELSE Append(f[n - 1], s[n])
           All(f) == [n \in 0 .. N |-> Round(f, n)]
           kept == CHOOSE f : f = All(f)
           Solves(f, m) == DOMAIN f = 0 .. N /\ \A n \in 0 .. N : n <= m => f[n] = Round(f, n)
           S == {m \in Nat : m <= N => \E f : Solves(f, m)}
<1>1. N \in Nat
  BY LenProperties
<1> HIDE DEF N
<1>2. 0 \in S
  <2> DEFINE f == [n \in 0 .. N |-> <<>>]
  <2>1. DOMAIN f = 0 .. N /\ f[0] = <<>>
    BY <1>1
  <2> HIDE DEF f
  <2>2. Solves(f, 0)
    BY <2>1
  <2> HIDE DEF Solves
  <2> QED
    BY <2>2
<1>3. ASSUME NEW m \in Nat, m \in S PROVE m + 1 \in S
  <2> SUFFICES ASSUME m + 1 <= N PROVE \E f : Solves(f, m + 1)
    <3> HIDE DEF Solves
    <3> QED
      OBVIOUS
  <2>1. PICK f : Solves(f, m)
    <3> HIDE DEF Solves
    <3> QED
      BY <1>1, <1>3
  <2> DEFINE g == [n \in 0 .. N |-> IF n = m + 1 THEN Round(f, m + 1) ELSE f[n]]
  <2>2. DOMAIN g = 0 .. N /\ g[m + 1] = Round(f, m + 1)
        /\ \A n \in 0 .. N : n # m + 1 => g[n] = f[n]
    <3> HIDE DEF Round
    <3> QED
      BY <1>1
  <2> HIDE DEF g
  <2>3. ASSUME NEW n \in 0 .. N, n <= m + 1 PROVE Round(g, n) = Round(f, n)
    <3>1. CASE n = 0
      BY <3>1
    <3>2. CASE n # 0
      <4>1. n - 1 \in 0 .. N /\ n - 1 # m + 1
        BY <1>1, <2>3, <3>2
      <4>2. g[n - 1] = f[n - 1]
        BY <2>2, <4>1
      <4> QED
        BY <3>2, <4>2
    <3> QED
      BY <3>1, <3>2
  <2>4. \A n \in 0 .. N : n <= m + 1 => g[n] = Round(g, n)
    <3> TAKE n \in 0 .. N
    <3> HAVE n <= m + 1
    <3>1. n # m + 1 => n <= m
      BY <1>1
    <3> HIDE DEF Round
    <3> QED
      BY <2>1, <2>2, <2>3, <3>1
  <2>5. Solves(g, m + 1)
    <3> HIDE DEF Round
    <3> QED
      BY <2>2, <2>4
  <2> HIDE DEF Solves
  <2> QED
    BY <2>5
<1>4. N \in S
  <2> HIDE DEF S
  <2> QED
    BY <1>1, <1>2, <1>3, EveryNat
<1>5. PICK f : Solves(f, N)
  <2> HIDE DEF Solves
  <2> QED
    BY <1>4
<1> DEFINE g == [n \in 0 .. N |-> f[n]]
<1>6. \A n \in 0 .. N : Round(g, n) = Round(f, n)
  <2> TAKE n \in 0 .. N
  <2>1. n # 0 => n - 1 \in 0 .. N
    BY <1>1
  <2>2. n # 0 => g[n - 1] = f[n - 1]
    BY <2>1
  <2> HIDE DEF g
  <2> QED
    BY <2>2
<1>7. g = All(g)
  <2>1. \A n \in 0 .. N : g[n] = Round(g, n)
    <3> HIDE DEF Round
    <3> QED
      BY <1>1, <1>5, <1>6
  <2>2. g = [n \in 0 .. N |-> g[n]]
    OBVIOUS
  <2> HIDE DEF g, Round
  <2> QED
    BY <2>1, <2>2
<1>8. kept = All(kept)
  <2> HIDE DEF All
  <2> QED
    BY <1>7
<1>9. \A n \in 0 .. N : kept[n] = Round(kept, n)
  <2> DEFINE whole == All(kept)
  <2>1. \A n \in 0 .. N : whole[n] = Round(kept, n)
    <3> HIDE DEF Round, kept
    <3> QED
      OBVIOUS
  <2> HIDE DEF kept, whole
  <2>2. kept = whole
    BY <1>8 DEF whole
  <2> QED
    BY <2>1, <2>2
<1>10. Omitting(s, T) = kept[Len(s)]
  BY DEF Omitting, N
<1> HIDE DEF kept
<1>11. kept[0] = <<>>
  BY <1>1, <1>9
<1>12. \A n \in 1 .. N : kept[n] = IF s[n] \in T THEN kept[n - 1] ELSE Append(kept[n - 1], s[n])
  <2> TAKE n \in 1 .. N
  <2>1. n \in 0 .. N /\ n # 0
    BY <1>1
  <2> QED
    BY <1>9, <2>1
<1> QED
  BY <1>10, <1>11, <1>12 DEF N

\* What is left are members of the sequence, and not more.
LEMMA OmittingTyped ==
    ASSUME NEW A, NEW s \in Seq(A), NEW T
    PROVE  Omitting(s, T) \in Seq(A)
<1>1. PICK kept :
          /\ Omitting(s, T) = kept[Len(s)] /\ kept[0] = <<>>
          /\ \A n \in 1 .. Len(s) :
                kept[n] = IF s[n] \in T THEN kept[n - 1] ELSE Append(kept[n - 1], s[n])
  BY OmittingIs
<1>2. Len(s) \in Nat /\ \A n \in 1 .. Len(s) : s[n] \in A
  BY LenProperties
<1> DEFINE S == {n \in Nat : n <= Len(s) => kept[n] \in Seq(A)}
<1>3. 0 \in S
  BY <1>1, EmptySeq
<1>4. ASSUME NEW n \in Nat, n \in S PROVE n + 1 \in S
  <2> SUFFICES ASSUME n + 1 <= Len(s) PROVE kept[n + 1] \in Seq(A)
    OBVIOUS
  <2>1. n + 1 \in 1 .. Len(s) /\ n + 1 - 1 = n
    BY <1>2
  <2>2. kept[n + 1] = IF s[n + 1] \in T THEN kept[n] ELSE Append(kept[n], s[n + 1])
    BY <1>1, <2>1
  <2>3. kept[n] \in Seq(A) /\ s[n + 1] \in A
    BY <1>2, <1>4, <2>1
  <2> QED
    BY <2>2, <2>3
<1>5. Len(s) \in S
  <2> HIDE DEF S
  <2> QED
    BY <1>2, <1>3, <1>4, EveryNat
<1> QED
  BY <1>1, <1>2, <1>5

-----------------------------------------------------------------------------
(* What a serial window receives *)

\* The words of a buffer are four bytes each.
LEMMA WordsAre ==
    ASSUME NEW b \in Seq(Nat)
    PROVE  LET words == [i \in 1 .. Len(b) \div 4 |-> SubSeq(b, 4 * i - 3, 4 * i)] IN
           /\ words \in Seq(Seq(Nat)) /\ Len(words) = Len(b) \div 4
           /\ 4 * Len(words) + 1 \in 1 .. Len(b) + 1
           /\ \A i \in 1 .. Len(b) \div 4 :
                 /\ Len(words[i]) = 4
                 /\ \A j \in 1 .. 4 : words[i][j] = b[4 * i - 4 + j]
<1> DEFINE w == Len(b) \div 4
           words == [i \in 1 .. w |-> SubSeq(b, 4 * i - 3, 4 * i)]
<1>1. Len(b) \in Nat /\ w \in Nat /\ 4 * w <= Len(b) /\ \A p \in 1 .. Len(b) : b[p] \in Nat
  BY LenProperties
<1> HIDE DEF w
<1>2. ASSUME NEW i \in 1 .. w
      PROVE  /\ SubSeq(b, 4 * i - 3, 4 * i) \in Seq(Nat)
             /\ Len(SubSeq(b, 4 * i - 3, 4 * i)) = 4
             /\ \A j \in 1 .. 4 : SubSeq(b, 4 * i - 3, 4 * i)[j] = b[4 * i - 4 + j]
  <2>1. 4 * i - 3 \in Int /\ 4 * i \in Int /\ \A p \in 4 * i - 3 .. 4 * i : b[p] \in Nat
    BY <1>1
  <2> DEFINE cut == SubSeq(b, 4 * i - 3, 4 * i)
  <2>2. /\ cut \in Seq(Nat)
        /\ Len(cut) = IF 4 * i - 3 <= 4 * i THEN 4 * i - (4 * i - 3) + 1 ELSE 0
        /\ \A j \in 1 .. 4 * i - (4 * i - 3) + 1 : cut[j] = b[4 * i - 3 + j - 1]
    BY <2>1, SubSeqProperties
  <2> HIDE DEF cut
  <2>3. Len(cut) = 4 /\ \A j \in 1 .. 4 : cut[j] = b[4 * i - 4 + j]
    BY <1>1, <2>2
  <2> QED
    BY <2>2, <2>3 DEF cut
<1>3. words \in [1 .. w -> Seq(Nat)]
  BY <1>2
<1>4. words \in Seq(Seq(Nat)) /\ Len(words) = w
  <2> HIDE DEF words
  <2> QED
    BY <1>1, <1>3, FunctionIsSequence
<1>5. \A i \in 1 .. w : words[i] = SubSeq(b, 4 * i - 3, 4 * i)
  OBVIOUS
<1> HIDE DEF words
<1>6. 4 * Len(words) + 1 \in 1 .. Len(b) + 1
  BY <1>1, <1>4
<1> QED
  BY <1>2, <1>4, <1>5, <1>6 DEF words, w

\* A number of bytes is left of what a window has received, and the next float
\* is of one of the channels.
LEMMA FloatsTyped ==
    ASSUME NEW b \in Seq(Nat), NEW c \in Nat
    PROVE  /\ parseJustFloatProtocol(b, c).left \in Seq(Nat)
           /\ parseJustFloatProtocol(b, c).next \in 0 .. MaxChannels - 1
<1> DEFINE words == [i \in 1 .. Len(b) \div 4 |-> SubSeq(b, 4 * i - 3, 4 * i)]
           floats == Omitting(words, {FloatTail})
<1>1. words \in Seq(Seq(Nat)) /\ 4 * Len(words) + 1 \in 1 .. Len(b) + 1
  BY WordsAre
<1>2. parseJustFloatProtocol(b, c).left = Rest(b, 4 * Len(words) + 1)
      /\ parseJustFloatProtocol(b, c).next = (c + Len(floats)) % MaxChannels
  BY DEF parseJustFloatProtocol
<1> HIDE DEF words
<1>3. floats \in Seq(Seq(Nat))
  BY <1>1, OmittingTyped
<1> HIDE DEF floats
<1>4. Len(floats) \in Nat /\ MaxChannels \in Nat /\ MaxChannels > 0
  BY <1>3, LenProperties, ChannelsAssumption
<1>5. (c + Len(floats)) % MaxChannels \in 0 .. MaxChannels - 1
  BY <1>4
<1> QED
  BY <1>1, <1>2, <1>5, RestIs

\* And so is what is left of a packet.
LEMMA PacketTyped ==
    ASSUME NEW b \in Seq(Nat)
    PROVE  parseFireWaterProtocol(b).left \in Seq(Nat)
<1> DEFINE begins == Occurrences(b, <<Dollar>>, 1)
           ends == Occurrences(b, LineEnd, Min(begins))
<1>1. CASE begins = {} \/ ends = {}
  BY <1>1 DEF parseFireWaterProtocol
<1>2. CASE begins # {} /\ ends # {}
  <2>1. parseFireWaterProtocol(b).left = Rest(b, Min(ends) + 2)
    BY <1>2 DEF parseFireWaterProtocol
  <2>2. Len(b) \in Nat /\ begins = {p \in 1 .. Len(b) : b[p] = Dollar}
    BY ByteOccurs, LenProperties DEF Dollar
  <2>3. Min(begins) \in 1 .. Len(b)
    <3>1. begins \in SUBSET Nat
      BY <2>2
    <3> HIDE DEF begins
    <3>2. Min(begins) \in begins
      BY <1>2, <3>1, LeastIs
    <3> QED
      BY <2>2, <3>2
  <2>4. ends = {p \in Min(begins) .. Len(b) - 1 : b[p] = 13 /\ b[p + 1] = 10}
    <3> HIDE DEF begins
    <3>1. Min(begins) \in Nat \ {0}
      BY <2>2, <2>3
    <3> QED
      BY <3>1, TwoBytesOccur DEF LineEnd
  <2>5. Min(ends) \in 1 .. Len(b) - 1
    <3> HIDE DEF begins
    <3> DEFINE m == Min(begins)
    <3>0. m \in Nat /\ Len(b) \in Nat
          /\ ends = {p \in m .. Len(b) - 1 : b[p] = 13 /\ b[p + 1] = 10}
      BY <2>2, <2>3, <2>4
    <3> HIDE DEF m, ends
    <3>1. ends \in SUBSET Nat
      BY <3>0
    <3> HIDE DEF ends
    <3>2. Min(ends) \in ends
      BY <1>2, <3>1, LeastIs
    <3> QED
      BY <2>2, <2>3, <2>4, <3>2
  <2> HIDE DEF begins, ends
  <2>6. Min(ends) + 2 \in 1 .. Len(b) + 1
    BY <2>2, <2>5
  <2> QED
    BY <2>1, <2>6, RestIs
<1> QED
  BY <1>1, <1>2

\* Whether all numbers and bytes are such, and the tables as large as they may get.
StreamTypes ==
    /\ channelNums \in Numbers
    /\ DOMAIN scripts \subseteq Numbers
    /\ \A n \in DOMAIN scripts : scripts[n] \in Scripts \cup {NoScript}
    /\ protocol \in Protocols \cup Uninitialised /\ chosen \in Protocols
    /\ channelIndex \in 0 .. MaxChannels - 1
    /\ renumbered \in BOOLEAN
    /\ buffer \in Seq(Nat) /\ coming \in Seq(Nat)

\* The numbers of channels are among those a window may give.
LEMMA NumbersAre ==
    /\ Numbers \subseteq Nat /\ Cardinality(Uuids) \in Nat /\ MaxAdded \in Nat
    /\ \A n \in Nat : n < MaxAdded => n + 1 \in Numbers /\ n \in Numbers
    /\ \A n \in Nat : n <= Cardinality(Uuids) => n \in Numbers
    /\ \A n \in Numbers : \A m \in Nat : m < n => m \in Numbers
<1>1. Cardinality(Uuids) \in Nat
  BY UuidsAssumption, FS_CardinalityType
<1> QED
  BY <1>1, BoundsAssumption DEF Numbers

\* The numbers of the channels, and so those of the curves and rules, are such.
LEMMA ChannelsInRange ==
    ASSUME ChannelInvariant, StreamTypes
    PROVE  /\ \A u \in DOMAIN channels : channels[u].number \in Numbers
           /\ curves \subseteq Numbers
           /\ \A u \in DOMAIN rules : rules[u].channel \in Numbers
           /\ DOMAIN rules = DOMAIN channels /\ RuleTable(rules)
<1>1. \A u \in DOMAIN channels : channels[u].number \in Nat /\ channels[u].number < channelNums
  BY DEF ChannelInvariant, ChannelTypes, ChannelsNumbered
<1>2. \A u \in DOMAIN channels : channels[u].number \in Numbers
  BY <1>1, NumbersAre DEF StreamTypes
<1>3. DOMAIN rules = DOMAIN channels /\ DOMAIN channels \subseteq Nat
      /\ rules \in [DOMAIN channels -> Rules]
  BY UuidsAssumption DEF ChannelInvariant, ChannelTypes
<1>4. RuleTable(rules)
  BY <1>3 DEF RuleTable
<1> QED
  BY <1>2, <1>3, <1>4 DEF ChannelInvariant, ChannelsNumbered

\* What is received leaves a table of scripts, a buffer and a next channel.
LEMMA ReceivedTyped ==
    ASSUME ChannelInvariant, StreamTypes, NEW bytes \in Seq(Nat), dataReceived(bytes)
    PROVE  /\ DOMAIN scripts' \subseteq Numbers
           /\ \A n \in DOMAIN scripts' : scripts'[n] \in Scripts \cup {NoScript}
           /\ channelIndex' \in 0 .. MaxChannels - 1
           /\ buffer' \in Seq(Nat)
<1> DEFINE b == buffer \o bytes
           asked == IF protocol = "frames" THEN {pair[1] : pair \in Range(Parsed(b).plotted)}
                    ELSE {}
<1>1. b \in Seq(Nat)
  BY ConcatProperties DEF StreamTypes
<1>2. /\ buffer' = Parsed(b).left
      /\ channelIndex' = IF protocol = "JustFloat" THEN Parsed(b).next ELSE channelIndex
      /\ scripts' = [channel \in DOMAIN scripts \cup asked |-> ScriptOf(channel)]
  BY DEF dataReceived
<1> HIDE DEF b
<1>3. RuleTable(rules) /\ \A u \in DOMAIN rules : rules[u].channel \in Numbers
  BY ChannelsInRange
<1>4. channelIndex \in Nat /\ channelIndex \in 0 .. MaxChannels - 1
  BY ChannelsAssumption DEF StreamTypes
<1>5. CASE protocol = "frames"
  <2>1. Parsed(b) = ParseFrames(b, rules)
    BY <1>5 DEF Parsed
  <2> DEFINE Pairs == {rules[u].channel : u \in DOMAIN rules} \X Nat
  <2>2. Parsed(b).plotted \in Seq(Pairs) /\ Parsed(b).left \in Seq(Nat)
    <3>1. ParseFrames(b, rules).plotted \in Seq(Pairs) /\ ParseFrames(b, rules).left \in Seq(Nat)
      BY <1>1, <1>3, FramesTyped, Zenon
    <3> QED
      BY <2>1, <3>1
  <2>3. \A pair \in Range(Parsed(b).plotted) : pair \in Pairs
    <3> HIDE DEF Pairs
    <3> QED
      BY <2>2, LenProperties DEF Range
  <2>4. asked \subseteq Numbers
    BY <1>3, <2>3
  <2> HIDE DEF asked
  <2> QED
    BY <1>2, <1>4, <1>5, <2>2, <2>4 DEF ScriptOf, StreamTypes
<1>6. CASE protocol # "frames"
  <2>1. asked = {}
    BY <1>6
  <2> HIDE DEF asked
  <2>2. Parsed(b).left \in Seq(Nat)
        /\ (protocol = "JustFloat" => Parsed(b).next \in 0 .. MaxChannels - 1)
    <3>1. CASE protocol = "RawData"
      BY <3>1, EmptySeq DEF Parsed, parseRawDataProtocol
    <3>2. CASE protocol = "JustFloat"
      <4>1. Parsed(b) = parseJustFloatProtocol(b, channelIndex)
        BY <3>2 DEF Parsed
      <4> QED
        BY <1>1, <1>4, <4>1, FloatsTyped
    <3>3. CASE protocol = "FireWater"
      <4>1. Parsed(b) = parseFireWaterProtocol(b)
        BY <3>3 DEF Parsed
      <4> QED
        BY <1>1, <3>3, <4>1, PacketTyped
    <3> QED
      BY <1>6, <3>1, <3>2, <3>3 DEF StreamTypes, Protocols, Uninitialised
  <2> QED
    BY <1>2, <1>4, <2>1, <2>2 DEF ScriptOf, StreamTypes
<1> QED
  BY <1>5, <1>6

\* Leaving out what is at the end.
LEMMA OmittingTheLast ==
    ASSUME NEW A, NEW s \in Seq(A), NEW T, NEW m \in 0 .. Len(s),
           \A i \in 1 .. Len(s) : s[i] \in T <=> i > m
    PROVE  /\ Omitting(s, T) \in Seq(A) /\ Len(Omitting(s, T)) = m
           /\ \A i \in 1 .. m : Omitting(s, T)[i] = s[i]
<1>1. PICK kept :
          /\ Omitting(s, T) = kept[Len(s)] /\ kept[0] = <<>>
          /\ \A n \in 1 .. Len(s) :
                kept[n] = IF s[n] \in T THEN kept[n - 1] ELSE Append(kept[n - 1], s[n])
  BY OmittingIs
<1>2. Len(s) \in Nat /\ \A n \in 1 .. Len(s) : s[n] \in A
  BY LenProperties
<1> DEFINE Upto(n) == IF n <= m THEN n ELSE m
           Same(n) == /\ kept[n] \in Seq(A) /\ Len(kept[n]) = Upto(n)
                      /\ \A i \in 1 .. Upto(n) : kept[n][i] = s[i]
           S == {n \in Nat : n <= Len(s) => Same(n)}
<1>3. 0 \in S
  <2>1. Upto(0) = 0
    OBVIOUS
  <2>2. Same(0)
    <3> HIDE DEF Upto
    <3> QED
      BY <1>1, <2>1, EmptySeq
  <2> HIDE DEF Same
  <2> QED
    BY <2>2
<1>4. ASSUME NEW n \in Nat, n \in S PROVE n + 1 \in S
  <2> SUFFICES ASSUME n + 1 <= Len(s) PROVE Same(n + 1)
    <3> HIDE DEF Same
    <3> QED
      OBVIOUS
  <2>1. n + 1 \in 1 .. Len(s) /\ n + 1 - 1 = n
    BY <1>2
  <2>2. kept[n + 1] = IF s[n + 1] \in T THEN kept[n] ELSE Append(kept[n], s[n + 1])
    BY <1>1, <2>1
  <2>3. Same(n)
    <3> HIDE DEF Same
    <3> QED
      BY <1>2, <1>4, <2>1
  <2>4. CASE n + 1 > m
    <3>1. kept[n + 1] = kept[n]
      BY <2>1, <2>2, <2>4
    <3>2. Upto(n + 1) = m /\ Upto(n) = m
      BY <2>4
    <3> HIDE DEF Upto
    <3> QED
      BY <2>3, <3>1, <3>2
  <2>5. CASE ~(n + 1 > m)
    <3>1. kept[n + 1] = Append(kept[n], s[n + 1]) /\ s[n + 1] \in A
      BY <1>2, <2>1, <2>2, <2>5
    <3>2. Upto(n + 1) = n + 1 /\ Upto(n) = n
      BY <2>5
    <3> HIDE DEF Upto
    <3>3. kept[n] \in Seq(A) /\ Len(kept[n]) = n /\ \A i \in 1 .. n : kept[n][i] = s[i]
      BY <2>3, <3>2
    <3>4. /\ kept[n + 1] \in Seq(A) /\ Len(kept[n + 1]) = n + 1
          /\ \A i \in 1 .. n + 1 : kept[n + 1][i] = IF i = n + 1 THEN s[n + 1] ELSE kept[n][i]
      BY <3>1, <3>3, AppendProperties
    <3>5. \A i \in 1 .. n + 1 : kept[n + 1][i] = s[i]
      <4> TAKE i \in 1 .. n + 1
      <4>1. i = n + 1 \/ i \in 1 .. n
        OBVIOUS
      <4> QED
        BY <3>3, <3>4, <4>1
    <3> QED
      BY <3>2, <3>4, <3>5
  <2> QED
    BY <2>4, <2>5
<1>5. Len(s) \in S
  <2> HIDE DEF S
  <2> QED
    BY <1>2, <1>3, <1>4, EveryNat
<1>6. Same(Len(s)) /\ Upto(Len(s)) = m
  <2>1. Same(Len(s))
    <3> HIDE DEF Same
    <3> QED
      BY <1>2, <1>5
  <2> QED
    BY <1>2, <2>1
<1> HIDE DEF Upto
<1> QED
  BY <1>1, <1>6

\* Leaving out nothing, and everything.
LEMMA OmittingNone ==
    ASSUME NEW A, NEW s \in Seq(A), NEW T, \A i \in 1 .. Len(s) : s[i] \notin T
    PROVE  Omitting(s, T) = s
<1>1. Len(s) \in 0 .. Len(s) /\ \A i \in 1 .. Len(s) : s[i] \in T <=> i > Len(s)
  BY LenProperties
<1>2. /\ Omitting(s, T) \in Seq(A) /\ Len(Omitting(s, T)) = Len(s)
      /\ \A i \in 1 .. Len(s) : Omitting(s, T)[i] = s[i]
  BY <1>1, OmittingTheLast
<1> QED
  BY <1>2, SeqEqual

\* Leaving all of them out.
LEMMA OmittingAll ==
    ASSUME NEW A, NEW s \in Seq(A), NEW T, \A i \in 1 .. Len(s) : s[i] \in T
    PROVE  Omitting(s, T) = <<>>
<1>1. 0 \in 0 .. Len(s) /\ \A i \in 1 .. Len(s) : s[i] \in T <=> i > 0
  BY LenProperties
<1>2. Omitting(s, T) \in Seq(A) /\ Len(Omitting(s, T)) = 0
  BY <1>1, OmittingTheLast
<1> QED
  BY <1>2, EmptySeq

-----------------------------------------------------------------------------
(* What the device sends *)

\* One or two of something are sent.
LEMMA SentAre ==
    ASSUME NEW A, NEW sent \in OneOrTwo(A)
    PROVE  /\ sent \in Seq(A) /\ Len(sent) \in {1, 2} /\ DOMAIN sent = 1 .. Len(sent)
           /\ \A i \in 1 .. Len(sent) : sent[i] \in A
<1>1. CASE sent \in {<<x>> : x \in A}
  <2>1. PICK x \in A : sent = <<x>>
    BY <1>1
  <2> QED
    BY <2>1
<1>2. CASE sent \in A \X A
  <2>1. PICK x \in A, y \in A : sent = <<x, y>>
    BY <1>2
  <2>2. sent \in Seq(A) /\ Len(sent) = 2
    BY <2>1
  <2> QED
    BY <2>2, LenProperties
<1> QED
  BY <1>1, <1>2 DEF OneOrTwo

\* One sequence, or two one after the other.
LEMMA FlattenIs ==
    ASSUME NEW A, NEW s, NEW n \in {1, 2}, s \in [1 .. n -> Seq(A)]
    PROVE  FlattenSeq(s) = IF n = 1 THEN s[1] ELSE s[1] \o s[2]
<1>1. s \in Seq(Seq(A)) /\ Len(s) = n
  <2>1. n \in Nat
    OBVIOUS
  <2> QED
    BY <2>1, FunctionIsSequence
<1> DEFINE All(f) == [i \in 1 .. Len(s) |-> IF i = 1 THEN s[i] ELSE f[i - 1] \o s[i]]
           flatten == CHOOSE f : f = All(f)
<1>2. FlattenSeq(s) = flatten[Len(s)]
  BY <1>1 DEF FlattenSeq
<1> DEFINE g == [i \in 1 .. n |-> IF i = 1 THEN s[1] ELSE s[1] \o s[2]]
<1>3. g = All(g)
  <2>1. All(g) = [i \in 1 .. n |-> IF i = 1 THEN s[i] ELSE g[i - 1] \o s[i]]
    BY <1>1
  <2>2. \A i \in 1 .. n : i = 1 \/ (i = 2 /\ i - 1 \in 1 .. n /\ i - 1 = 1)
    OBVIOUS
  <2>3. \A i \in 1 .. n : (IF i = 1 THEN s[i] ELSE g[i - 1] \o s[i]) = g[i]
    BY <2>2
  <2>4. g = [i \in 1 .. n |-> g[i]]
    OBVIOUS
  <2> HIDE DEF g, All
  <2> QED
    BY <2>1, <2>3, <2>4
<1>4. flatten = All(flatten)
  <2> HIDE DEF All
  <2> QED
    BY <1>3
<1>5. \A i \in 1 .. n : flatten[i] = IF i = 1 THEN s[i] ELSE flatten[i - 1] \o s[i]
  <2> DEFINE whole == All(flatten)
  <2> HIDE DEF flatten
  <2>1. \A i \in 1 .. n : whole[i] = IF i = 1 THEN s[i] ELSE flatten[i - 1] \o s[i]
    BY <1>1
  <2> HIDE DEF whole
  <2>2. flatten = whole
    BY <1>4 DEF whole
  <2> QED
    BY <2>1, <2>2
<1> HIDE DEF flatten
<1>6. flatten[1] = s[1]
  BY <1>5
<1>7. n = 2 => flatten[2] = flatten[1] \o s[2]
  BY <1>5
<1> QED
  BY <1>1, <1>2, <1>6, <1>7

\* What is where when a sequence comes after another.
LEMMA JoinIs ==
    ASSUME NEW A, NEW s \in Seq(A), NEW t \in Seq(A)
    PROVE  /\ s \o t \in Seq(A) /\ Len(s \o t) = Len(s) + Len(t)
           /\ \A i \in 1 .. Len(s) : (s \o t)[i] = s[i]
           /\ \A j \in 1 .. Len(t) : (s \o t)[Len(s) + j] = t[j]
<1>1. Len(s) \in Nat /\ Len(t) \in Nat
  BY LenProperties
<1>2. /\ s \o t \in Seq(A) /\ Len(s \o t) = Len(s) + Len(t)
      /\ \A i \in 1 .. Len(s) + Len(t) :
             (s \o t)[i] = IF i <= Len(s) THEN s[i] ELSE t[i - Len(s)]
  BY ConcatProperties
<1>3. \A i \in 1 .. Len(s) : (s \o t)[i] = s[i]
  BY <1>1, <1>2
<1>4. ASSUME NEW j \in 1 .. Len(t) PROVE (s \o t)[Len(s) + j] = t[j]
  <2>1. /\ Len(s) + j \in 1 .. Len(s) + Len(t) /\ ~(Len(s) + j <= Len(s))
        /\ Len(s) + j - Len(s) = j
    BY <1>1
  <2> QED
    BY <1>2, <2>1
<1> QED
  BY <1>2, <1>3, <1>4

\* A number that is sent goes to one of the values, the same for all.
Number(p) == IF p = "JustFloat" THEN <<1, 2, 3, 4>> ELSE <<49, 50>>

\* A list of values is the same number once or twice.
LEMMA ListsAre ==
    ASSUME NEW p \in {"RawData", "JustFloat", "FireWater"}, NEW sent \in Sent(p)
    PROVE  /\ Len(sent) \in {1, 2} /\ DOMAIN sent = 1 .. Len(sent)
           /\ \A i \in 1 .. Len(sent) : sent[i] = Number(p)
<1>1. sent \in OneOrTwo({Number(p)})
  BY DEF Sent, Values, Number
<1> QED
  BY <1>1, SentAre

\* The values of a list with the separator between them.
LEMMA JoinedIs ==
    ASSUME NEW p \in {"RawData", "FireWater"}, NEW sent \in Sent(p), NEW separator \in Nat
    PROVE  LET n == Len(sent)
               joined == Joined(sent, separator)
           IN  /\ joined \in Seq(Nat) /\ Len(joined) = 3 * n - 1
               /\ joined[1] = 49 /\ joined[2] = 50
               /\ n = 2 => joined[3] = separator /\ joined[4] = 49 /\ joined[5] = 50
<1> DEFINE n == Len(sent)
           part == <<separator>> \o <<49, 50>>
           parts == [i \in 1 .. n |-> part]
           flat == FlattenSeq(parts)
<1>1. n \in {1, 2} /\ DOMAIN sent = 1 .. n /\ \A i \in 1 .. n : sent[i] = <<49, 50>>
  BY ListsAre DEF Number
<1>2. /\ part \in Seq(Nat) /\ Len(part) = 3
      /\ part[1] = separator /\ part[2] = 49 /\ part[3] = 50
  OBVIOUS
<1>3. Joined(sent, separator) = Tail(flat)
  <2>1. [i \in DOMAIN sent |-> <<separator>> \o sent[i]] = parts
    BY <1>1
  <2> QED
    BY <2>1 DEF Joined
<1> HIDE DEF n, part
<1>4. parts \in [1 .. n -> Seq(Nat)] /\ parts[1] = part /\ (n = 2 => parts[2] = part)
  BY <1>1, <1>2
<1>5. flat = IF n = 1 THEN part ELSE part \o part
  <2> HIDE DEF parts
  <2> QED
    BY <1>1, <1>4, FlattenIs
<1> HIDE DEF flat
<1>6. /\ flat \in Seq(Nat) /\ Len(flat) = 3 * n
      /\ flat[2] = 49 /\ flat[3] = 50
      /\ n = 2 => flat[4] = separator /\ flat[5] = 49 /\ flat[6] = 50
  <2>1. CASE n = 1
    BY <1>2, <1>5, <2>1
  <2>2. CASE n = 2
    <3>1. /\ flat \in Seq(Nat) /\ Len(flat) = 3 + 3
          /\ \A i \in 1 .. 3 : flat[i] = part[i]
          /\ \A i \in 1 .. 3 : flat[3 + i] = part[i]
      <4>1. flat = part \o part
        BY <1>5, <2>2
      <4>2. part \in Seq(Nat)
        BY <1>2
      <4>3. /\ part \o part \in Seq(Nat) /\ Len(part \o part) = Len(part) + Len(part)
            /\ \A i \in 1 .. Len(part) : (part \o part)[i] = part[i]
            /\ \A i \in 1 .. Len(part) : (part \o part)[Len(part) + i] = part[i]
        BY <4>2, JoinIs
      <4> QED
        BY <1>2, <4>1, <4>3
    <3>2. /\ flat[2] = part[2] /\ flat[3] = part[3]
          /\ flat[3 + 1] = part[1] /\ flat[3 + 2] = part[2] /\ flat[3 + 3] = part[3]
      BY <3>1
    <3> QED
      BY <1>2, <2>2, <3>1, <3>2
  <2> QED
    BY <1>1, <2>1, <2>2
<1>7. flat # <<>>
  BY <1>1, <1>6
<1> DEFINE joined == Tail(flat)
<1>8. joined \in Seq(Nat) /\ Len(joined) = 3 * n - 1
      /\ \A i \in 1 .. Len(joined) : joined[i] = flat[i + 1]
  BY <1>6, <1>7, HeadTailProperties
<1> HIDE DEF joined
<1>9. joined[1] = 49 /\ joined[2] = 50
      /\ (n = 2 => joined[3] = separator /\ joined[4] = 49 /\ joined[5] = 50)
  <2>1. joined[1] = flat[2] /\ joined[2] = flat[3]
    BY <1>1, <1>8
  <2>2. n = 2 => joined[3] = flat[4] /\ joined[4] = flat[5] /\ joined[5] = flat[6]
    BY <1>8
  <2> QED
    BY <1>6, <2>1, <2>2
<1> QED
  BY <1>3, <1>8, <1>9 DEF joined, n

\* The transmissions of the three protocols, byte by byte.
LEMMA PacketIs ==
    ASSUME NEW sent \in Sent("FireWater")
    PROVE  LET n == Len(sent)
               whole == Encoded("FireWater", sent)
           IN  /\ whole \in Seq(Nat) /\ Len(whole) = 3 * n + 2
               /\ whole[1] = 36 /\ whole[2] = 49 /\ whole[3] = 50
               /\ n = 2 => whole[4] = 44 /\ whole[5] = 49 /\ whole[6] = 50
               /\ whole[3 * n + 1] = 13 /\ whole[3 * n + 2] = 10
<1> DEFINE n == Len(sent)
           joined == Joined(sent, 44)
<1>1. /\ joined \in Seq(Nat) /\ Len(joined) = 3 * n - 1
      /\ joined[1] = 49 /\ joined[2] = 50
      /\ n = 2 => joined[3] = 44 /\ joined[4] = 49 /\ joined[5] = 50
  BY JoinedIs
<1>2. n \in {1, 2}
  BY ListsAre
<1>3. Encoded("FireWater", sent) = <<36>> \o joined \o <<13, 10>>
  BY DEF Encoded, Dollar, Comma, LineEnd
<1> HIDE DEF joined, n
<1> DEFINE front == <<36>> \o joined
           whole == front \o <<13, 10>>
<1>4. /\ front \in Seq(Nat) /\ Len(front) = 3 * n /\ front[1] = 36 /\ front[2] = 49 /\ front[3] = 50
      /\ n = 2 => front[4] = 44 /\ front[5] = 49 /\ front[6] = 50
  <2>1. <<36>> \in Seq(Nat) /\ Len(<<36>>) = 1 /\ <<36>>[1] = 36
    OBVIOUS
  <2>2. front \in Seq(Nat) /\ Len(front) = 1 + (3 * n - 1)
        /\ \A i \in 1 .. 1 + (3 * n - 1) : front[i] = IF i <= 1 THEN <<36>>[i] ELSE joined[i - 1]
    BY <1>1, <2>1, ConcatProperties
  <2> HIDE DEF front
  <2>3. front[1] = 36 /\ front[2] = joined[1] /\ front[3] = joined[2]
    BY <1>2, <2>1, <2>2
  <2>4. n = 2 => front[4] = joined[3] /\ front[5] = joined[4] /\ front[6] = joined[5]
    BY <2>2
  <2>5. 1 + (3 * n - 1) = 3 * n
    BY <1>2
  <2> QED
    BY <1>1, <2>2, <2>3, <2>4, <2>5
<1> HIDE DEF front
<1>5. /\ whole \in Seq(Nat) /\ Len(whole) = 3 * n + 2
      /\ \A i \in 1 .. 3 * n + 2 : whole[i] = IF i <= 3 * n THEN front[i] ELSE <<13, 10>>[i - 3 * n]
  <2>1. <<13, 10>> \in Seq(Nat) /\ Len(<<13, 10>>) = 2
    OBVIOUS
  <2> QED
    BY <1>4, <2>1, ConcatProperties
<1> HIDE DEF whole
<1>6. /\ whole[1] = 36 /\ whole[2] = 49 /\ whole[3] = 50
      /\ n = 2 => whole[4] = 44 /\ whole[5] = 49 /\ whole[6] = 50
  <2>1. whole[1] = front[1] /\ whole[2] = front[2] /\ whole[3] = front[3]
    BY <1>2, <1>5
  <2>2. n = 2 => whole[4] = front[4] /\ whole[5] = front[5] /\ whole[6] = front[6]
    BY <1>5
  <2> QED
    BY <1>4, <2>1, <2>2
<1>7. whole[3 * n + 1] = 13 /\ whole[3 * n + 2] = 10
  BY <1>2, <1>5
<1> QED
  BY <1>3, <1>5, <1>6, <1>7 DEF whole, front, n

\* Floats are four bytes each, and four bytes more end them.
LEMMA FloatsAre ==
    ASSUME NEW sent \in Sent("JustFloat")
    PROVE  LET n == Len(sent)
               whole == Encoded("JustFloat", sent)
           IN  /\ whole \in Seq(Nat) /\ Len(whole) = 4 * n + 4
               /\ \A i \in 1 .. n : \A j \in 1 .. 4 : whole[4 * i - 4 + j] = j
               /\ \A j \in 1 .. 4 : whole[4 * n + j] = FloatTail[j]
<1> DEFINE n == Len(sent)
           number == <<1, 2, 3, 4>>
           flat == FlattenSeq(sent)
           whole == flat \o FloatTail
<1>1. n \in {1, 2} /\ DOMAIN sent = 1 .. n /\ \A i \in 1 .. n : sent[i] = number
  BY ListsAre DEF Number
<1>2. number \in Seq(Nat) /\ Len(number) = 4 /\ \A j \in 1 .. 4 : number[j] = j
  OBVIOUS
<1>3. FloatTail \in Seq(Nat) /\ Len(FloatTail) = 4
  BY DEF FloatTail
<1>4. sent \in [1 .. n -> Seq(Nat)]
  <2>1. sent \in OneOrTwo({number})
    BY DEF Sent, Values
  <2>2. sent \in Seq({number})
    <3> HIDE DEF number
    <3> QED
      BY <2>1, SentAre
  <2> HIDE DEF number
  <2>3. sent \in [1 .. n -> {number}]
    BY <2>2, LenProperties
  <2> HIDE DEF n
  <2> QED
    BY <1>2, <2>3
<1>5. flat = IF n = 1 THEN number ELSE number \o number
  <2>1. flat = IF n = 1 THEN sent[1] ELSE sent[1] \o sent[2]
    <3> HIDE DEF n
    <3> QED
      BY <1>1, <1>4, FlattenIs
  <2>2. sent[1] = number /\ (n = 2 => sent[2] = number)
    <3> HIDE DEF number
    <3> QED
      BY <1>1
  <2> HIDE DEF flat, n, number
  <2> QED
    BY <1>1, <2>1, <2>2
<1>6. Encoded("JustFloat", sent) = whole
  BY DEF Encoded
<1> HIDE DEF flat, n, number
<1>7. flat \in Seq(Nat) /\ Len(flat) = 4 * n
      /\ \A i \in 1 .. n : \A j \in 1 .. 4 : flat[4 * i - 4 + j] = j
  <2>1. CASE n = 1
    <3>1. flat = number
      BY <1>5, <2>1
    <3> QED
      BY <1>2, <2>1, <3>1
  <2>2. CASE n = 2
    <3>1. flat = number \o number
      BY <1>5, <2>2
    <3>2. /\ flat \in Seq(Nat) /\ Len(flat) = 4 + 4
          /\ \A i \in 1 .. 4 : flat[i] = number[i]
          /\ \A i \in 1 .. 4 : flat[4 + i] = number[i]
      <4>1. number \in Seq(Nat)
        BY <1>2
      <4>2. /\ number \o number \in Seq(Nat) /\ Len(number \o number) = Len(number) + Len(number)
            /\ \A i \in 1 .. Len(number) : (number \o number)[i] = number[i]
            /\ \A i \in 1 .. Len(number) : (number \o number)[Len(number) + i] = number[i]
        BY <4>1, JoinIs
      <4> QED
        BY <1>2, <3>1, <4>2
    <3>3. ASSUME NEW i \in 1 .. n, NEW j \in 1 .. 4 PROVE flat[4 * i - 4 + j] = j
      <4>1. CASE i = 1
        BY <1>2, <3>2, <4>1
      <4>2. CASE i = 2
        <5>1. 4 * i - 4 + j = 4 + j
          BY <4>2
        <5> QED
          BY <1>2, <3>2, <5>1
      <4> QED
        BY <2>2, <4>1, <4>2
    <3> QED
      BY <2>2, <3>2, <3>3
  <2> QED
    BY <1>1, <2>1, <2>2
<1>8. /\ whole \in Seq(Nat) /\ Len(whole) = 4 * n + 4
      /\ \A i \in 1 .. 4 * n : whole[i] = flat[i]
      /\ \A j \in 1 .. 4 : whole[4 * n + j] = FloatTail[j]
  <2>0. flat \in Seq(Nat) /\ FloatTail \in Seq(Nat)
    BY <1>3, <1>7
  <2>1. /\ whole \in Seq(Nat) /\ Len(whole) = Len(flat) + Len(FloatTail)
        /\ \A i \in 1 .. Len(flat) : whole[i] = flat[i]
        /\ \A j \in 1 .. Len(FloatTail) : whole[Len(flat) + j] = FloatTail[j]
    BY <2>0, JoinIs
  <2> HIDE DEF whole
  <2> QED
    BY <1>3, <1>7, <2>1
<1> HIDE DEF whole
<1>9. ASSUME NEW i \in 1 .. n, NEW j \in 1 .. 4 PROVE whole[4 * i - 4 + j] = j
  <2>1. 4 * i - 4 + j \in 1 .. 4 * n
    BY <1>1
  <2> QED
    BY <1>7, <1>8, <2>1
<1> QED
  BY <1>6, <1>8, <1>9 DEF whole, n

-----------------------------------------------------------------------------
(* The protocols of VOFA *)

\* The part of a buffer that begins at a place: where it ends, and it, if it has a
\* byte.
PartEnd(b, separator, i) == Min(Occurrences(b, <<separator>>, i) \cup {Len(b) + 1})
PartAt(b, separator, i) ==
    IF PartEnd(b, separator, i) = i THEN <<>> ELSE <<SubSeq(b, i, PartEnd(b, separator, i) - 1)>>

\* A part ends before the next separator or at the end.
LEMMA PartEndIs ==
    ASSUME NEW b \in Seq(Nat), NEW separator \in Nat, NEW i \in 1 .. Len(b)
    PROVE  /\ PartEnd(b, separator, i) \in i .. Len(b) + 1
           /\ PartEnd(b, separator, i) <= Len(b) => b[PartEnd(b, separator, i)] = separator
           /\ \A p \in i .. Len(b) : b[p] = separator => PartEnd(b, separator, i) <= p
<1> DEFINE ends == {p \in i .. Len(b) : b[p] = separator} \cup {Len(b) + 1}
<1>1. Len(b) \in Nat
  BY LenProperties
<1>2. PartEnd(b, separator, i) = Min(ends)
  <2>1. Occurrences(b, <<separator>>, i) = {p \in i .. Len(b) : b[p] = separator}
    BY ByteOccurs
  <2> QED
    BY <2>1 DEF PartEnd
<1>3. ends \in SUBSET Nat /\ ends # {}
  BY <1>1
<1>4. Min(ends) \in ends /\ \A p \in ends : Min(ends) <= p
  <2> HIDE DEF ends
  <2> QED
    BY <1>3, LeastIs
<1> QED
  BY <1>1, <1>2, <1>4

\* A text is split from its beginning to its end.
LEMMA SplitSolved ==
    ASSUME NEW b, NEW separator, Len(b) \in Nat,
           \A i \in 1 .. Len(b) : PartEnd(b, separator, i) \in i .. Len(b) + 1
    PROVE  \E split :
              /\ Split(b, separator) = split[1]
              /\ \A i \in 1 .. Len(b) + 2 :
                    split[i] =
                        IF i > Len(b) THEN <<>>
                        ELSE PartAt(b, separator, i) \o split[PartEnd(b, separator, i) + 1]
<1> DEFINE N == Len(b) + 2
           stops == {i \in 1 .. N : i > Len(b)}
           rest == [i \in 1 .. N |-> <<>>]
           own == [i \in 1 .. N |-> PartAt(b, separator, i)]
           next == [i \in 1 .. N |-> PartEnd(b, separator, i) + 1]
           From(f, i) == IF i > Len(b) THEN <<>>
                         ELSE PartAt(b, separator, i) \o f[PartEnd(b, separator, i) + 1]
           All(f) == [i \in 1 .. N |-> From(f, i)]
           split == CHOOSE f : f = All(f)
<1>1. N \in Nat /\ Len(b) \in Nat
  OBVIOUS
<1>2. \A i \in 1 .. N : i \notin stops => next[i] \in i + 1 .. N
  <2> TAKE i \in 1 .. N
  <2> HAVE i \notin stops
  <2>1. i \in 1 .. Len(b)
    BY <1>1
  <2>2. PartEnd(b, separator, i) \in i .. Len(b) + 1
    BY <2>1
  <2> QED
    BY <1>1, <2>2
<1>3. PICK g : g = Backwards(g, N, stops, rest, own, next)
  <2>1. N \in Nat
    BY <1>1
  <2>2. GoesOn(N, stops, next)
    <3> HIDE DEF stops, next, N
    <3> QED
      BY <1>2 DEF GoesOn
  <2> HIDE DEF stops, rest, own, next, N
  <2> QED
    BY <2>1, <2>2, FromTheEnd
<1> DEFINE f == [i \in 1 .. N |-> g[i].plotted]
<1>4. \A i \in 1 .. N : g[i].plotted = IF i \in stops THEN <<>> ELSE own[i] \o g[next[i]].plotted
  <2> DEFINE whole == Backwards(g, N, stops, rest, own, next)
  <2>1. \A i \in 1 .. N :
            whole[i].plotted = IF i \in stops THEN <<>> ELSE own[i] \o g[next[i]].plotted
    <3> HIDE DEF stops, rest, own, next, N
    <3> QED
      BY DEF Backwards
  <2> HIDE DEF whole
  <2>2. g = whole
    BY <1>3 DEF whole
  <2> QED
    BY <2>1, <2>2
<1>5. ASSUME NEW i \in 1 .. N PROVE f[i] = From(f, i)
  <2>1. CASE i > Len(b)
    BY <1>4, <2>1
  <2>2. CASE ~(i > Len(b))
    <3>1. i \notin stops /\ next[i] \in 1 .. N
      BY <1>1, <1>2, <2>2
    <3>2. own[i] = PartAt(b, separator, i) /\ next[i] = PartEnd(b, separator, i) + 1
      <4> QED
        OBVIOUS
    <3> HIDE DEF own, next, stops
    <3>3. f[next[i]] = g[next[i]].plotted /\ f[i] = g[i].plotted
      BY <3>1
    <3>4. g[i].plotted = own[i] \o g[next[i]].plotted
      BY <1>4, <3>1
    <3> HIDE DEF f
    <3> QED
      BY <2>2, <3>2, <3>3, <3>4
  <2> QED
    BY <2>1, <2>2
<1>6. f = All(f)
  <2>1. f = [i \in 1 .. N |-> f[i]]
    OBVIOUS
  <2> HIDE DEF f, From
  <2> QED
    BY <1>5, <2>1
<1>7. split = All(split)
  <2> HIDE DEF All, f
  <2> QED
    BY <1>6
<1>8. \A i \in 1 .. N : split[i] = From(split, i)
  <2> DEFINE whole == All(split)
  <2>1. \A i \in 1 .. N : whole[i] = From(split, i)
    <3> HIDE DEF From, split
    <3> QED
      OBVIOUS
  <2> HIDE DEF split, whole
  <2>2. split = whole
    BY <1>7 DEF whole
  <2> QED
    BY <2>1, <2>2
<1>9. Split(b, separator) = split[1]
  BY DEF Split, PartAt, PartEnd
<1> HIDE DEF split
<1> QED
  BY <1>8, <1>9

\* The parts of a buffer follow each other, each behind the end of the one before.
LEMMA SplitIs ==
    ASSUME NEW b \in Seq(Nat), NEW separator \in Nat
    PROVE  \E split :
              /\ Split(b, separator) = split[1]
              /\ \A i \in 1 .. Len(b) + 2 :
                    split[i] =
                        IF i > Len(b) THEN <<>>
                        ELSE PartAt(b, separator, i) \o split[PartEnd(b, separator, i) + 1]
<1>1. Len(b) \in Nat /\ \A i \in 1 .. Len(b) : PartEnd(b, separator, i) \in i .. Len(b) + 1
  BY LenProperties, PartEndIs
<1> QED
  BY <1>1, SplitSolved

\* A part of two digits.
LEMMA TwoDigits ==
    ASSUME NEW b \in Seq(Nat), NEW i \in 1 .. Len(b) - 1, b[i] = 49, b[i + 1] = 50
    PROVE  SubSeq(b, i, i + 1) = <<49, 50>>
<1> DEFINE cut == SubSeq(b, i, i + 1)
<1>1. Len(b) \in Nat /\ i \in Int /\ i + 1 \in Int /\ \A p \in i .. i + 1 : b[p] \in Nat
  BY LenProperties
<1>2. /\ cut \in Seq(Nat) /\ Len(cut) = IF i <= i + 1 THEN i + 1 - i + 1 ELSE 0
      /\ \A j \in 1 .. i + 1 - i + 1 : cut[j] = b[i + j - 1]
  BY <1>1, SubSeqProperties
<1> HIDE DEF cut
<1>3. Len(cut) = 2 /\ cut[1] = 49 /\ cut[2] = 50
  BY <1>1, <1>2
<1>4. /\ <<49, 50>> \in Seq(Nat) /\ Len(<<49, 50>>) = 2
      /\ <<49, 50>>[1] = 49 /\ <<49, 50>>[2] = 50
  OBVIOUS
<1>5. \A j \in 1 .. 2 : cut[j] = <<49, 50>>[j]
  <2>1. \A j \in 1 .. 2 : j = 1 \/ j = 2
    OBVIOUS
  <2> QED
    BY <1>3, <1>4, <2>1
<1>6. cut = <<49, 50>>
  BY <1>2, <1>3, <1>4, <1>5, SeqEqual
<1> QED
  BY <1>6 DEF cut

\* Places in a text of five bytes.
LEMMA FiveBytes ==
    ASSUME NEW l, l = 5
    PROVE  /\ 4 \in 1 .. l /\ 4 \in 1 .. l - 1 /\ 4 \in 1 .. l + 2 /\ ~(4 > l)
           /\ 7 \in 1 .. l + 2 /\ 7 > l
  OBVIOUS

\* A list of values is split into them, and they go to the channels in order.
LEMMA ListIsSplit ==
    ASSUME NEW b \in Seq(Nat), NEW separator \in Nat, NEW n \in {1, 2},
           separator \notin {49, 50}, Len(b) = 3 * n - 1, b[1] = 49, b[2] = 50,
           n = 2 => b[3] = separator /\ b[4] = 49 /\ b[5] = 50
    PROVE  InOrder(Split(b, separator)) = [i \in 1 .. n |-> <<i - 1, <<49, 50>> >>]
<1>1. PICK split :
          /\ Split(b, separator) = split[1]
          /\ \A i \in 1 .. Len(b) + 2 :
                split[i] =
                    IF i > Len(b) THEN <<>>
                    ELSE PartAt(b, separator, i) \o split[PartEnd(b, separator, i) + 1]
  BY SplitIs
<1> DEFINE values == Split(b, separator)
           digits == <<49, 50>>
           one == <<digits>>
<1>2. /\ one \in Seq({digits}) /\ Len(one) = 1 /\ one[1] = digits
      /\ one \o <<>> = one
  OBVIOUS
<1>3. /\ one \o one \in Seq({digits}) /\ Len(one \o one) = 2
      /\ (one \o one)[1] = digits /\ (one \o one)[2] = digits
  OBVIOUS
<1>4. PartEnd(b, separator, 1) = 3
  <2> DEFINE e == PartEnd(b, separator, 1)
  <2>1. 1 \in 1 .. Len(b) /\ Len(b) \in {2, 5}
    OBVIOUS
  <2>2. /\ e \in 1 .. Len(b) + 1 /\ (e <= Len(b) => b[e] = separator)
        /\ \A p \in 1 .. Len(b) : b[p] = separator => e <= p
    BY <2>1, PartEndIs
  <2> HIDE DEF e
  <2>3. e # 1 /\ e # 2
    BY <2>1, <2>2
  <2>4. CASE n = 1
    <3>1. Len(b) = 2
      BY <2>4
    <3> QED
      BY <2>2, <2>3, <3>1 DEF e
  <2>5. CASE n = 2
    <3>1. Len(b) = 5
      BY <2>5
    <3>2. 3 \in 1 .. Len(b) /\ b[3] = separator
      BY <2>5, <3>1
    <3>3. e <= 3
      BY <2>2, <3>2
    <3> QED
      BY <2>2, <2>3, <3>3 DEF e
  <2> QED
    BY <2>4, <2>5
<1>5. SubSeq(b, 1, 2) = digits
  <2>1. 1 \in 1 .. Len(b) - 1 /\ 1 + 1 = 2
    OBVIOUS
  <2> QED
    BY <2>1, TwoDigits
<1> HIDE DEF digits
<1>6. split[1] = one \o split[4]
  <2>1. 1 \in 1 .. Len(b) + 2 /\ ~(1 > Len(b)) /\ 3 # 1 /\ 3 - 1 = 2 /\ 3 + 1 = 4
    OBVIOUS
  <2> HIDE DEF one, PartAt
  <2> QED
    BY <1>1, <1>4, <1>5, <2>1 DEF one, PartAt
<1>7. values \in Seq({digits}) /\ Len(values) = n /\ \A i \in 1 .. n : values[i] = digits
  <2>1. CASE n = 1
    <3>1. 4 \in 1 .. Len(b) + 2 /\ 4 > Len(b)
      BY <2>1
    <3>2. split[4] = <<>>
      BY <1>1, <3>1
    <3>3. values = one
      <4> HIDE DEF one, PartAt
      <4> QED
        BY <1>1, <1>2, <1>6, <3>2
    <3> HIDE DEF values, one
    <3> QED
      BY <1>2, <2>1, <3>3
  <2>2. CASE n = 2
    <3>1. Len(b) = 5
      BY <2>2
    <3> DEFINE e == PartEnd(b, separator, 4)
    <3>2. e = 6
      <4>1. 4 \in 1 .. Len(b)
        BY <3>1, FiveBytes, Zenon
      <4>2. e \in 4 .. Len(b) + 1 /\ (e <= Len(b) => b[e] = separator)
        BY <4>1, PartEndIs
      <4> HIDE DEF e
      <4>3. e # 4 /\ e # 5
        BY <2>2, <3>1, <4>2
      <4> QED
        BY <3>1, <4>2, <4>3
    <3>3. SubSeq(b, 4, 5) = digits
      <4>1. 4 \in 1 .. Len(b) - 1
        BY <3>1, FiveBytes, Zenon
      <4>2. 4 + 1 = 5
        OBVIOUS
      <4> QED
        BY <2>2, <4>1, <4>2, TwoDigits DEF digits
    <3>4. split[4] = one \o split[7]
      <4>1. 4 \in 1 .. Len(b) + 2 /\ ~(4 > Len(b))
        BY <3>1, FiveBytes, Zenon
      <4>2. 6 # 4 /\ 6 - 1 = 5 /\ 6 + 1 = 7
        OBVIOUS
      <4> HIDE DEF one, PartAt
      <4> QED
        BY <1>1, <3>2, <3>3, <4>1, <4>2 DEF one, PartAt
    <3>5. 7 \in 1 .. Len(b) + 2 /\ 7 > Len(b)
      BY <3>1, FiveBytes, Zenon
    <3>6. split[7] = <<>>
      BY <1>1, <3>5
    <3> HIDE DEF one, PartAt
    <3>7. values = one \o one
      BY <1>1, <1>2, <1>6, <3>4, <3>6
    <3> HIDE DEF values
    <3>8. \A i \in 1 .. 2 : i = 1 \/ i = 2
      OBVIOUS
    <3> QED
      BY <1>3, <2>2, <3>7, <3>8
  <2> QED
    BY <2>1, <2>2
<1> HIDE DEF values
<1>8. Min({Len(values), MaxChannels}) = n
  <2>1. {n, MaxChannels} \in SUBSET Nat /\ {n, MaxChannels} # {} /\ n <= MaxChannels
    BY ChannelsAssumption
  <2>2. Min({n, MaxChannels}) \in {n, MaxChannels}
        /\ \A m \in {n, MaxChannels} : Min({n, MaxChannels}) <= m
    BY <2>1, LeastIs
  <2>3. Min({n, MaxChannels}) = n
    BY <2>1, <2>2, ChannelsAssumption
  <2> QED
    BY <1>7, <2>3
<1>9. InOrder(values) = [i \in 1 .. n |-> <<i - 1, values[i]>>]
  BY <1>8 DEF InOrder
<1> QED
  BY <1>7, <1>9 DEF values, digits

\* The first bytes, and that the others complete them.
LEMMA PrefixIs ==
    ASSUME NEW b \in Seq(Nat), NEW k \in 1 .. Len(b)
    PROVE  /\ SubSeq(b, 1, k) \in Seq(Nat) /\ Len(SubSeq(b, 1, k)) = k
           /\ \A p \in 1 .. k : SubSeq(b, 1, k)[p] = b[p]
           /\ Rest(b, k + 1) \in Seq(Nat) /\ Len(Rest(b, k + 1)) = Len(b) - k
           /\ \A p \in 1 .. Len(b) - k : Rest(b, k + 1)[p] = b[k + p]
           /\ SubSeq(b, 1, k) \o Rest(b, k + 1) = b
<1> DEFINE cut == SubSeq(b, 1, k)
           rest == Rest(b, k + 1)
           m == Len(b)
<1>1. m \in Nat /\ k \in 1 .. m /\ 1 \in Int /\ k \in Int /\ \A j \in 1 .. k : b[j] \in Nat
  BY LenProperties
<1>2. /\ cut \in Seq(Nat) /\ Len(cut) = IF 1 <= k THEN k - 1 + 1 ELSE 0
      /\ \A j \in 1 .. k - 1 + 1 : cut[j] = b[1 + j - 1]
  BY <1>1, SubSeqProperties
<1> HIDE DEF cut
<1>3. Len(cut) = k /\ \A p \in 1 .. k : cut[p] = b[p]
  BY <1>1, <1>2
<1>4. k + 1 \in 1 .. Len(b) + 1
  <2>1. k + 1 \in 1 .. m + 1
    <3> HIDE DEF m
    <3> QED
      BY <1>1
  <2> QED
    BY <2>1
<1>5. /\ rest \in Seq(Nat) /\ Len(rest) = Len(b) - (k + 1) + 1
      /\ \A j \in 1 .. Len(b) - (k + 1) + 1 : rest[j] = b[(k + 1) + j - 1]
  BY <1>4, RestIs
<1> HIDE DEF rest
<1>6. Len(rest) = m - k /\ \A p \in 1 .. m - k : rest[p] = b[k + p]
  <2>1. m - (k + 1) + 1 = m - k /\ \A p \in 1 .. m - k : (k + 1) + p - 1 = k + p
    <3> HIDE DEF m
    <3> QED
      BY <1>1
  <2> QED
    BY <1>5, <2>1
<1>7. /\ cut \o rest \in Seq(Nat) /\ Len(cut \o rest) = Len(cut) + Len(rest)
      /\ \A i \in 1 .. Len(cut) : (cut \o rest)[i] = cut[i]
      /\ \A j \in 1 .. Len(rest) : (cut \o rest)[Len(cut) + j] = rest[j]
  <2>1. cut \in Seq(Nat) /\ rest \in Seq(Nat)
    BY <1>2, <1>5
  <2> QED
    BY <2>1, JoinIs
<1> DEFINE joined == cut \o rest
<1> HIDE DEF joined
<1>8. Len(joined) = m
  <2>1. Len(joined) = k + (m - k)
    BY <1>3, <1>6, <1>7 DEF joined
  <2> HIDE DEF m
  <2> QED
    BY <1>1, <2>1
<1>9. \A p \in 1 .. m : joined[p] = b[p]
  <2> TAKE p \in 1 .. m
  <2>1. CASE p <= k
    <3>1. p \in 1 .. k
      <4> HIDE DEF m
      <4> QED
        BY <1>1, <2>1
    <3> QED
      BY <1>3, <1>7, <3>1 DEF joined
  <2>2. CASE ~(p <= k)
    <3> DEFINE j == p - k
    <3>1. j \in 1 .. m - k /\ k + j = p
      <4> HIDE DEF m
      <4> QED
        BY <1>1, <2>2
    <3> HIDE DEF j
    <3> QED
      BY <1>3, <1>6, <1>7, <3>1 DEF joined
  <2> QED
    BY <2>1, <2>2
<1>10. joined = b
  <2>1. joined \in Seq(Nat)
    BY <1>7 DEF joined
  <2> QED
    BY <1>8, <1>9, <2>1, SeqEqual
<1> QED
  BY <1>2, <1>3, <1>5, <1>6, <1>10 DEF cut, rest, joined

\* Small numbers of a channel.
LEMMA SmallModulo ==
    ASSUME NEW m \in 0 .. 1
    PROVE  m % MaxChannels = m
  BY ChannelsAssumption

-----------------------------------------------------------------------------
(* Lists of values *)

\* What a list of n values plots.
Plotted(p, n) == [i \in 1 .. n |-> <<i - 1, Number(p)>>]

\* A list without an end is plotted number by number.
LEMMA RawDataParsed ==
    ASSUME NEW sent \in Sent("RawData")
    PROVE  LET whole == Encoded("RawData", sent) IN
           /\ whole \in Seq(Nat)
           /\ parseRawDataProtocol(whole).plotted = Plotted("RawData", Len(sent))
           /\ parseRawDataProtocol(whole).left = <<>>
<1> DEFINE n == Len(sent)
           whole == Joined(sent, 32)
<1>1. /\ whole \in Seq(Nat) /\ Len(whole) = 3 * n - 1
      /\ whole[1] = 49 /\ whole[2] = 50
      /\ n = 2 => whole[3] = 32 /\ whole[4] = 49 /\ whole[5] = 50
  BY JoinedIs
<1>2. n \in {1, 2}
  BY ListsAre
<1>3. Encoded("RawData", sent) = whole
  BY DEF Encoded, Space
<1> HIDE DEF n, whole
<1>4. InOrder(Split(whole, 32)) = [i \in 1 .. n |-> <<i - 1, <<49, 50>> >>]
  <2>1. 32 \in Nat /\ 32 \notin {49, 50}
    OBVIOUS
  <2> QED
    BY <1>1, <1>2, <2>1, ListIsSplit, Zenon
<1> QED
  BY <1>1, <1>3, <1>4 DEF parseRawDataProtocol, Space, Plotted, Number, n

\* A packet is plotted when all of it is there, and waits as long as it is not.
LEMMA PacketParsed ==
    ASSUME NEW sent \in Sent("FireWater")
    PROVE  LET whole == Encoded("FireWater", sent) IN
           /\ whole \in Seq(Nat)
           /\ parseFireWaterProtocol(whole).plotted = Plotted("FireWater", Len(sent))
           /\ parseFireWaterProtocol(whole).left = <<>>
           /\ \A k \in 1 .. Len(whole) - 1 :
                 parseFireWaterProtocol(SubSeq(whole, 1, k))
                     = [plotted |-> <<>>, left |-> SubSeq(whole, 1, k)]
<1> DEFINE n == Len(sent)
           whole == Encoded("FireWater", sent)
<1>1. /\ whole \in Seq(Nat) /\ Len(whole) = 3 * n + 2
      /\ whole[1] = 36 /\ whole[2] = 49 /\ whole[3] = 50
      /\ n = 2 => whole[4] = 44 /\ whole[5] = 49 /\ whole[6] = 50
      /\ whole[3 * n + 1] = 13 /\ whole[3 * n + 2] = 10
  BY PacketIs
<1>2. n \in {1, 2}
  BY ListsAre
<1> HIDE DEF n, whole
<1>3. ASSUME NEW p \in 1 .. 3 * n + 2
      PROVE  (whole[p] = 36 <=> p = 1) /\ (whole[p] = 10 <=> p = 3 * n + 2)
  <2>1. CASE n = 1
    BY <1>1, <2>1
  <2>2. CASE n = 2
    BY <1>1, <2>2
  <2> QED
    BY <1>2, <2>1, <2>2
<1>4. ASSUME NEW b \in Seq(Nat), NEW l \in 1 .. 3 * n + 2, Len(b) = l,
             \A p \in 1 .. l : b[p] = whole[p]
      PROVE  /\ Occurrences(b, <<Dollar>>, 1) = {1}
             /\ Occurrences(b, LineEnd, 1) = IF l = 3 * n + 2 THEN {3 * n + 1} ELSE {}
  <2>1. Occurrences(b, <<Dollar>>, 1) = {p \in 1 .. Len(b) : b[p] = 36}
    BY ByteOccurs DEF Dollar
  <2>2. Occurrences(b, LineEnd, 1) = {p \in 1 .. Len(b) - 1 : b[p] = 13 /\ b[p + 1] = 10}
    BY TwoBytesOccur DEF LineEnd
  <2>3. {p \in 1 .. l : b[p] = 36} = {1}
    BY <1>2, <1>3, <1>4
  <2>4. {p \in 1 .. l - 1 : b[p] = 13 /\ b[p + 1] = 10}
            = IF l = 3 * n + 2 THEN {3 * n + 1} ELSE {}
    <3>1. \A p \in 1 .. l - 1 : p + 1 \in 1 .. l /\ p \in 1 .. l /\ p + 1 \in 1 .. 3 * n + 2
      BY <1>2
    <3>2. \A p \in 1 .. l - 1 : b[p + 1] = 10 <=> p = 3 * n + 1
      BY <1>2, <1>3, <1>4, <3>1
    <3>3. 3 * n + 1 \in 1 .. l - 1 => l = 3 * n + 2 /\ b[3 * n + 1] = 13
      BY <1>1, <1>2, <1>4
    <3> QED
      BY <1>2, <3>2, <3>3
  <2> QED
    BY <1>4, <2>1, <2>2, <2>3, <2>4
<1>5. ASSUME NEW m \in Nat PROVE Min({m}) = m
  BY LeastIs
<1>6. /\ parseFireWaterProtocol(whole).plotted = Plotted("FireWater", n)
      /\ parseFireWaterProtocol(whole).left = <<>>
  <2>1. Occurrences(whole, <<Dollar>>, 1) = {1} /\ Occurrences(whole, LineEnd, 1) = {3 * n + 1}
    BY <1>1, <1>2, <1>4
  <2>2. Min({1}) = 1 /\ Min({3 * n + 1}) = 3 * n + 1
    BY <1>2, <1>5
  <2> DEFINE list == SubSeq(whole, 2, 3 * n)
  <2>3. /\ parseFireWaterProtocol(whole).plotted = InOrder(Split(list, 44))
        /\ parseFireWaterProtocol(whole).left = Rest(whole, 3 * n + 3)
    <3>1. 1 + 1 = 2 /\ 3 * n + 1 - 1 = 3 * n /\ 3 * n + 1 + 2 = 3 * n + 3
      BY <1>2
    <3> DEFINE begins == Occurrences(whole, <<Dollar>>, 1)
               ends == Occurrences(whole, LineEnd, Min(begins))
    <3>2. begins = {1} /\ ends = {3 * n + 1} /\ Min(begins) = 1 /\ Min(ends) = 3 * n + 1
      BY <2>1, <2>2
    <3>3. parseFireWaterProtocol(whole) =
              IF begins = {} \/ ends = {} THEN [plotted |-> <<>>, left |-> whole]
              ELSE [plotted |-> InOrder(Split(SubSeq(whole, Min(begins) + 1, Min(ends) - 1), 44)),
                    left |-> Rest(whole, Min(ends) + 2)]
      BY DEF parseFireWaterProtocol, Comma
    <3> HIDE DEF begins, ends
    <3>4. begins # {} /\ ends # {}
      BY <3>2
    <3>5. /\ parseFireWaterProtocol(whole).plotted
                  = InOrder(Split(SubSeq(whole, Min(begins) + 1, Min(ends) - 1), 44))
          /\ parseFireWaterProtocol(whole).left = Rest(whole, Min(ends) + 2)
      BY <3>3, <3>4
    <3>6. Min(begins) + 1 = 2 /\ Min(ends) - 1 = 3 * n /\ Min(ends) + 2 = 3 * n + 3
      <4>1. Min(begins) = 1 /\ Min(ends) = 3 * n + 1 /\ n \in Nat
        BY <1>2, <3>2
      <4> DEFINE first == Min(begins)
                 last == Min(ends)
      <4> HIDE DEF first, last
      <4>2. first = 1 /\ last = 3 * n + 1
        BY <4>1 DEF first, last
      <4>3. first + 1 = 2 /\ last - 1 = 3 * n /\ last + 2 = 3 * n + 3
        BY <4>1, <4>2
      <4> QED
        BY <4>3 DEF first, last
    <3> QED
      BY <3>5, <3>6, Zenon
  <2>4. /\ list \in Seq(Nat) /\ Len(list) = 3 * n - 1
        /\ \A j \in 1 .. 3 * n - 1 : list[j] = whole[j + 1]
    <3>1. 2 \in Int /\ 3 * n \in Int /\ \A j \in 2 .. 3 * n : whole[j] \in Nat
      BY <1>1, <1>2, LenProperties
    <3>2. /\ list \in Seq(Nat) /\ Len(list) = IF 2 <= 3 * n THEN 3 * n - 2 + 1 ELSE 0
          /\ \A j \in 1 .. 3 * n - 2 + 1 : list[j] = whole[2 + j - 1]
      BY <3>1, SubSeqProperties
    <3> HIDE DEF list
    <3> QED
      BY <1>2, <3>2
  <2> HIDE DEF list
  <2>5. /\ list[1] = 49 /\ list[2] = 50
        /\ n = 2 => list[3] = 44 /\ list[4] = 49 /\ list[5] = 50
    <3>1. 1 \in 1 .. 3 * n - 1 /\ 2 \in 1 .. 3 * n - 1
      BY <1>2
    <3>2. n = 2 => 3 \in 1 .. 3 * n - 1 /\ 4 \in 1 .. 3 * n - 1 /\ 5 \in 1 .. 3 * n - 1
      OBVIOUS
    <3>3. 1 + 1 = 2 /\ 2 + 1 = 3 /\ 3 + 1 = 4 /\ 4 + 1 = 5 /\ 5 + 1 = 6
      OBVIOUS
    <3> QED
      BY <1>1, <2>4, <3>1, <3>2, <3>3
  <2>6. InOrder(Split(list, 44)) = [i \in 1 .. n |-> <<i - 1, <<49, 50>> >>]
    <3>1. 44 \in Nat /\ 44 \notin {49, 50}
      OBVIOUS
    <3> QED
      BY <1>2, <2>4, <2>5, <3>1, ListIsSplit, Zenon
  <2>7. Rest(whole, 3 * n + 3) = <<>>
    <3>1. 3 * n + 3 \in 1 .. Len(whole) + 1 /\ 3 * n + 3 = Len(whole) + 1
      BY <1>1, <1>2
    <3> QED
      BY <1>1, <3>1, RestIs
  <2> QED
    BY <2>3, <2>6, <2>7 DEF Plotted, Number
<1>7. ASSUME NEW k \in 1 .. Len(whole) - 1
      PROVE  parseFireWaterProtocol(SubSeq(whole, 1, k))
                 = [plotted |-> <<>>, left |-> SubSeq(whole, 1, k)]
  <2> DEFINE b == SubSeq(whole, 1, k)
  <2>1. k \in 1 .. Len(whole) /\ k \in 1 .. 3 * n + 2 /\ k # 3 * n + 2
    BY <1>1, <1>2
  <2>2. b \in Seq(Nat) /\ Len(b) = k /\ \A p \in 1 .. k : b[p] = whole[p]
    BY <1>1, <2>1, PrefixIs
  <2> HIDE DEF b
  <2>3. Occurrences(b, <<Dollar>>, 1) = {1} /\ Occurrences(b, LineEnd, 1) = {}
    BY <1>4, <2>1, <2>2
  <2>4. Min({1}) = 1
    BY <1>5
  <2>5. parseFireWaterProtocol(b) = [plotted |-> <<>>, left |-> b]
    BY <2>3, <2>4 DEF parseFireWaterProtocol
  <2> QED
    BY <2>5 DEF b
<1> QED
  BY <1>1, <1>6, <1>7 DEF n, whole

\* Four bytes are what they should be.
LEMMA FourBytes ==
    ASSUME NEW s \in Seq(Nat), Len(s) = 4, NEW t \in Seq(Nat), Len(t) = 4,
           \A j \in 1 .. 4 : s[j] = t[j]
    PROVE  s = t
  BY SeqEqual

\* Only the words at the end that end the floats are no floats.
LEMMA TailOmitted ==
    ASSUME NEW words \in Seq(Seq(Nat)), NEW m \in 0 .. Len(words),
           \A i \in 1 .. Len(words) : words[i] = FloatTail <=> i > m
    PROVE  LET floats == Omitting(words, {FloatTail}) IN
           /\ floats \in Seq(Seq(Nat)) /\ Len(floats) = m
           /\ \A i \in 1 .. m : floats[i] = words[i]
<1>1. PICK T : T = {FloatTail}
  OBVIOUS
<1>2. \A i \in 1 .. Len(words) : words[i] \in T <=> i > m
  BY <1>1
<1>3. /\ Omitting(words, T) \in Seq(Seq(Nat)) /\ Len(Omitting(words, T)) = m
      /\ \A i \in 1 .. m : Omitting(words, T)[i] = words[i]
  BY <1>2, OmittingTheLast
<1> QED
  BY <1>1, <1>3

\* m numbers, perhaps a tail, and less than a number.
LEMMA FloatsParsed ==
    ASSUME NEW b \in Seq(Nat), NEW m \in Nat, NEW t \in {0, 1}, NEW r \in 0 .. 3, NEW c \in Nat,
           Len(b) = 4 * (m + t) + r,
           \A i \in 1 .. m : \A j \in 1 .. 4 : b[4 * i - 4 + j] = j,
           t = 1 => \A j \in 1 .. 4 : b[4 * m + j] = FloatTail[j]
    PROVE  parseJustFloatProtocol(b, c) =
               [plotted |-> [i \in 1 .. m |-> <<(c + i - 1) % MaxChannels, <<1, 2, 3, 4>> >>],
                next |-> (c + m) % MaxChannels,
                left |-> Rest(b, 4 * (m + t) + 1)]
<1> DEFINE words == [i \in 1 .. Len(b) \div 4 |-> SubSeq(b, 4 * i - 3, 4 * i)]
           floats == Omitting(words, {FloatTail})
           number == <<1, 2, 3, 4>>
<1>1. Len(b) \div 4 = m + t /\ m + t \in Nat
  <2>1. (4 * (m + t) + r) \div 4 = m + t
    OBVIOUS
  <2> QED
    BY <2>1
<1>2. /\ words \in Seq(Seq(Nat)) /\ Len(words) = m + t
      /\ \A i \in 1 .. m + t :
            /\ Len(words[i]) = 4
            /\ \A j \in 1 .. 4 : words[i][j] = b[4 * i - 4 + j]
  BY <1>1, WordsAre
<1>3. parseJustFloatProtocol(b, c) =
          [plotted |-> [i \in DOMAIN floats |-> <<(c + i - 1) % MaxChannels, floats[i]>>],
           next |-> (c + Len(floats)) % MaxChannels,
           left |-> Rest(b, 4 * Len(words) + 1)]
  BY DEF parseJustFloatProtocol
<1>4. /\ number \in Seq(Nat) /\ Len(number) = 4 /\ \A j \in 1 .. 4 : number[j] = j
      /\ FloatTail \in Seq(Nat) /\ Len(FloatTail) = 4 /\ FloatTail[1] = 0 /\ number[1] = 1
  BY DEF FloatTail
<1> HIDE DEF words, number
<1>5. \A i \in 1 .. m + t : words[i] \in Seq(Nat)
  BY <1>1, <1>2, LenProperties
<1>6. ASSUME NEW i \in 1 .. m PROVE words[i] = number /\ number # FloatTail
  <2>1. i \in 1 .. m + t
    OBVIOUS
  <2>2. \A j \in 1 .. 4 : words[i][j] = number[j]
    BY <1>2, <1>4, <2>1
  <2>3. words[i] = number
    BY <1>2, <1>4, <1>5, <2>1, <2>2, FourBytes
  <2> QED
    BY <1>4, <2>3
<1>7. ASSUME NEW i \in 1 .. m + t, ~(i <= m) PROVE words[i] = FloatTail
  <2>1. t = 1 /\ i = m + 1 /\ 4 * i - 4 = 4 * m
    BY <1>7
  <2>2. \A j \in 1 .. 4 : words[i][j] = FloatTail[j]
    BY <1>2, <2>1
  <2> QED
    BY <1>2, <1>4, <1>5, <2>2, FourBytes
<1>8. /\ floats \in Seq(Seq(Nat)) /\ Len(floats) = m
      /\ \A i \in 1 .. m : floats[i] = number
  <2>1. \A i \in 1 .. m + t : i > m <=> ~(i <= m)
    OBVIOUS
  <2>2. \A i \in 1 .. m + t : i <= m => i \in 1 .. m
    OBVIOUS
  <2>3. \A i \in 1 .. m + t : words[i] = FloatTail <=> i > m
    BY <1>6, <1>7, <2>1, <2>2
  <2>4. m \in 0 .. Len(words) /\ \A i \in 1 .. Len(words) : words[i] = FloatTail <=> i > m
    BY <1>2, <2>3
  <2>5. /\ floats \in Seq(Seq(Nat)) /\ Len(floats) = m
        /\ \A i \in 1 .. m : floats[i] = words[i]
    BY <1>2, <2>4, TailOmitted
  <2> HIDE DEF floats
  <2> QED
    BY <1>6, <2>5
<1>9. DOMAIN floats = 1 .. m
  BY <1>8, LenProperties
<1> HIDE DEF floats
<1>10. [i \in DOMAIN floats |-> <<(c + i - 1) % MaxChannels, floats[i]>>]
           = [i \in 1 .. m |-> <<(c + i - 1) % MaxChannels, number>>]
  BY <1>8, <1>9
<1> QED
  BY <1>2, <1>3, <1>8, <1>10 DEF number

\* A list of floats is plotted float by float.
LEMMA FloatsPlotted ==
    ASSUME NEW sent \in Sent("JustFloat")
    PROVE  LET whole == Encoded("JustFloat", sent) IN
           /\ whole \in Seq(Nat)
           /\ parseJustFloatProtocol(whole, 0).plotted = Plotted("JustFloat", Len(sent))
           /\ parseJustFloatProtocol(whole, 0).left = <<>>
<1> DEFINE n == Len(sent)
           whole == Encoded("JustFloat", sent)
           parsed == parseJustFloatProtocol(whole, 0)
<1>1. /\ whole \in Seq(Nat) /\ Len(whole) = 4 * n + 4
      /\ \A i \in 1 .. n : \A j \in 1 .. 4 : whole[4 * i - 4 + j] = j
      /\ \A j \in 1 .. 4 : whole[4 * n + j] = FloatTail[j]
  BY FloatsAre
<1>2. n \in {1, 2}
  BY ListsAre
<1> HIDE DEF n, whole
<1>3. parsed = [plotted |-> [i \in 1 .. n |-> <<(0 + i - 1) % MaxChannels, <<1, 2, 3, 4>> >>],
                next |-> (0 + n) % MaxChannels,
                left |-> Rest(whole, 4 * (n + 1) + 1)]
  <2>1. Len(whole) = 4 * (n + 1) + 0 /\ n \in Nat /\ 1 \in {0, 1} /\ 0 \in 0 .. 3 /\ 0 \in Nat
    BY <1>1, <1>2
  <2> QED
    BY <1>1, <2>1, FloatsParsed
<1>4. \A i \in 1 .. n : (0 + i - 1) % MaxChannels = i - 1
  <2>1. \A i \in 1 .. n : i - 1 \in 0 .. 1 /\ 0 + i - 1 = i - 1
    BY <1>2
  <2> QED
    BY <2>1, SmallModulo
<1>5. Rest(whole, 4 * (n + 1) + 1) = <<>>
  <2>1. 4 * (n + 1) + 1 \in 1 .. Len(whole) + 1 /\ 4 * (n + 1) + 1 = Len(whole) + 1
    BY <1>1, <1>2
  <2> QED
    BY <1>1, <2>1, RestIs
<1> HIDE DEF parsed
<1>6. parsed.plotted = [i \in 1 .. n |-> <<i - 1, <<1, 2, 3, 4>> >>] /\ parsed.left = <<>>
  BY <1>3, <1>4, <1>5
<1>7. parsed.plotted = Plotted("JustFloat", n) /\ parsed.left = <<>>
  BY <1>6 DEF Plotted, Number
<1> QED
  BY <1>1, <1>7 DEF n, whole, parsed

\* The numbers of a list follow each other, wherever it is torn apart.
LEMMA NumbersJoined ==
    ASSUME NEW n \in Nat, NEW w \in 0 .. n, NEW v
    PROVE  [i \in 1 .. w |-> <<i - 1, v>>] \o [i \in 1 .. n - w |-> <<w + i - 1, v>>]
               = [i \in 1 .. n |-> <<i - 1, v>>]
<1> DEFINE A == Int \X {v}
           s == [i \in 1 .. w |-> <<i - 1, v>>]
           t == [i \in 1 .. n - w |-> <<w + i - 1, v>>]
           u == [i \in 1 .. n |-> <<i - 1, v>>]
<1>1. w \in Nat /\ n - w \in Nat
  OBVIOUS
<1>2. s \in [1 .. w -> A] /\ t \in [1 .. n - w -> A] /\ u \in [1 .. n -> A]
  OBVIOUS
<1>3. /\ \A i \in 1 .. w : s[i] = <<i - 1, v>>
      /\ \A i \in 1 .. n - w : t[i] = <<w + i - 1, v>>
      /\ \A i \in 1 .. n : u[i] = <<i - 1, v>>
  OBVIOUS
<1> HIDE DEF A, s, t, u
<1>4. s \in Seq(A) /\ Len(s) = w
  BY <1>1, <1>2, FunctionIsSequence
<1>5. t \in Seq(A) /\ Len(t) = n - w
  BY <1>1, <1>2, FunctionIsSequence
<1>6. u \in Seq(A) /\ Len(u) = n
  BY <1>2, FunctionIsSequence
<1>7. /\ s \o t \in Seq(A) /\ Len(s \o t) = Len(s) + Len(t)
      /\ \A i \in 1 .. Len(s) : (s \o t)[i] = s[i]
      /\ \A j \in 1 .. Len(t) : (s \o t)[Len(s) + j] = t[j]
  <2>1. s \in Seq(A) /\ t \in Seq(A)
    BY <1>4, <1>5
  <2> QED
    BY <2>1, JoinIs
<1> DEFINE joined == s \o t
<1> HIDE DEF joined
<1>8. joined \in Seq(A) /\ Len(joined) = n
  BY <1>4, <1>5, <1>7 DEF joined
<1>9. \A i \in 1 .. n : joined[i] = u[i]
  <2> TAKE i \in 1 .. n
  <2>1. CASE i <= w
    <3>1. i \in 1 .. w
      BY <2>1
    <3> QED
      BY <1>3, <1>4, <1>7, <3>1 DEF joined
  <2>2. CASE ~(i <= w)
    <3> DEFINE j == i - w
    <3>1. j \in 1 .. n - w /\ w + j = i
      BY <2>2
    <3> HIDE DEF j
    <3>2. joined[i] = t[j]
      BY <1>4, <1>5, <1>7, <3>1 DEF joined
    <3>3. t[j] = <<w + j - 1, v>>
      BY <1>3, <3>1
    <3> QED
      BY <1>3, <3>1, <3>2, <3>3
  <2> QED
    BY <2>1, <2>2
<1>10. joined = u
  BY <1>6, <1>8, <1>9, SeqEqual
<1> QED
  BY <1>10 DEF joined, s, t, u

\* What is left of the first read and the second read plot the other numbers.
LEMMA FloatsTorn ==
    ASSUME NEW sent \in Sent("JustFloat"), NEW k \in 1 .. Len(Encoded("JustFloat", sent)) - 1
    PROVE  LET whole == Encoded("JustFloat", sent)
               first == parseJustFloatProtocol(SubSeq(whole, 1, k), 0)
               second == parseJustFloatProtocol(first.left \o Rest(whole, k + 1), first.next)
           IN  /\ first.plotted \o second.plotted = Plotted("JustFloat", Len(sent))
               /\ second.left = <<>>
<1> DEFINE n == Len(sent)
           whole == Encoded("JustFloat", sent)
           prefix == SubSeq(whole, 1, k)
           rest == Rest(whole, k + 1)
           first == parseJustFloatProtocol(prefix, 0)
           left == first.left
           both == left \o rest
           second == parseJustFloatProtocol(both, first.next)
           number == <<1, 2, 3, 4>>
           w == k \div 4
           r == k % 4
<1>1. /\ whole \in Seq(Nat) /\ Len(whole) = 4 * n + 4
      /\ \A i \in 1 .. n : \A j \in 1 .. 4 : whole[4 * i - 4 + j] = j
      /\ \A j \in 1 .. 4 : whole[4 * n + j] = FloatTail[j]
  BY FloatsAre
<1>2. n \in {1, 2}
  BY ListsAre
<1>3. k \in 1 .. Len(whole) - 1
  OBVIOUS
<1> HIDE DEF n, whole
<1>4. k \in 1 .. 4 * n + 3 /\ k \in 1 .. Len(whole)
  BY <1>1, <1>2, <1>3
<1>5. w \in 0 .. n /\ w \in Nat /\ r \in 0 .. 3 /\ k = 4 * w + r
  BY <1>2, <1>4
<1> HIDE DEF w, r
<1>6. /\ prefix \in Seq(Nat) /\ Len(prefix) = k
      /\ \A p \in 1 .. k : prefix[p] = whole[p]
      /\ rest \in Seq(Nat) /\ Len(rest) = Len(whole) - k
      /\ \A p \in 1 .. Len(whole) - k : rest[p] = whole[k + p]
  BY <1>1, <1>4, PrefixIs
<1> HIDE DEF prefix, rest
<1>7. first = [plotted |-> [i \in 1 .. w |-> <<(0 + i - 1) % MaxChannels, number>>],
               next |-> (0 + w) % MaxChannels,
               left |-> Rest(prefix, 4 * (w + 0) + 1)]
  <2>1. Len(prefix) = 4 * (w + 0) + r /\ 0 \in {0, 1} /\ 0 \in Nat /\ ~(0 = 1)
    BY <1>5, <1>6
  <2>2. \A i \in 1 .. w : \A j \in 1 .. 4 : prefix[4 * i - 4 + j] = j
    <3> TAKE i \in 1 .. w
    <3> TAKE j \in 1 .. 4
    <3>1. i \in 1 .. n /\ 4 * i - 4 + j \in 1 .. k
      BY <1>2, <1>5
    <3>2. whole[4 * i - 4 + j] = j
      BY <1>1, <3>1
    <3>3. prefix[4 * i - 4 + j] = whole[4 * i - 4 + j]
      BY <1>6, <3>1
    <3> QED
      BY <3>2, <3>3
  <2> QED
    BY <1>5, <1>6, <2>1, <2>2, FloatsParsed
<1>8. /\ left \in Seq(Nat) /\ Len(left) = r
      /\ \A p \in 1 .. r : left[p] = whole[4 * w + p]
  <2>1. 4 * w + 1 \in 1 .. Len(prefix) + 1
    BY <1>5, <1>6
  <2>2. left = Rest(prefix, 4 * w + 1)
    BY <1>5, <1>7
  <2> HIDE DEF left
  <2>3. /\ left \in Seq(Nat) /\ Len(left) = Len(prefix) - (4 * w + 1) + 1
        /\ \A j \in 1 .. Len(prefix) - (4 * w + 1) + 1 : left[j] = prefix[(4 * w + 1) + j - 1]
    BY <1>6, <2>1, <2>2, RestIs
  <2>4. Len(prefix) - (4 * w + 1) + 1 = r
    BY <1>5, <1>6
  <2>5. \A p \in 1 .. r : (4 * w + 1) + p - 1 = 4 * w + p /\ 4 * w + p \in 1 .. k
    BY <1>5
  <2> QED
    BY <1>6, <2>3, <2>4, <2>5
<1> HIDE DEF left
<1>9. /\ both \in Seq(Nat) /\ Len(both) = Len(left) + Len(rest)
      /\ \A i \in 1 .. Len(left) : both[i] = left[i]
      /\ \A j \in 1 .. Len(rest) : both[Len(left) + j] = rest[j]
  <2>1. left \in Seq(Nat) /\ rest \in Seq(Nat)
    BY <1>6, <1>8
  <2> QED
    BY <2>1, JoinIs
<1> HIDE DEF both
<1>10. Len(both) = 4 * (n - w + 1) /\ Len(rest) = 4 * n + 4 - k
  BY <1>1, <1>2, <1>5, <1>6, <1>8, <1>9
<1>11. \A p \in 1 .. 4 * (n - w + 1) : both[p] = whole[4 * w + p]
  <2> TAKE p \in 1 .. 4 * (n - w + 1)
  <2>1. CASE p <= r
    <3>1. p \in 1 .. r
      BY <1>2, <1>5, <2>1
    <3> QED
      BY <1>8, <1>9, <3>1
  <2>2. CASE ~(p <= r)
    <3> DEFINE j == p - r
    <3>1. j \in 1 .. 4 * n + 4 - k /\ r + j = p /\ k + j = 4 * w + p
      BY <1>2, <1>5, <2>2
    <3> HIDE DEF j
    <3>2. both[p] = rest[j]
      BY <1>8, <1>9, <1>10, <3>1
    <3>3. rest[j] = whole[k + j]
      <4>1. Len(whole) - k = 4 * n + 4 - k
        BY <1>1, <1>2, <1>4
      <4>2. j \in 1 .. Len(whole) - k
        BY <3>1, <4>1
      <4> QED
        BY <1>6, <4>2
    <3> QED
      BY <3>1, <3>2, <3>3
  <2> QED
    BY <2>1, <2>2
<1>12. first.next = w % MaxChannels /\ first.next \in Nat
  BY <1>5, <1>7, ChannelsAssumption
<1> DEFINE c == first.next
<1> HIDE DEF c, first
<1>13. second = [plotted |-> [i \in 1 .. n - w |-> <<(c + i - 1) % MaxChannels, number>>],
                 next |-> (c + (n - w)) % MaxChannels,
                 left |-> Rest(both, 4 * (n - w + 1) + 1)]
  <2>1. n - w \in Nat /\ Len(both) = 4 * (n - w + 1) + 0 /\ 0 \in 0 .. 3 /\ 1 \in {0, 1}
    BY <1>2, <1>5, <1>10
  <2>2. \A i \in 1 .. n - w : \A j \in 1 .. 4 : both[4 * i - 4 + j] = j
    <3> TAKE i \in 1 .. n - w
    <3> TAKE j \in 1 .. 4
    <3> DEFINE h == w + i
    <3>1. /\ 4 * i - 4 + j \in 1 .. 4 * (n - w + 1) /\ h \in 1 .. n
          /\ 4 * w + (4 * i - 4 + j) = 4 * h - 4 + j
      BY <1>2, <1>5
    <3> HIDE DEF h
    <3> QED
      BY <1>1, <1>11, <3>1
  <2>3. \A j \in 1 .. 4 : both[4 * (n - w) + j] = FloatTail[j]
    <3> TAKE j \in 1 .. 4
    <3>1. 4 * (n - w) + j \in 1 .. 4 * (n - w + 1) /\ 4 * w + (4 * (n - w) + j) = 4 * n + j
      BY <1>2, <1>5
    <3> QED
      BY <1>1, <1>11, <3>1
  <2>4. both \in Seq(Nat) /\ c \in Nat
    BY <1>9, <1>12 DEF c
  <2>5. second = parseJustFloatProtocol(both, c)
    BY DEF c
  <2> HIDE DEF second
  <2> QED
    BY <2>1, <2>2, <2>3, <2>4, <2>5, FloatsParsed
<1>14. \A i \in 1 .. w : (0 + i - 1) % MaxChannels = i - 1
  <2>1. \A i \in 1 .. w : i - 1 \in 0 .. 1 /\ 0 + i - 1 = i - 1
    BY <1>2, <1>5
  <2> QED
    BY <2>1, SmallModulo
<1>15. \A i \in 1 .. n - w : (c + i - 1) % MaxChannels = w + i - 1
  <2> TAKE i \in 1 .. n - w
  <2>1. w \in 0 .. 1 /\ w + i - 1 \in 0 .. 1
    BY <1>2, <1>5
  <2>2. c = w
    BY <1>12, <2>1, SmallModulo DEF c
  <2> QED
    BY <2>1, <2>2, SmallModulo
<1>16. first.plotted = [i \in 1 .. w |-> <<i - 1, number>>]
  BY <1>7, <1>14
<1>17. second.plotted = [i \in 1 .. n - w |-> <<w + i - 1, number>>]
  BY <1>13, <1>15
<1>18. first.plotted \o second.plotted = [i \in 1 .. n |-> <<i - 1, number>>]
  <2> DEFINE s == first.plotted
             t == second.plotted
  <2>1. PICK v : v = number
    OBVIOUS
  <2>2. n \in Nat /\ w \in 0 .. n
    BY <1>2, <1>5
  <2>3. [i \in 1 .. w |-> <<i - 1, v>>] \o [i \in 1 .. n - w |-> <<w + i - 1, v>>]
            = [i \in 1 .. n |-> <<i - 1, v>>]
    BY <2>2, NumbersJoined
  <2>4. s = [i \in 1 .. w |-> <<i - 1, v>>] /\ t = [i \in 1 .. n - w |-> <<w + i - 1, v>>]
    BY <1>16, <1>17, <2>1
  <2> HIDE DEF s, t
  <2>5. s \o t = [i \in 1 .. n |-> <<i - 1, v>>]
    BY <2>3, <2>4
  <2> QED
    BY <2>1, <2>5 DEF s, t
<1>19. second.left = <<>>
  <2>1. 4 * (n - w + 1) + 1 \in 1 .. Len(both) + 1 /\ 4 * (n - w + 1) + 1 = Len(both) + 1
    BY <1>2, <1>5, <1>10
  <2>2. Rest(both, 4 * (n - w + 1) + 1) = <<>>
    BY <1>9, <2>1, RestIs
  <2> QED
    BY <1>13, <2>2
<1>20. Plotted("JustFloat", n) = [i \in 1 .. n |-> <<i - 1, number>>]
  BY DEF Plotted, Number
<1> QED
  BY <1>18, <1>19, <1>20 DEF n, whole, prefix, rest, first, left, both

-----------------------------------------------------------------------------
(* Messages *)

\* The result at each place of the buffer, in terms of the later ones.
Parses(parse, b, R) ==
    /\ ParseFrames(b, R) = parse[1]
    /\ \A i \in 1 .. Len(b) + 1 : Ends(b, R, i) => parse[i] = [plotted |-> <<>>, left |-> <<>>]
    /\ \A i \in 1 .. Len(b) + 1 :
          ~Ends(b, R, i) /\ FrameWaits(b, R, i) =>
              parse[i] = [plotted |-> <<>>, left |-> Rest(b, FrameAt(b, R, i))]
    /\ \A i \in 1 .. Len(b) + 1 :
          ~Ends(b, R, i) /\ ~FrameWaits(b, R, i) =>
              /\ parse[i].plotted = << <<FrameRule(b, R, i).channel, FrameValue(b, R, i)>> >>
                                       \o parse[FrameLast(b, R, i) + 1].plotted
              /\ parse[i].left = parse[FrameLast(b, R, i) + 1].left

\* What ParseFrames finds is what it finds from the first byte on.
LEMMA FramesParsed ==
    ASSUME NEW b \in Seq(Nat), NEW R, RuleTable(R)
    PROVE  \E parse : Parses(parse, b, R)
<1>1. PICK parse :
          /\ ParseFrames(b, R) = parse[1]
          /\ \A i \in 1 .. Len(b) + 1 :
                parse[i] =
                    IF Ends(b, R, i) THEN [plotted |-> <<>>, left |-> <<>>]
                    ELSE IF FrameWaits(b, R, i)
                         THEN [plotted |-> <<>>, left |-> Rest(b, FrameAt(b, R, i))]
                         ELSE [plotted |-> << <<FrameRule(b, R, i).channel,
                                                FrameValue(b, R, i)>> >>
                                              \o parse[FrameLast(b, R, i) + 1].plotted,
                               left |-> parse[FrameLast(b, R, i) + 1].left]
  BY ParseFramesIs
<1>2. ASSUME NEW i \in 1 .. Len(b) + 1, Ends(b, R, i)
      PROVE  parse[i] = [plotted |-> <<>>, left |-> <<>>]
  BY <1>1, <1>2
<1>3. ASSUME NEW i \in 1 .. Len(b) + 1, ~Ends(b, R, i), FrameWaits(b, R, i)
      PROVE  parse[i] = [plotted |-> <<>>, left |-> Rest(b, FrameAt(b, R, i))]
  BY <1>1, <1>3
<1>4. ASSUME NEW i \in 1 .. Len(b) + 1, ~Ends(b, R, i), ~FrameWaits(b, R, i)
      PROVE  /\ parse[i].plotted = << <<FrameRule(b, R, i).channel, FrameValue(b, R, i)>> >>
                                       \o parse[FrameLast(b, R, i) + 1].plotted
             /\ parse[i].left = parse[FrameLast(b, R, i) + 1].left
  <2>1. parse[i] = [plotted |-> << <<FrameRule(b, R, i).channel, FrameValue(b, R, i)>> >>
                                       \o parse[FrameLast(b, R, i) + 1].plotted,
                    left |-> parse[FrameLast(b, R, i) + 1].left]
    BY <1>1, <1>4, Zenon
  <2> QED
    BY <2>1
<1>5. Parses(parse, b, R)
  BY <1>1, <1>2, <1>3, <1>4 DEF Parses
<1> QED
  BY <1>5

\* A frame of five bytes, of the value 682, begins at i.
StandsAt(b, i) ==
    /\ i \in Nat \ {0} /\ i + 4 <= Len(b)
    /\ b[i] = 170 /\ b[i + 2] = 2 /\ b[i + 3] = 170 /\ b[i + 4] = 2

\* A byte that does not occur.
Lacks(b, x) == \A p \in 1 .. Len(b) : b[p] # x

\* n such frames, and nothing else.
LongFrames(b, n) ==
    /\ n \in {1, 2} /\ Len(b) = 5 * n /\ Lacks(b, 187)
    /\ b[1] = 170 /\ b[3] = 2 /\ b[4] = 170 /\ b[5] = 2
    /\ n = 2 => b[6] = 170 /\ b[8] = 2 /\ b[9] = 170 /\ b[10] = 2

\* Only one rule is for frames that begin with 170 alone.
OnlyRule(R, u) ==
    /\ u \in DOMAIN R /\ R[u].enable /\ R[u].header = <<170>>
    /\ R[u].headerLen = 1 /\ R[u].typeOffset = 1 /\ R[u].lenOffset = 2
    /\ \A v \in DOMAIN R : R[v].enable /\ v # u => R[v].header = <<187, 170>>

\* The rule finds its frame where the frame begins.
LEMMA FrameHere ==
    ASSUME NEW b \in Seq(Nat), NEW R, RuleTable(R), NEW u, OnlyRule(R, u),
           NEW i \in 1 .. Len(b), b[i] = 170, Lacks(b, 187)
    PROVE  ~Ends(b, R, i) /\ FrameRule(b, R, i) = R[u] /\ FrameAt(b, R, i) = i
<1>1. Len(b) \in Nat /\ i \in Nat \ {0} /\ ~(i > Len(b))
  BY LenProperties
<1>2. Occurrences(b, <<170>>, i) = {p \in i .. Len(b) : b[p] = 170}
  BY <1>1, ByteOccurs
<1>3. Occurrences(b, <<187, 170>>, i) = {}
  <2>1. Occurrences(b, <<187, 170>>, i) = {p \in i .. Len(b) - 1 : b[p] = 187 /\ b[p + 1] = 170}
    BY <1>1, TwoBytesOccur
  <2>2. \A p \in i .. Len(b) - 1 : p \in 1 .. Len(b)
    BY <1>1
  <2> QED
    BY <2>1, <2>2 DEF Lacks
<1>4. i \in Occurrences(b, <<170>>, i)
  BY <1>1, <1>2
<1>5. Matching(b, R, i) = {u}
  <2>1. u \in Matching(b, R, i)
    BY <1>4 DEF Matching, OnlyRule
  <2>2. \A v \in Matching(b, R, i) : v = u
    <3> TAKE v \in Matching(b, R, i)
    <3>1. v \in DOMAIN R /\ R[v].enable /\ Occurrences(b, R[v].header, i) # {}
      BY DEF Matching
    <3>2. v # u => R[v].header = <<187, 170>>
      BY <3>1 DEF OnlyRule
    <3> QED
      BY <1>3, <3>1, <3>2, Zenon
  <2> QED
    BY <2>1, <2>2
<1>6. /\ BestRule(b, R, i) \in Matching(b, R, i)
      /\ FrameAt(b, R, i) \in i .. Len(b) + 1
      /\ \A v \in Matching(b, R, i) : \A p \in Occurrences(b, R[v].header, i) :
             FrameAt(b, R, i) <= p
  <2>1. Matching(b, R, i) # {}
    BY <1>5
  <2> QED
    BY <1>1, <2>1, BestIs
<1>7. FrameRule(b, R, i) = R[u]
  BY <1>5, <1>6 DEF FrameRule
<1>8. FrameAt(b, R, i) <= i
  <2>1. R[u].header = <<170>> /\ u \in Matching(b, R, i)
    BY <1>5 DEF OnlyRule
  <2>2. i \in Occurrences(b, R[u].header, i)
    BY <1>4, <2>1, Zenon
  <2> QED
    BY <1>6, <2>1, <2>2, Zenon
<1> QED
  BY <1>1, <1>5, <1>6, <1>7, <1>8 DEF Ends

\* The first bytes of a frame wait for the others.
LEMMA MessageWaits ==
    ASSUME NEW b \in Seq(Nat), NEW R, RuleTable(R), NEW u, OnlyRule(R, u),
           Len(b) \in 1 .. 3, b[1] = 170, Lacks(b, 187)
    PROVE  ParseFrames(b, R) = [plotted |-> <<>>, left |-> b]
<1>1. PICK parse : Parses(parse, b, R)
  BY FramesParsed
<1>2. 1 \in 1 .. Len(b) /\ 1 \in 1 .. Len(b) + 1
  OBVIOUS
<1>3. ~Ends(b, R, 1) /\ FrameRule(b, R, 1) = R[u] /\ FrameAt(b, R, 1) = 1
  BY <1>2, FrameHere
<1>4. FrameWaits(b, R, 1)
  <2>1. FrameWaits(b, R, 1) <=> Len(b) - 1 + 1 < 1 + 1 + 2
    BY <1>3 DEF FrameWaits, OnlyRule
  <2>2. Len(b) - 1 + 1 < 1 + 1 + 2
    <3> DEFINE m == Len(b)
    <3>1. m \in 1 .. 3
      OBVIOUS
    <3> HIDE DEF m
    <3>2. m - 1 + 1 < 1 + 1 + 2
      BY <3>1
    <3> QED
      BY <3>2 DEF m
  <2> QED
    BY <2>1, <2>2, Zenon
<1>5. parse[1] = [plotted |-> <<>>, left |-> Rest(b, 1)]
  BY <1>1, <1>2, <1>3, <1>4 DEF Parses
<1>6. Rest(b, 1) = b
  <2>1. /\ Rest(b, 1) \in Seq(Nat) /\ Len(Rest(b, 1)) = Len(b) - 1 + 1
        /\ \A j \in 1 .. Len(b) - 1 + 1 : Rest(b, 1)[j] = b[1 + j - 1]
    BY <1>2, RestIs
  <2> DEFINE rest == Rest(b, 1)
  <2> HIDE DEF rest
  <2>2. rest \in Seq(Nat) /\ Len(rest) = Len(b) /\ \A j \in 1 .. Len(b) : rest[j] = b[j]
    BY <2>1 DEF rest
  <2>3. rest = b
    BY <2>2, SeqEqual
  <2> QED
    BY <2>3 DEF rest
<1> QED
  BY <1>1, <1>5, <1>6 DEF Parses

\* Where a whole frame is, its value is read.
LEMMA FrameRead ==
    ASSUME NEW b \in Seq(Nat), NEW R, RuleTable(R), NEW u, OnlyRule(R, u),
           Lacks(b, 187), NEW i, StandsAt(b, i)
    PROVE  /\ ~Ends(b, R, i) /\ ~FrameWaits(b, R, i) /\ FrameRule(b, R, i) = R[u]
           /\ FrameLast(b, R, i) = i + 4 /\ FrameValue(b, R, i) = 682
<1> DEFINE m == Len(b)
           last == FrameLast(b, R, i)
           payload == SubSeq(b, i + 3, i + 4)
<1>1. /\ m \in Nat /\ i \in Nat \ {0} /\ i + 4 <= m /\ \A p \in 1 .. m : b[p] \in Nat
      /\ b[i] = 170 /\ b[i + 2] = 2 /\ b[i + 3] = 170 /\ b[i + 4] = 2
  BY LenProperties DEF StandsAt
<1> HIDE DEF m
<1>2. i \in 1 .. m
  BY <1>1
<1>3. ~Ends(b, R, i) /\ FrameRule(b, R, i) = R[u] /\ FrameAt(b, R, i) = i
  BY <1>1, <1>2, FrameHere DEF m
<1>4. ~FrameWaits(b, R, i)
  <2>1. FrameWaits(b, R, i) <=> m - i + 1 < 4
    BY <1>3 DEF FrameWaits, OnlyRule, m
  <2> QED
    BY <1>1, <2>1
<1>5. last = i + 4
  <2>1. FrameEnd(b, R[u], i) = i + 4
    BY <1>1 DEF FrameEnd, OnlyRule
  <2>2. last = Min({m, i + 4})
    BY <1>3, <2>1 DEF FrameLast, m
  <2>3. {m, i + 4} \in SUBSET Nat /\ {m, i + 4} # {}
    BY <1>1
  <2>4. Min({m, i + 4}) \in {m, i + 4} /\ \A k \in {m, i + 4} : Min({m, i + 4}) <= k
    BY <2>3, LeastIs
  <2> HIDE DEF last
  <2> QED
    BY <1>1, <2>2, <2>4
<1>6. FrameValue(b, R, i) = PayloadValue(payload)
  <2>1. R[u].lenOffset = 2 /\ i + 2 + 1 = i + 3
    BY <1>1 DEF OnlyRule
  <2> QED
    BY <1>3, <1>5, <2>1 DEF FrameValue
<1>7. payload \in Seq(Nat) /\ Len(payload) = 2 /\ payload[1] = 170 /\ payload[2] = 2
  <2>1. i + 3 \in Int /\ i + 4 \in Int /\ \A p \in i + 3 .. i + 4 : b[p] \in Nat
    BY <1>1
  <2>2. /\ payload \in Seq(Nat)
        /\ Len(payload) = IF i + 3 <= i + 4 THEN i + 4 - (i + 3) + 1 ELSE 0
        /\ \A j \in 1 .. i + 4 - (i + 3) + 1 : payload[j] = b[i + 3 + j - 1]
    BY <1>1, <2>1, SubSeqProperties
  <2> HIDE DEF payload
  <2>3. /\ 1 \in 1 .. i + 4 - (i + 3) + 1 /\ 2 \in 1 .. i + 4 - (i + 3) + 1
        /\ i + 3 + 1 - 1 = i + 3 /\ i + 3 + 2 - 1 = i + 4
    BY <1>1
  <2>4. payload[1] = 170 /\ payload[2] = 2
    BY <1>1, <2>2, <2>3
  <2> QED
    BY <1>1, <2>2, <2>4
<1> HIDE DEF payload
<1>8. PayloadValue(payload) = 2 * 256 + 170
  <2>1. Len(payload) # Len(<<>>) /\ Len(payload) # 1
    BY <1>7
  <2>2. payload # <<>> /\ Len(payload) # 1
    BY <2>1, Zenon
  <2> QED
    BY <1>7, <2>2 DEF PayloadValue
<1> QED
  BY <1>3, <1>4, <1>5, <1>6, <1>8

\* A frame that stands at a place is plotted, and the next one is read behind it.
LEMMA MessageRead ==
    ASSUME NEW b \in Seq(Nat), NEW R, RuleTable(R), NEW u, OnlyRule(R, u),
           Lacks(b, 187), NEW i, StandsAt(b, i),
           NEW parse, Parses(parse, b, R)
    PROVE  /\ parse[i].plotted = << <<R[u].channel, 682>> >> \o parse[i + 5].plotted
           /\ parse[i].left = parse[i + 5].left
<1>1. /\ ~Ends(b, R, i) /\ ~FrameWaits(b, R, i) /\ FrameRule(b, R, i) = R[u]
      /\ FrameLast(b, R, i) = i + 4 /\ FrameValue(b, R, i) = 682
  BY FrameRead
<1>2. i \in 1 .. Len(b) + 1 /\ i + 4 + 1 = i + 5
  BY LenProperties DEF StandsAt
<1>3. /\ parse[i].plotted = << <<FrameRule(b, R, i).channel, FrameValue(b, R, i)>> >>
                                 \o parse[FrameLast(b, R, i) + 1].plotted
      /\ parse[i].left = parse[FrameLast(b, R, i) + 1].left
  BY <1>1, <1>2, Zenon DEF Parses
<1> QED
  BY <1>1, <1>2, <1>3

\* One message is read, or two.
LEMMA MessagesRead ==
    ASSUME NEW b \in Seq(Nat), NEW R, RuleTable(R), NEW u, OnlyRule(R, u),
           NEW n, LongFrames(b, n)
    PROVE  /\ ParseFrames(b, R).plotted = [i \in 1 .. n |-> <<R[u].channel, 682>>]
           /\ ParseFrames(b, R).left = <<>>
<1>8. /\ n \in {1, 2} /\ Len(b) = 5 * n /\ Lacks(b, 187)
      /\ b[1] = 170 /\ b[3] = 2 /\ b[4] = 170 /\ b[5] = 2
      /\ n = 2 => b[6] = 170 /\ b[8] = 2 /\ b[9] = 170 /\ b[10] = 2
  BY DEF LongFrames
<1>1. PICK parse : Parses(parse, b, R)
  BY FramesParsed
<1> DEFINE point == <<R[u].channel, 682>>
           one == <<point>>
<1>2. /\ one \in Seq({point}) /\ Len(one) = 1 /\ one[1] = point /\ one \o <<>> = one
      /\ one \o one \in Seq({point}) /\ Len(one \o one) = 2
      /\ (one \o one)[1] = point /\ (one \o one)[2] = point
  <2> HIDE DEF point
  <2> QED
    OBVIOUS
<1> HIDE DEF one, point
<1>3. ASSUME NEW i, StandsAt(b, i)
      PROVE  parse[i].plotted = one \o parse[i + 5].plotted /\ parse[i].left = parse[i + 5].left
  BY <1>1, <1>3, <1>8, MessageRead DEF one, point
<1>4. ASSUME NEW i \in 1 .. Len(b) + 1, i > Len(b)
      PROVE  parse[i] = [plotted |-> <<>>, left |-> <<>>]
  BY <1>1, <1>4 DEF Ends, Parses
<1>5. parse[1].plotted = one \o parse[6].plotted /\ parse[1].left = parse[6].left
  <2>1. StandsAt(b, 1)
    BY <1>8 DEF StandsAt
  <2>2. parse[1].plotted = one \o parse[1 + 5].plotted /\ parse[1].left = parse[1 + 5].left
    BY <1>3, <2>1, Zenon
  <2>3. 1 + 5 = 6
    OBVIOUS
  <2> QED
    BY <2>2, <2>3
<1>6. CASE n = 1
  <2>1. parse[6] = [plotted |-> <<>>, left |-> <<>>]
    BY <1>4, <1>6, <1>8
  <2>2. parse[1].plotted = one /\ parse[1].left = <<>>
    BY <1>2, <1>5, <2>1
  <2>3. one = [i \in 1 .. n |-> point]
    BY <1>6 DEF one
  <2> QED
    BY <1>1, <2>2, <2>3 DEF point, Parses
<1>7. CASE n = 2
  <2>1. parse[11] = [plotted |-> <<>>, left |-> <<>>]
    BY <1>4, <1>7, <1>8
  <2>2. parse[6].plotted = one \o parse[11].plotted /\ parse[6].left = parse[11].left
    <3>1. StandsAt(b, 6)
      BY <1>7, <1>8 DEF StandsAt
    <3>2. parse[6].plotted = one \o parse[6 + 5].plotted /\ parse[6].left = parse[6 + 5].left
      BY <1>3, <3>1, Zenon
    <3>3. 6 + 5 = 11
      OBVIOUS
    <3> QED
      BY <3>2, <3>3
  <2>3. parse[1].plotted = one \o one /\ parse[1].left = <<>>
    BY <1>2, <1>5, <2>1, <2>2
  <2>4. one \o one = [i \in 1 .. n |-> point]
    BY <1>7 DEF one
  <2> QED
    BY <1>1, <2>3, <2>4 DEF point, Parses
<1> QED
  BY <1>6, <1>7, <1>8

\* What no rule matches plots nothing.
LEMMA NothingMatches ==
    ASSUME NEW b \in Seq(Nat), NEW R, RuleTable(R), Matching(b, R, 1) = {}
    PROVE  ParseFrames(b, R) = [plotted |-> <<>>, left |-> <<>>]
<1>1. PICK parse : Parses(parse, b, R)
  BY FramesParsed
<1>2. 1 \in 1 .. Len(b) + 1
  BY LenProperties
<1>3. Ends(b, R, 1)
  BY DEF Ends
<1> QED
  BY <1>1, <1>2, <1>3 DEF Parses

\* The message that is long enough to be read.
LongMessage == [format |-> Format(<<170>>), payload |-> <<170, 2>>]

\* What the frames of the messages are.
LEMMA FrameIs ==
    ASSUME NEW message \in Messages
    PROVE  /\ Frame(message) \in Seq(Nat) /\ Len(Frame(message)) \in 3 .. 6
           /\ Len(Frame(message)) >= 2 * message.format.headerLen + message.format.lenOffset
                  => message = LongMessage
           /\ message = LongMessage =>
                  /\ Len(Frame(message)) = 5
                  /\ Frame(message)[1] = 170 /\ Frame(message)[2] = 3 /\ Frame(message)[3] = 2
                  /\ Frame(message)[4] = 170 /\ Frame(message)[5] = 2
<1> DEFINE header == message.format.header
           payload == message.payload
           length == <<3, Len(payload)>>
           frame == Frame(message)
<1>1. /\ message.format \in {Format(<<170>>), Format(<<187, 170>>)}
      /\ payload \in {<<>>, <<170, 2>>}
      /\ message = [format |-> message.format, payload |-> payload]
  BY DEF Messages, Valid, Payloads
<1>2. \/ /\ header = <<170>> /\ message.format.headerLen = 1 /\ message.format.lenOffset = 2
         /\ message.format = Format(<<170>>)
      \/ /\ header = <<187, 170>> /\ message.format.headerLen = 2 /\ message.format.lenOffset = 3
         /\ message.format # Format(<<170>>)
  <2>1. Len(<<170>>) = 1 /\ Len(<<187, 170>>) = 2
    OBVIOUS
  <2> QED
    BY <1>1, <2>1 DEF Format
<1>3. /\ <<170>> \in Seq(Nat) /\ Len(<<170>>) = 1 /\ <<170>>[1] = 170
      /\ <<187, 170>> \in Seq(Nat) /\ Len(<<187, 170>>) = 2
      /\ <<>> \in Seq(Nat) /\ Len(<<>>) = 0
      /\ <<170, 2>> \in Seq(Nat) /\ Len(<<170, 2>>) = 2
      /\ <<170, 2>>[1] = 170 /\ <<170, 2>>[2] = 2
  OBVIOUS
<1>4. header \in Seq(Nat) /\ Len(header) \in {1, 2} /\ payload \in Seq(Nat)
      /\ Len(payload) \in {0, 2} /\ message.format.headerLen = Len(header)
      /\ message.format.lenOffset = Len(header) + 1
  <2>1. /\ header \in Seq(Nat) /\ Len(header) \in {1, 2}
        /\ message.format.headerLen = Len(header) /\ message.format.lenOffset = Len(header) + 1
    <3>1. CASE header = <<170>>
      <4>1. message.format.headerLen = 1 /\ message.format.lenOffset = 2
        BY <1>2, <1>3, <3>1
      <4> HIDE DEF header
      <4> QED
        BY <1>3, <3>1, <4>1
    <3>2. CASE header = <<187, 170>>
      <4>1. message.format.headerLen = 2 /\ message.format.lenOffset = 3
        BY <1>2, <1>3, <3>2
      <4> HIDE DEF header
      <4> QED
        BY <1>3, <3>2, <4>1
    <3> QED
      BY <1>2, <3>1, <3>2
  <2>2. payload \in Seq(Nat) /\ Len(payload) \in {0, 2}
    BY <1>1, <1>3
  <2> QED
    BY <2>1, <2>2
<1>5. length \in Seq(Nat) /\ Len(length) = 2 /\ length[1] = 3 /\ length[2] = Len(payload)
  <2>1. \A l \in Nat : <<3, l>> \in Seq(Nat) /\ Len(<<3, l>>) = 2
                       /\ <<3, l>>[1] = 3 /\ <<3, l>>[2] = l
    OBVIOUS
  <2>2. Len(payload) \in Nat
    BY <1>4
  <2> HIDE DEF payload
  <2> QED
    BY <2>1, <2>2
<1> HIDE DEF header, payload, length
<1> DEFINE begin == header \o length
<1>6. /\ begin \in Seq(Nat) /\ Len(begin) = Len(header) + Len(length)
      /\ \A i \in 1 .. Len(header) : begin[i] = header[i]
      /\ \A j \in 1 .. Len(length) : begin[Len(header) + j] = length[j]
  <2>1. header \in Seq(Nat) /\ length \in Seq(Nat)
    BY <1>4, <1>5
  <2> QED
    BY <2>1, JoinIs
<1>7. frame = begin \o payload
  BY DEF Frame, header, payload, length
<1> HIDE DEF begin, frame
<1>8. /\ begin \o payload \in Seq(Nat) /\ Len(begin \o payload) = Len(begin) + Len(payload)
      /\ \A i \in 1 .. Len(begin) : (begin \o payload)[i] = begin[i]
      /\ \A j \in 1 .. Len(payload) : (begin \o payload)[Len(begin) + j] = payload[j]
  <2>1. begin \in Seq(Nat) /\ payload \in Seq(Nat)
    BY <1>4, <1>6
  <2> QED
    BY <2>1, JoinIs
<1>9. /\ frame \in Seq(Nat) /\ Len(frame) = Len(begin) + Len(payload)
      /\ \A i \in 1 .. Len(begin) : frame[i] = begin[i]
      /\ \A j \in 1 .. Len(payload) : frame[Len(begin) + j] = payload[j]
  BY <1>7, <1>8
<1>10. Len(begin) = Len(header) + 2 /\ Len(frame) = Len(header) + 2 + Len(payload)
  BY <1>4, <1>5, <1>6, <1>9
<1> DEFINE h == Len(header)
           l == Len(payload)
           m == Len(frame)
<1>11. /\ h \in {1, 2} /\ l \in {0, 2} /\ m = h + 2 + l /\ m \in 3 .. 6
       /\ m >= 2 * h + (h + 1) => h = 1 /\ l = 2
  <2>1. h \in {1, 2} /\ l \in {0, 2} /\ m = h + 2 + l
    BY <1>4, <1>10
  <2> HIDE DEF h, l, m
  <2> QED
    BY <2>1
<1>12. ASSUME Len(frame) >= 2 * message.format.headerLen + message.format.lenOffset
       PROVE  message = LongMessage
  <2>1. Len(header) = 1 /\ Len(payload) = 2
    BY <1>4, <1>11, <1>12
  <2>2. header # <<187, 170>> /\ payload # <<>>
    BY <1>3, <2>1
  <2>3. message.format = Format(<<170>>)
    BY <1>2, <2>2 DEF header
  <2>4. payload = <<170, 2>>
    BY <1>1, <2>2 DEF payload
  <2> QED
    BY <1>1, <2>3, <2>4 DEF LongMessage
<1>13. ASSUME message = LongMessage
       PROVE  /\ Len(frame) = 5 /\ frame[1] = 170 /\ frame[2] = 3 /\ frame[3] = 2
              /\ frame[4] = 170 /\ frame[5] = 2
  <2>1. message.format = Format(<<170>>) /\ payload = <<170, 2>>
    BY <1>13 DEF LongMessage, payload
  <2>2. header = <<170>>
    BY <1>2, <2>1 DEF header
  <2>3. /\ Len(header) = 1 /\ header[1] = 170
        /\ Len(payload) = 2 /\ payload[1] = 170 /\ payload[2] = 2
    BY <1>3, <2>1, <2>2
  <2>4. Len(begin) = 3 /\ begin[1] = 170 /\ begin[2] = 3 /\ begin[3] = 2
    <3>1. Len(begin) = 3 /\ 1 \in 1 .. Len(header)
      BY <1>10, <2>3
    <3>2. 1 \in 1 .. Len(length) /\ 2 \in 1 .. Len(length)
          /\ Len(header) + 1 = 2 /\ Len(header) + 2 = 3
      BY <1>5, <2>3
    <3>3. begin[Len(header) + 1] = length[1] /\ begin[Len(header) + 2] = length[2]
      BY <1>6, <3>2
    <3> QED
      BY <1>5, <1>6, <2>3, <3>1, <3>2, <3>3
  <2>5. frame[1] = begin[1] /\ frame[2] = begin[2] /\ frame[3] = begin[3]
    BY <1>9, <2>4
  <2>6. frame[4] = payload[1] /\ frame[5] = payload[2]
    <3>1. 1 \in 1 .. Len(payload) /\ 2 \in 1 .. Len(payload)
          /\ Len(begin) + 1 = 4 /\ Len(begin) + 2 = 5
      BY <2>3, <2>4
    <3>2. frame[Len(begin) + 1] = payload[1] /\ frame[Len(begin) + 2] = payload[2]
      BY <1>9, <3>1
    <3> QED
      BY <3>1, <3>2
  <2> QED
    BY <1>10, <2>3, <2>4, <2>5, <2>6
<1> QED
  BY <1>9, <1>11, <1>12, <1>13 DEF frame

\* The frames follow each other in what is sent.
LEMMA FramesFollow ==
    ASSUME NEW sent \in Sent("frames")
    PROVE  LET n == Len(sent)
               whole == Encoded("frames", sent)
           IN  /\ n \in {1, 2} /\ sent \in Seq(Messages) /\ DOMAIN sent = 1 .. n
               /\ \A i \in 1 .. n : sent[i] \in Messages
               /\ whole \in Seq(Nat)
               /\ Len(whole) = IF n = 1 THEN Len(Frame(sent[1]))
                               ELSE Len(Frame(sent[1])) + Len(Frame(sent[2]))
               /\ \A p \in 1 .. Len(Frame(sent[1])) : whole[p] = Frame(sent[1])[p]
               /\ n = 2 => \A p \in 1 .. Len(Frame(sent[2])) :
                               whole[Len(Frame(sent[1])) + p] = Frame(sent[2])[p]
<1> DEFINE n == Len(sent)
           whole == Encoded("frames", sent)
           frames == [i \in 1 .. n |-> Frame(sent[i])]
<1>1. /\ n \in {1, 2} /\ sent \in Seq(Messages) /\ DOMAIN sent = 1 .. n
      /\ \A i \in 1 .. n : sent[i] \in Messages
  <2>1. sent \in OneOrTwo(Messages)
    BY DEF Sent
  <2> QED
    BY <2>1, SentAre
<1>2. whole = FlattenSeq(frames)
  BY <1>1 DEF Encoded
<1> HIDE DEF n
<1>3. \A i \in 1 .. n : frames[i] = Frame(sent[i]) /\ Frame(sent[i]) \in Seq(Nat)
  BY <1>1, FrameIs
<1>4. frames \in [1 .. n -> Seq(Nat)]
  BY <1>3
<1> HIDE DEF whole, frames
<1>5. whole = IF n = 1 THEN frames[1] ELSE frames[1] \o frames[2]
  BY <1>1, <1>2, <1>4, FlattenIs
<1>6. CASE n = 1
  <2>1. frames[1] = Frame(sent[1]) /\ Frame(sent[1]) \in Seq(Nat)
    BY <1>3, <1>6
  <2>2. whole = Frame(sent[1])
    BY <1>5, <1>6, <2>1
  <2> QED
    BY <1>1, <1>6, <2>1, <2>2 DEF n, whole
<1>7. CASE n = 2
  <2> DEFINE f == Frame(sent[1])
             g == Frame(sent[2])
  <2>1. frames[1] = f /\ frames[2] = g /\ f \in Seq(Nat) /\ g \in Seq(Nat)
    BY <1>3, <1>7
  <2>2. whole = f \o g
    BY <1>5, <1>7, <2>1
  <2> HIDE DEF f, g
  <2>3. /\ f \o g \in Seq(Nat) /\ Len(f \o g) = Len(f) + Len(g)
        /\ \A i \in 1 .. Len(f) : (f \o g)[i] = f[i]
        /\ \A j \in 1 .. Len(g) : (f \o g)[Len(f) + j] = g[j]
    BY <2>1, JoinIs
  <2>4. /\ whole \in Seq(Nat) /\ Len(whole) = Len(f) + Len(g)
        /\ \A i \in 1 .. Len(f) : whole[i] = f[i]
        /\ \A j \in 1 .. Len(g) : whole[Len(f) + j] = g[j]
    BY <2>2, <2>3
  <2> QED
    BY <1>1, <1>7, <2>4 DEF n, whole, f, g
<1> QED
  BY <1>1, <1>6, <1>7

\* The headers of the rules.
LEMMA HeadersAre ==
    ASSUME ChannelInvariant, NEW u \in DOMAIN rules
    PROVE  rules[u].header \in {<<>>, <<170>>, <<187, 170>>}
<1>1. u \in DOMAIN channels /\ RuleAsLeft(u)
      /\ channels \in [DOMAIN channels -> [number : Nat, settings : Settings]]
  BY DEF ChannelInvariant, ChannelTypes
<1>2. channels[u].settings.format \in {Format(<<170>>), Format(<<187, 170>>), Invalid}
  BY <1>1 DEF Settings, Valid
<1>3. CASE channels[u].settings.format = Invalid
  BY <1>1, <1>3 DEF RuleAsLeft
<1>4. CASE channels[u].settings.format # Invalid
  <2>1. rules[u] = [RuleFor(channels[u].number, channels[u].settings.format)
                       EXCEPT !.enable = rules[u].enable]
    BY <1>1, <1>4 DEF RuleAsLeft
  <2>2. rules[u].header = channels[u].settings.format.header
    BY <2>1 DEF RuleFor
  <2> QED
    BY <1>2, <1>4, <2>2 DEF Format
<1> QED
  BY <1>3, <1>4

\* No rule that counts finds its header.
NoHeaderIn(b) == \A u \in Enabled : Occurrences(b, rules[u].header, 1) = {}

\* The same, byte by byte.
FreeOfHeaders(b) ==
    \A u \in Enabled :
        /\ rules[u].header # <<>>
        /\ rules[u].header = <<170>> => Lacks(b, 170)
        /\ rules[u].header = <<187, 170>> =>
               \A p \in 1 .. Len(b) - 1 : ~(b[p] = 187 /\ b[p + 1] = 170)

\* No header is found in bytes that are free of them.
LEMMA FreeIs ==
    ASSUME ChannelInvariant, NEW b \in Seq(Nat)
    PROVE  NoHeaderIn(b) <=> FreeOfHeaders(b)
<1> DEFINE Free(u) ==
               /\ rules[u].header # <<>>
               /\ rules[u].header = <<170>> => Lacks(b, 170)
               /\ rules[u].header = <<187, 170>> =>
                      \A p \in 1 .. Len(b) - 1 : ~(b[p] = 187 /\ b[p + 1] = 170)
           Found(h) == Occurrences(b, h, 1)
<1>1. ASSUME NEW u \in Enabled PROVE Found(rules[u].header) = {} <=> Free(u)
  <2>1. rules[u].header \in {<<>>, <<170>>, <<187, 170>>}
    BY HeadersAre DEF Enabled
  <2>2. <<170>> # <<>> /\ <<187, 170>> # <<>> /\ <<170>> # <<187, 170>>
    <3>1. Len(<<170>>) = 1 /\ Len(<<187, 170>>) = 2 /\ Len(<<>>) = 0
      OBVIOUS
    <3> QED
      BY <3>1
  <2>3. Found(<<>>) # {}
    <3>1. Len(b) \in Nat /\ Len(<<>>) = 0
      BY LenProperties
    <3>2. 1 \in 1 .. Len(b) - Len(<<>>) + 1 /\ 1 + Len(<<>>) - 1 = 0
      BY <3>1
    <3>3. SubSeq(b, 1, 0) = <<>>
      BY SubSeqEmpty
    <3>4. 1 \in Found(<<>>)
      BY <3>2, <3>3 DEF Occurrences
    <3> QED
      BY <3>4
  <2>4. Found(<<170>>) = {} <=> Lacks(b, 170)
    <3>1. Found(<<170>>) = {p \in 1 .. Len(b) : b[p] = 170}
      BY ByteOccurs
    <3> HIDE DEF Found
    <3> QED
      BY <3>1 DEF Lacks
  <2>5. Found(<<187, 170>>) = {} <=> \A p \in 1 .. Len(b) - 1 : ~(b[p] = 187 /\ b[p + 1] = 170)
    <3>1. Found(<<187, 170>>) = {p \in 1 .. Len(b) - 1 : b[p] = 187 /\ b[p + 1] = 170}
      BY TwoBytesOccur
    <3> DEFINE places == Found(<<187, 170>>)
    <3>2. /\ \A p \in places : p \in 1 .. Len(b) - 1 /\ b[p] = 187 /\ b[p + 1] = 170
          /\ \A p \in 1 .. Len(b) - 1 : b[p] = 187 /\ b[p + 1] = 170 => p \in places
      BY <3>1, Zenon
    <3> HIDE DEF places
    <3>3. places = {} <=> \A p \in 1 .. Len(b) - 1 : ~(b[p] = 187 /\ b[p + 1] = 170)
      <4> DEFINE I == 1 .. Len(b) - 1
                 Here(p) == b[p] = 187 /\ b[p + 1] = 170
      <4>1. (\A p \in places : p \in I /\ Here(p)) /\ \A p \in I : Here(p) => p \in places
        BY <3>2
      <4> HIDE DEF I, Here
      <4>2. places = {} <=> \A p \in I : ~Here(p)
        BY <4>1
      <4> QED
        BY <4>2 DEF I, Here
    <3> QED
      BY <3>3 DEF places
  <2> HIDE DEF Found
  <2>6. CASE rules[u].header = <<>>
    BY <2>3, <2>6
  <2>7. CASE rules[u].header = <<170>>
    BY <2>2, <2>4, <2>7
  <2>8. CASE rules[u].header = <<187, 170>>
    BY <2>2, <2>5, <2>8
  <2> QED
    BY <2>1, <2>6, <2>7, <2>8
<1>2. NoHeaderIn(b) <=> \A u \in Enabled : Found(rules[u].header) = {}
  BY DEF NoHeaderIn
<1>3. FreeOfHeaders(b) <=> \A u \in Enabled : Free(u)
  BY DEF FreeOfHeaders
<1> HIDE DEF Free, Found
<1> QED
  BY <1>1, <1>2, <1>3

\* Where no header is, nothing is plotted and nothing is left.
LEMMA FreePlotsNothing ==
    ASSUME ChannelInvariant, StreamTypes, NEW b \in Seq(Nat), FreeOfHeaders(b)
    PROVE  ParseFrames(b, rules) = [plotted |-> <<>>, left |-> <<>>]
<1>1. NoHeaderIn(b)
  BY FreeIs
<1>2. Matching(b, rules, 1) = {}
  BY <1>1 DEF NoHeaderIn, Enabled, Matching
<1>3. RuleTable(rules)
  BY ChannelsInRange
<1> QED
  BY <1>2, <1>3, NothingMatches

\* A part of what is free of headers is free of them.
LEMMA PartIsFree ==
    ASSUME NEW b, NEW c, Len(b) \in Nat, Len(c) \in Nat, NEW o \in Nat, o + Len(c) <= Len(b),
           \A p \in 1 .. Len(c) : c[p] = b[o + p], FreeOfHeaders(b)
    PROVE  FreeOfHeaders(c)
<1> DEFINE m == Len(b)
           k == Len(c)
<1>1. \A p \in 1 .. k : o + p \in 1 .. m /\ c[p] = b[o + p]
  <2>1. m \in Nat /\ k \in Nat /\ o + k <= m
    OBVIOUS
  <2>2. \A p \in 1 .. k : o + p \in 1 .. m
    <3> HIDE DEF m, k
    <3> QED
      BY <2>1
  <2> QED
    BY <2>2
<1>2. \A p \in 1 .. k - 1 : /\ o + p \in 1 .. m - 1 /\ o + (p + 1) = (o + p) + 1
                            /\ p \in 1 .. k /\ p + 1 \in 1 .. k
  <2>1. m \in Nat /\ k \in Nat /\ o + k <= m
    OBVIOUS
  <2> HIDE DEF m, k
  <2> QED
    BY <2>1
<1> SUFFICES ASSUME NEW u \in Enabled
             PROVE  /\ rules[u].header # <<>>
                    /\ rules[u].header = <<170>> => Lacks(c, 170)
                    /\ rules[u].header = <<187, 170>> =>
                           \A p \in 1 .. k - 1 : ~(c[p] = 187 /\ c[p + 1] = 170)
  BY DEF FreeOfHeaders
<1>3. /\ rules[u].header # <<>>
      /\ rules[u].header = <<170>> => \A p \in 1 .. m : b[p] # 170
      /\ rules[u].header = <<187, 170>> =>
             \A p \in 1 .. m - 1 : ~(b[p] = 187 /\ b[p + 1] = 170)
  BY DEF FreeOfHeaders, Lacks
<1>4. rules[u].header = <<170>> => \A p \in 1 .. k : c[p] # 170
  BY <1>1, <1>3
<1>5. rules[u].header = <<187, 170>> => \A p \in 1 .. k - 1 : ~(c[p] = 187 /\ c[p + 1] = 170)
  <2> SUFFICES ASSUME rules[u].header = <<187, 170>>, NEW p \in 1 .. k - 1
               PROVE  ~(c[p] = 187 /\ c[p + 1] = 170)
    OBVIOUS
  <2>1. c[p] = b[o + p] /\ c[p + 1] = b[(o + p) + 1] /\ o + p \in 1 .. m - 1
    <3> HIDE DEF m, k
    <3> QED
      BY <1>1, <1>2
  <2> QED
    BY <1>3, <2>1
<1> QED
  BY <1>3, <1>4, <1>5 DEF Lacks

\* A rule takes a message whose frame begins with its header, or has none.
LEMMA TakenFound ==
    ASSUME ChannelInvariant, NEW message \in Messages, NEW u \in TakenBy(message)
    PROVE  u \in Enabled /\ Occurrences(Frame(message), rules[u].header, 1) # {}
<1> DEFINE frame == Frame(message)
           h == rules[u].header
           l == Len(h)
           m == Len(frame)
<1>1. u \in Enabled /\ SubSeq(frame, 1, l) = h
  BY DEF TakenBy
<1>2. h \in {<<>>, <<170>>, <<187, 170>>}
  BY <1>1, HeadersAre DEF Enabled
<1>3. l \in {0, 1, 2}
  <2>1. Len(<<170>>) = 1 /\ Len(<<187, 170>>) = 2 /\ Len(<<>>) = 0
    OBVIOUS
  <2> HIDE DEF h
  <2> QED
    BY <1>2, <2>1
<1>4. m \in 3 .. 6
  BY FrameIs
<1>5. 1 \in 1 .. m - l + 1 /\ 1 + l - 1 = l
  <2> HIDE DEF m, l
  <2> QED
    BY <1>3, <1>4
<1>6. SubSeq(frame, 1, 1 + l - 1) = h
  BY <1>1, <1>5, Zenon
<1>7. 1 \in Occurrences(frame, h, 1)
  <2> HIDE DEF frame, h
  <2> QED
    BY <1>5, <1>6 DEF Occurrences
<1> QED
  BY <1>1, <1>7

\* No rule takes a frame that is free of headers.
LEMMA FreeIsNotTaken ==
    ASSUME ChannelInvariant, NEW message \in Messages, FreeOfHeaders(Frame(message))
    PROVE  TakenBy(message) = {}
<1>1. Frame(message) \in Seq(Nat)
  BY FrameIs
<1>2. NoHeaderIn(Frame(message))
  BY <1>1, FreeIs
<1>3. \A u \in TakenBy(message) : FALSE
  BY <1>2, TakenFound DEF NoHeaderIn
<1> QED
  BY <1>3

\* What Clear asks of a message that is not free of headers.
Suits(message) ==
    /\ \E u \in Enabled :
          /\ TakenBy(message) = {u}
          /\ RuleFor(rules[u].channel, message.format) = [rules[u] EXCEPT !.enable = FALSE]
    /\ Len(Frame(message)) >= 2 * message.format.headerLen + message.format.lenOffset

\* A message that suits a rule is the long one, and no other rule is for it.
LEMMA SuitsIs ==
    ASSUME ChannelInvariant, NEW message \in Messages, Suits(message)
    PROVE  message = LongMessage /\ \E u : TakenBy(LongMessage) = {u} /\ OnlyRule(rules, u)
<1> DEFINE frame == Frame(LongMessage)
<1>1. message = LongMessage
  BY FrameIs DEF Suits
<1>2. PICK u \in Enabled :
          /\ TakenBy(LongMessage) = {u}
          /\ RuleFor(rules[u].channel, LongMessage.format) = [rules[u] EXCEPT !.enable = FALSE]
  BY <1>1 DEF Suits
<1>3. /\ frame \in Seq(Nat) /\ Len(frame) = 5 /\ frame[1] = 170
  BY <1>1, FrameIs
<1>4. u \in DOMAIN rules /\ rules[u].enable /\ rules[u] \in Rules
  BY DEF Enabled, ChannelInvariant, ChannelTypes
<1>5. /\ rules[u].header = <<170>> /\ rules[u].headerLen = 1
      /\ rules[u].typeOffset = 1 /\ rules[u].lenOffset = 2
  <2>1. Len(<<170>>) = 1
    OBVIOUS
  <2> DEFINE r == RuleFor(rules[u].channel, LongMessage.format)
  <2>2. r.header = <<170>> /\ r.headerLen = 1 /\ r.typeOffset = 1 /\ r.lenOffset = 2
    BY <2>1 DEF RuleFor, LongMessage, Format
  <2> HIDE DEF r
  <2>3. r = [rules[u] EXCEPT !.enable = FALSE]
    BY <1>2 DEF r
  <2>4. /\ r.header = rules[u].header /\ r.headerLen = rules[u].headerLen
        /\ r.typeOffset = rules[u].typeOffset /\ r.lenOffset = rules[u].lenOffset
    BY <1>4, <2>3 DEF Rules
  <2> QED
    BY <2>2, <2>4
<1>6. ASSUME NEW v \in DOMAIN rules, rules[v].enable, v # u
      PROVE  rules[v].header = <<187, 170>>
  <2> DEFINE h == rules[v].header
  <2>1. h \in {<<>>, <<170>>, <<187, 170>>}
    BY HeadersAre
  <2>2. SubSeq(frame, 1, Len(h)) # h
    <3>1. v \in Enabled /\ v \notin TakenBy(LongMessage)
      BY <1>2, <1>6 DEF Enabled
    <3> QED
      BY <3>1 DEF TakenBy
  <2>3. SubSeq(frame, 1, 0) = <<>>
    BY SubSeqEmpty
  <2>4. SubSeq(frame, 1, 1) = <<170>>
    <3> DEFINE cut == SubSeq(frame, 1, 1)
    <3>1. \A j \in 1 .. 1 : frame[j] \in Nat
      BY <1>3
    <3>2. cut \in Seq(Nat) /\ Len(cut) = 1 /\ cut[1] = 170
      <4> HIDE DEF frame
      <4> QED
        BY <1>3, <3>1, SubSeqProperties
    <3> HIDE DEF cut
    <3>3. <<170>> \in Seq(Nat) /\ Len(<<170>>) = 1 /\ <<170>>[1] = 170
      OBVIOUS
    <3>4. cut = <<170>>
      BY <3>2, <3>3, SeqEqual
    <3> QED
      BY <3>4 DEF cut
  <2>5. Len(<<>>) = 0 /\ Len(<<170>>) = 1
    OBVIOUS
  <2> HIDE DEF h
  <2>6. h # <<>>
    BY <2>2, <2>3, <2>5
  <2>7. h # <<170>>
    BY <2>2, <2>4, <2>5
  <2> QED
    BY <2>1, <2>6, <2>7 DEF h
<1>7. OnlyRule(rules, u)
  BY <1>4, <1>5, <1>6 DEF OnlyRule
<1> QED
  BY <1>1, <1>2, <1>7

\* A clear transmission is of messages of one rule, or free of headers.
LEMMA ClearIs ==
    ASSUME ChannelInvariant, NEW sent \in Sent("frames"), Clear(sent)
    PROVE  \/ NoHeaderIn(Encoded("frames", sent))
           \/ /\ \A i \in 1 .. Len(sent) : sent[i] = LongMessage
              /\ \E u : TakenBy(LongMessage) = {u} /\ OnlyRule(rules, u)
<1>1. /\ Len(sent) \in {1, 2} /\ DOMAIN sent = 1 .. Len(sent)
      /\ \A i \in 1 .. Len(sent) : sent[i] \in Messages
  BY FramesFollow
<1>2. \A i \in 1 .. Len(sent) : Suits(sent[i]) \/ NoHeaderIn(Encoded("frames", sent))
  BY <1>1 DEF Clear, Suits, NoHeaderIn
<1>3. CASE \A i \in 1 .. Len(sent) : Suits(sent[i])
  <2>1. \A i \in 1 .. Len(sent) : sent[i] = LongMessage
    BY <1>1, <1>3, SuitsIs
  <2>2. 1 \in 1 .. Len(sent)
    BY <1>1
  <2>3. \E u : TakenBy(LongMessage) = {u} /\ OnlyRule(rules, u)
    BY <1>1, <1>3, <2>2, SuitsIs
  <2> QED
    BY <2>1, <2>3
<1> QED
  BY <1>2, <1>3

\* What is sent when all messages are long.
LEMMA LongMessages ==
    ASSUME NEW sent \in Sent("frames"), \A i \in 1 .. Len(sent) : sent[i] = LongMessage
    PROVE  LET n == Len(sent)
               whole == Encoded("frames", sent)
           IN  whole \in Seq(Nat) /\ LongFrames(whole, n)
<1> DEFINE n == Len(sent)
           whole == Encoded("frames", sent)
           frame == Frame(LongMessage)
<1>1. /\ n \in {1, 2}
      /\ whole \in Seq(Nat)
      /\ Len(whole) = IF n = 1 THEN Len(Frame(sent[1]))
                      ELSE Len(Frame(sent[1])) + Len(Frame(sent[2]))
      /\ \A p \in 1 .. Len(Frame(sent[1])) : whole[p] = Frame(sent[1])[p]
      /\ n = 2 => \A p \in 1 .. Len(Frame(sent[2])) :
                      whole[Len(Frame(sent[1])) + p] = Frame(sent[2])[p]
      /\ \A i \in 1 .. n : sent[i] \in Messages
  BY FramesFollow
<1>2. sent[1] = LongMessage /\ (n = 2 => sent[2] = LongMessage) /\ LongMessage \in Messages
  BY <1>1
<1> HIDE DEF n, whole
<1>3. /\ Len(frame) = 5 /\ frame[1] = 170 /\ frame[2] = 3 /\ frame[3] = 2
      /\ frame[4] = 170 /\ frame[5] = 2
  BY <1>2, FrameIs
<1>4. /\ Len(whole) = 5 * n
      /\ \A p \in 1 .. 5 : whole[p] = frame[p]
      /\ n = 2 => \A p \in 1 .. 5 : whole[5 + p] = frame[p]
  <2> HIDE DEF frame
  <2>1. Frame(sent[1]) = frame /\ (n = 2 => Frame(sent[2]) = frame)
    BY <1>2 DEF frame
  <2>2. CASE n = 1
    BY <1>1, <1>3, <2>1, <2>2
  <2>3. CASE n = 2
    <3>1. Frame(sent[1]) = frame /\ Frame(sent[2]) = frame
      BY <2>1, <2>3
    <3> DEFINE l == Len(Frame(sent[1]))
               k == Len(Frame(sent[2]))
    <3>5. l = 5 /\ k = 5
      BY <1>3, <3>1
    <3>6. Len(whole) = l + k /\ \A p \in 1 .. k : whole[l + p] = Frame(sent[2])[p]
      <4>1. 2 # 1
        OBVIOUS
      <4> QED
        BY <1>1, <2>3, <4>1, Zenon
    <3> HIDE DEF l, k
    <3>2. Len(whole) = 5 * n
      BY <2>3, <3>5, <3>6
    <3>3. \A p \in 1 .. 5 : whole[p] = frame[p]
      BY <1>1, <1>3, <3>1
    <3>4. \A p \in 1 .. 5 : whole[5 + p] = frame[p]
      BY <3>1, <3>5, <3>6
    <3> QED
      BY <2>3, <3>2, <3>3, <3>4
  <2> QED
    BY <1>1, <2>2, <2>3
<1> HIDE DEF frame
<1>5. \A p \in 1 .. 5 : frame[p] # 187
  <2>1. \A p \in 1 .. 5 : p = 1 \/ p = 2 \/ p = 3 \/ p = 4 \/ p = 5
    OBVIOUS
  <2> QED
    BY <1>3, <2>1
<1>6. \A p \in 1 .. Len(whole) : whole[p] # 187
  <2> TAKE p \in 1 .. Len(whole)
  <2>1. p \in 1 .. 5 * n
    BY <1>4
  <2>2. CASE p <= 5
    <3>1. p \in 1 .. 5
      BY <2>1, <2>2
    <3> QED
      BY <1>4, <1>5, <3>1
  <2>3. CASE ~(p <= 5)
    <3> DEFINE j == p - 5
    <3>1. n = 2 /\ j \in 1 .. 5 /\ 5 + j = p
      BY <1>1, <2>1, <2>3
    <3> HIDE DEF j
    <3> QED
      BY <1>4, <1>5, <3>1
  <2> QED
    BY <2>2, <2>3
<1>7. whole[1] = 170 /\ whole[3] = 2 /\ whole[4] = 170 /\ whole[5] = 2
  BY <1>3, <1>4
<1>8. n = 2 => whole[6] = 170 /\ whole[8] = 2 /\ whole[9] = 170 /\ whole[10] = 2
  <2>1. n = 2 => /\ whole[5 + 1] = frame[1] /\ whole[5 + 3] = frame[3]
                 /\ whole[5 + 4] = frame[4] /\ whole[5 + 5] = frame[5]
    BY <1>4
  <2> QED
    BY <1>3, <2>1
<1> QED
  BY <1>1, <1>4, <1>6, <1>7, <1>8 DEF n, whole, LongFrames, Lacks

-----------------------------------------------------------------------------
(* What is sent is plotted *)

\* Nothing before it leaves a sequence as it is.
LEMMA NothingBefore ==
    ASSUME NEW A, NEW s \in Seq(A)
    PROVE  <<>> \o s = s
  OBVIOUS

\* The points of a channel that has a curve are all plotted.
LEMMA AllAdded ==
    ASSUME NEW n \in Nat, NEW point, point.channel \in curves
    PROVE  addData([i \in 1 .. n |-> point]) = [i \in 1 .. n |-> point]
<1> DEFINE points == [i \in 1 .. n |-> point]
<1>1. PICK T : T = {p \in Range(points) : p.channel \notin curves}
  OBVIOUS
<1>2. points \in [1 .. n -> {point}]
  OBVIOUS
<1> HIDE DEF points
<1>3. points \in Seq({point}) /\ Len(points) = n
  BY <1>2, FunctionIsSequence
<1>4. \A i \in 1 .. Len(points) : points[i] \notin T
  <2>1. point \notin T
    BY <1>1
  <2>2. \A i \in 1 .. Len(points) : points[i] = point
    BY <1>3, LenProperties
  <2> QED
    BY <2>1, <2>2
<1>5. Omitting(points, T) = points
  BY <1>3, <1>4, OmittingNone
<1>6. addData(points) = points
  BY <1>1, <1>5 DEF addData
<1> QED
  BY <1>6 DEF points

\* What is plotted in two reads is what is plotted in one.
Completes(whole, k) ==
    LET first == Parsed(SubSeq(whole, 1, k))
        second == Parsed(first.left \o Rest(whole, k + 1))
    IN  first.plotted \o second.plotted = Parsed(whole).plotted /\ second.left = <<>>

\* What Plots says of a protocol without a channel of its own.
LEMMA PlotsWhen ==
    ASSUME NEW sent, NEW points, NEW whole, whole = Encoded(protocol, sent),
           protocol # "JustFloat",
           Points(whole) = points, Parsed(whole).left = <<>>,
           \A k \in Splits(sent) : Completes(whole, k)
    PROVE  Plots(sent, points)
  BY DEF Plots, Completes

\* Long messages are plotted on the channel of their rule, in one read or in two.
LEMMA LongPlotted ==
    ASSUME ChannelInvariant, StreamTypes, protocol = "frames", buffer = <<>>,
           NEW sent \in Sent("frames"), \A i \in 1 .. Len(sent) : sent[i] = LongMessage,
           NEW u, TakenBy(LongMessage) = {u}, OnlyRule(rules, u)
    PROVE  Plots(sent, PointsOf(sent))
<1> DEFINE n == Len(sent)
           whole == Encoded("frames", sent)
           channel == rules[u].channel
           point == Point(channel, 682, ScriptOf(channel))
           points == [i \in 1 .. n |-> point]
           parsed == ParseFrames(whole, rules)
<1>1. whole \in Seq(Nat) /\ LongFrames(whole, n)
  BY LongMessages
<1>2. /\ sent \in Seq(Messages) /\ DOMAIN sent = 1 .. n
      /\ \A i \in 1 .. n : sent[i] \in Messages
  BY FramesFollow
<1> HIDE DEF n, whole
<1>13. /\ n \in {1, 2} /\ Len(whole) = 5 * n /\ whole[1] = 170
       /\ \A p \in 1 .. Len(whole) : whole[p] # 187
  BY <1>1 DEF LongFrames, Lacks
<1>3. RuleTable(rules) /\ channel \in curves
  <2>1. u \in DOMAIN channels /\ channels[u].number \in curves
        /\ channel = channels[u].number
    BY DEF OnlyRule, ChannelInvariant, ChannelTypes, ChannelsNumbered
  <2> QED
    BY <2>1, ChannelsInRange
<1>4. parsed.plotted = [i \in 1 .. n |-> <<channel, 682>>] /\ parsed.left = <<>>
  BY <1>1, <1>3, MessagesRead
<1>5. Parsed(whole) = parsed /\ buffer \o whole = whole
  BY <1>1, NothingBefore DEF Parsed
<1> HIDE DEF parsed
<1>6. Points(whole) = points
  <2> DEFINE pairs == Parsed(buffer \o whole).plotted
             added == [i \in DOMAIN pairs |->
                          Point(pairs[i][1], pairs[i][2], ScriptOf(pairs[i][1]))]
  <2>1. Points(whole) = addData(added)
    BY DEF Points
  <2>2. pairs = [i \in 1 .. n |-> <<channel, 682>>]
    BY <1>4, <1>5
  <2> HIDE DEF pairs
  <2>3. \A i \in 1 .. n : pairs[i][1] = channel /\ pairs[i][2] = 682
    <3> HIDE DEF channel
    <3> QED
      BY <2>2
  <2>4. DOMAIN pairs = 1 .. n
    BY <2>2
  <2>5. added = points
    <3> HIDE DEF channel
    <3> QED
      BY <2>3, <2>4
  <2>6. addData(points) = points
    <3>1. n \in Nat /\ point.channel \in curves
      BY <1>13, <1>3 DEF Point
    <3> HIDE DEF point
    <3> QED
      BY <3>1, AllAdded
  <2> HIDE DEF added, points
  <2> QED
    BY <2>1, <2>5, <2>6
<1>7. PointsOf(sent) = points
  <2>1. PICK T : T = {message \in Messages : TakenBy(message) = {}}
    OBVIOUS
  <2>2. LongMessage \notin T
    BY <2>1
  <2>3. \A i \in 1 .. Len(sent) : sent[i] \notin T
    BY <2>2
  <2>4. Omitting(sent, T) = sent
    BY <1>2, <2>3, OmittingNone
  <2> DEFINE taken == Omitting(sent, {message \in Messages : TakenBy(message) = {}})
             rule(message) == rules[CHOOSE v \in TakenBy(message) : TRUE]
  <2>5. taken = sent
    BY <2>1, <2>4
  <2>6. (CHOOSE v \in TakenBy(LongMessage) : TRUE) = u
    OBVIOUS
  <2>7. PayloadValue(LongMessage.payload) = 682
    <3>1. LongMessage.payload = <<170, 2>>
      BY DEF LongMessage
    <3>2. /\ <<170, 2>> # <<>> /\ Len(<<170, 2>>) = 2
          /\ <<170, 2>>[1] = 170 /\ <<170, 2>>[2] = 2
      OBVIOUS
    <3> DEFINE payload == <<170, 2>>
    <3> HIDE DEF payload
    <3>3. payload # <<>> /\ Len(payload) = 2 /\ payload[1] = 170 /\ payload[2] = 2
      BY <3>2 DEF payload
    <3>4. PayloadValue(payload) = 682
      BY <3>3 DEF PayloadValue
    <3> QED
      BY <3>1, <3>4 DEF payload
  <2>8. PointsOf(sent) =
            [i \in DOMAIN taken |->
                Point(rule(taken[i]).channel, PayloadValue(taken[i].payload),
                      ScriptOf(rule(taken[i]).channel))]
    BY DEF PointsOf
  <2> HIDE DEF taken, rule
  <2>9. rule(LongMessage) = rules[u]
    BY <2>6 DEF rule
  <2>10. \A i \in 1 .. n : taken[i] = LongMessage
    BY <2>5 DEF n
  <2>11. DOMAIN taken = 1 .. n
    BY <1>2, <2>5
  <2> QED
    BY <2>7, <2>8, <2>9, <2>10, <2>11
<1>8. ASSUME NEW k \in Splits(sent)
      PROVE  /\ Parsed(SubSeq(whole, 1, k)) = [plotted |-> <<>>, left |-> SubSeq(whole, 1, k)]
             /\ SubSeq(whole, 1, k) \o Rest(whole, k + 1) = whole
  <2>1. k \in 1 .. Len(whole) - 1
    BY DEF Splits, whole
  <2>2. n = 1 /\ k \in 1 .. 3
    <3> DEFINE format == sent[1].format
    <3>1. /\ n = 1
          /\ k \in format.headerLen .. 2 * format.headerLen + format.lenOffset - 1
      BY DEF Splits, n
    <3>2. format = Format(<<170>>)
      BY <3>1 DEF LongMessage, n
    <3>3. format.headerLen = 1 /\ format.lenOffset = 2
      <4>1. Len(<<170>>) = 1
        OBVIOUS
      <4> QED
        BY <3>2, <4>1 DEF Format
    <3> HIDE DEF format
    <3> QED
      BY <3>1, <3>3
  <2> DEFINE b == SubSeq(whole, 1, k)
  <2>3. k \in 1 .. Len(whole)
    BY <1>13, <2>1, <2>2
  <2>4. b \in Seq(Nat) /\ Len(b) = k /\ \A p \in 1 .. k : b[p] = whole[p]
    BY <1>1, <2>3, PrefixIs
  <2>5. b \o Rest(whole, k + 1) = whole
    BY <1>1, <2>3, PrefixIs
  <2> HIDE DEF b
  <2>6. b[1] = 170 /\ Lacks(b, 187) /\ Len(b) \in 1 .. 3
    <3>1. \A p \in 1 .. k : p \in 1 .. Len(whole)
      BY <1>13, <2>2
    <3> QED
      BY <1>13, <2>2, <2>4, <3>1 DEF Lacks
  <2>7. ParseFrames(b, rules) = [plotted |-> <<>>, left |-> b]
    BY <1>3, <2>4, <2>6, MessageWaits
  <2> QED
    BY <2>5, <2>7 DEF Parsed, b
<1>9. <<>> \o parsed.plotted = parsed.plotted
  <2>1. parsed.plotted \in [1 .. n -> {<<channel, 682>>}] /\ n \in Nat
    BY <1>13, <1>4
  <2>2. parsed.plotted \in Seq({<<channel, 682>>})
    BY <2>1, FunctionIsSequence
  <2> DEFINE s == parsed.plotted
             A == {<<channel, 682>>}
  <2> HIDE DEF s, A
  <2>3. s \in Seq(A)
    BY <2>2 DEF s, A
  <2>4. <<>> \o s = s
    BY <2>3, NothingBefore
  <2> QED
    BY <2>4 DEF s
<1> HIDE DEF points
<1>10. whole = Encoded(protocol, sent) /\ protocol # "JustFloat"
  BY DEF whole
<1>11. ASSUME NEW k \in Splits(sent) PROVE Completes(whole, k)
  <2> DEFINE first == Parsed(SubSeq(whole, 1, k))
  <2>1. /\ first = [plotted |-> <<>>, left |-> SubSeq(whole, 1, k)]
        /\ SubSeq(whole, 1, k) \o Rest(whole, k + 1) = whole
    BY <1>8, Zenon
  <2> HIDE DEF first
  <2>2. first.plotted = <<>> /\ first.left \o Rest(whole, k + 1) = whole
    BY <2>1
  <2>3. first.plotted \o Parsed(whole).plotted = Parsed(whole).plotted
        /\ Parsed(whole).left = <<>>
    BY <1>4, <1>5, <1>9, <2>2
  <2>4. Parsed(first.left \o Rest(whole, k + 1)) = Parsed(whole)
    BY <2>2
  <2> QED
    BY <2>3, <2>4 DEF first, Completes
<1>12. Parsed(whole).left = <<>>
  BY <1>4, <1>5
<1> QED
  BY <1>6, <1>7, <1>10, <1>11, <1>12, PlotsWhen

\* Nothing comes of nothing.
LEMMA OfNothing ==
    ASSUME NEW f, DOMAIN f = {}, f \in [DOMAIN f -> {}]
    PROVE  f = <<>>
<1>1. 1 .. 0 = {} /\ 0 \in Nat
  OBVIOUS
<1>2. f \in [1 .. 0 -> {}]
  BY <1>1
<1>3. f \in Seq({}) /\ Len(f) = 0
  BY <1>1, <1>2, FunctionIsSequence
<1> QED
  BY <1>3, EmptySeq

\* Messages no rule finds a header in are not plotted, in one read or in two.
LEMMA FreePlotted ==
    ASSUME ChannelInvariant, StreamTypes, protocol = "frames", buffer = <<>>,
           NEW sent \in Sent("frames"), NoHeaderIn(Encoded("frames", sent))
    PROVE  Plots(sent, PointsOf(sent))
<1> DEFINE n == Len(sent)
           whole == Encoded("frames", sent)
           f == Frame(sent[1])
           g == Frame(sent[2])
           none == [plotted |-> <<>>, left |-> <<>>]
<1>1. /\ n \in {1, 2} /\ sent \in Seq(Messages) /\ DOMAIN sent = 1 .. n
      /\ \A i \in 1 .. n : sent[i] \in Messages
      /\ whole \in Seq(Nat)
      /\ Len(whole) = IF n = 1 THEN Len(f) ELSE Len(f) + Len(g)
      /\ \A p \in 1 .. Len(f) : whole[p] = f[p]
      /\ n = 2 => \A p \in 1 .. Len(g) : whole[Len(f) + p] = g[p]
  BY FramesFollow
<1>2. FreeOfHeaders(whole)
  BY <1>1, FreeIs
<1> HIDE DEF n, whole
<1>3. Parsed(whole) = none /\ buffer \o whole = whole
  BY <1>1, <1>2, NothingBefore, FreePlotsNothing DEF Parsed
<1>4. Points(whole) = <<>>
  <2> DEFINE pairs == Parsed(buffer \o whole).plotted
             added == [i \in DOMAIN pairs |->
                          Point(pairs[i][1], pairs[i][2], ScriptOf(pairs[i][1]))]
  <2>1. Points(whole) = addData(added)
    BY DEF Points
  <2>2. pairs = <<>> /\ DOMAIN <<>> = {}
    BY <1>3
  <2> HIDE DEF pairs
  <2>3. DOMAIN added = {} /\ added \in [DOMAIN added -> {}]
    BY <2>2
  <2> HIDE DEF added
  <2>4. added = <<>>
    BY <2>3, OfNothing
  <2>5. addData(<<>>) = <<>>
    <3>1. PICK T : T = {point \in Range(<<>>) : point.channel \notin curves}
      OBVIOUS
    <3>2. PICK s : s = <<>>
      OBVIOUS
    <3>3. s \in Seq({}) /\ Len(s) = 0
      BY <3>2
    <3>4. \A i \in 1 .. Len(s) : s[i] \in T
      BY <3>3
    <3>5. Omitting(s, T) = <<>>
      BY <3>3, <3>4, OmittingAll
    <3> QED
      BY <3>1, <3>2, <3>5 DEF addData
  <2> QED
    BY <2>1, <2>4, <2>5
<1>5. \A i \in 1 .. n : TakenBy(sent[i]) = {}
  <2>1. /\ f \in Seq(Nat) /\ Len(f) \in 3 .. 6 /\ sent[1] \in Messages
        /\ n = 2 => g \in Seq(Nat) /\ Len(g) \in 3 .. 6 /\ sent[2] \in Messages
    BY <1>1, FrameIs
  <2> HIDE DEF f, g
  <2>2. Len(whole) \in Nat /\ Len(f) \in Nat
    BY <1>1, <2>1, LenProperties
  <2>3. TakenBy(sent[1]) = {}
    <3>1. /\ 0 \in Nat /\ 0 + Len(f) <= Len(whole)
          /\ \A p \in 1 .. Len(f) : f[p] = whole[0 + p]
      <4>1. CASE n = 1
        BY <1>1, <2>2, <4>1
      <4>2. CASE n = 2
        <5>1. Len(whole) = Len(f) + Len(g) /\ Len(g) \in Nat
          BY <1>1, <2>1, <4>2
        <5> QED
          BY <1>1, <2>2, <5>1
      <4> QED
        BY <1>1, <4>1, <4>2
    <3>2. FreeOfHeaders(f)
      BY <1>2, <2>2, <3>1, PartIsFree
    <3> QED
      BY <2>1, <3>2, FreeIsNotTaken DEF f
  <2>4. n = 2 => TakenBy(sent[2]) = {}
    <3> SUFFICES ASSUME n = 2 PROVE TakenBy(sent[2]) = {}
      OBVIOUS
    <3>1. Len(whole) = Len(f) + Len(g) /\ Len(g) \in Nat
      BY <1>1, <2>1
    <3>2. Len(f) + Len(g) <= Len(whole) /\ \A p \in 1 .. Len(g) : g[p] = whole[Len(f) + p]
      BY <1>1, <2>2, <3>1
    <3>3. FreeOfHeaders(g)
      BY <1>2, <2>2, <3>1, <3>2, PartIsFree
    <3> QED
      BY <2>1, <3>3, FreeIsNotTaken DEF g
  <2>5. \A i \in 1 .. n : i = 1 \/ (n = 2 /\ i = 2)
    BY <1>1
  <2> QED
    BY <2>3, <2>4, <2>5
<1>6. PointsOf(sent) = <<>>
  <2>1. PICK T : T = {message \in Messages : TakenBy(message) = {}}
    OBVIOUS
  <2>2. \A i \in 1 .. Len(sent) : sent[i] \in T
    BY <1>1, <1>5, <2>1 DEF n
  <2>3. Omitting(sent, T) = <<>>
    BY <1>1, <2>2, OmittingAll
  <2> DEFINE taken == Omitting(sent, {message \in Messages : TakenBy(message) = {}})
             rule(message) == rules[CHOOSE v \in TakenBy(message) : TRUE]
             points == [i \in DOMAIN taken |->
                           Point(rule(taken[i]).channel, PayloadValue(taken[i].payload),
                                 ScriptOf(rule(taken[i]).channel))]
  <2>4. PointsOf(sent) = points
    BY DEF PointsOf
  <2>5. taken = <<>> /\ DOMAIN <<>> = {}
    BY <2>1, <2>3
  <2> HIDE DEF taken, rule
  <2>6. DOMAIN points = {} /\ points \in [DOMAIN points -> {}]
    BY <2>5
  <2> HIDE DEF points
  <2> QED
    BY <2>4, <2>6, OfNothing
<1>7. ASSUME NEW k \in Splits(sent) PROVE Completes(whole, k)
  <2> DEFINE b == SubSeq(whole, 1, k)
             rest == Rest(whole, k + 1)
             m == Len(whole)
  <2>1. k \in 1 .. m - 1 /\ m \in Nat
    BY <1>1, LenProperties DEF Splits, whole
  <2>2. k \in 1 .. Len(whole) /\ k \in Nat /\ m - k \in Nat
    <3>1. k \in 1 .. m /\ k \in Nat /\ m - k \in Nat
      <4> HIDE DEF m
      <4> QED
        BY <2>1
    <3> QED
      BY <3>1
  <2>3. /\ b \in Seq(Nat) /\ Len(b) = k /\ \A p \in 1 .. k : b[p] = whole[p]
        /\ rest \in Seq(Nat) /\ Len(rest) = m - k
        /\ \A p \in 1 .. m - k : rest[p] = whole[k + p]
    BY <1>1, <2>2, PrefixIs
  <2> HIDE DEF b, rest
  <2>4. FreeOfHeaders(b)
    <3>1. 0 + Len(b) <= Len(whole) /\ 0 \in Nat /\ \A p \in 1 .. Len(b) : b[p] = whole[0 + p]
      <4> HIDE DEF m
      <4> QED
        BY <2>1, <2>2, <2>3
    <3>2. Len(b) \in Nat /\ Len(whole) \in Nat
      BY <2>1, <2>2, <2>3
    <3> QED
      BY <1>2, <3>1, <3>2, PartIsFree
  <2>5. FreeOfHeaders(rest)
    <3>1. k + Len(rest) <= m /\ \A p \in 1 .. Len(rest) : rest[p] = whole[k + p]
      <4> HIDE DEF m
      <4> QED
        BY <2>1, <2>2, <2>3
    <3>2. Len(rest) \in Nat /\ Len(whole) \in Nat
      BY <2>1, <2>2, <2>3
    <3> QED
      BY <1>2, <2>2, <3>1, <3>2, PartIsFree
  <2>6. Parsed(b) = none /\ Parsed(<<>> \o rest) = none
    BY <2>3, <2>4, <2>5, NothingBefore, FreePlotsNothing DEF Parsed
  <2>7. <<>> \o <<>> = <<>>
    OBVIOUS
  <2> QED
    <3>1. none.plotted = <<>> /\ none.left = <<>>
      OBVIOUS
    <3> HIDE DEF none
    <3>2. /\ Parsed(b).plotted = <<>> /\ Parsed(b).left = <<>>
          /\ Parsed(<<>> \o rest).plotted = <<>> /\ Parsed(<<>> \o rest).left = <<>>
          /\ Parsed(whole).plotted = <<>>
      BY <1>3, <2>6, <3>1
    <3> QED
      BY <2>7, <3>2, Zenon DEF Completes, b, rest
<1>8. whole = Encoded(protocol, sent) /\ protocol # "JustFloat" /\ Parsed(whole).left = <<>>
  BY <1>3 DEF whole
<1> QED
  BY <1>4, <1>6, <1>7, <1>8, PlotsWhen

\* Clear messages are plotted.
LEMMA MessagesPlotted ==
    ASSUME ChannelInvariant, StreamTypes, protocol = "frames", buffer = <<>>,
           NEW sent \in Sent("frames"), Clear(sent)
    PROVE  Plots(sent, PointsOf(sent))
<1>1. CASE NoHeaderIn(Encoded("frames", sent))
  BY <1>1, FreePlotted
<1>2. CASE /\ \A i \in 1 .. Len(sent) : sent[i] = LongMessage
           /\ \E u : TakenBy(LongMessage) = {u} /\ OnlyRule(rules, u)
  <2>1. PICK u : TakenBy(LongMessage) = {u} /\ OnlyRule(rules, u)
    BY <1>2
  <2> QED
    BY <1>2, <2>1, LongPlotted
<1> QED
  BY <1>1, <1>2, ClearIs

\* What the values of a list add to the curves.
LEMMA ListAdded ==
    ASSUME protocol \in Protocols, NEW sent \in Sent(protocol), NEW whole,
           Parsed(buffer \o whole).plotted = Plotted(protocol, Len(sent))
    PROVE  Points(whole) = addData([i \in DOMAIN sent |-> Point(i - 1, sent[i], NoScript)])
<1> DEFINE n == Len(sent)
           pairs == Parsed(buffer \o whole).plotted
           added == [i \in DOMAIN pairs |-> Point(pairs[i][1], pairs[i][2], NoScript)]
           wanted == [i \in DOMAIN sent |-> Point(i - 1, sent[i], NoScript)]
<1>1. DOMAIN sent = 1 .. n /\ \A i \in 1 .. n : sent[i] = Number(protocol)
  BY ListsAre DEF Protocols
<1>2. protocol # "frames"
  BY DEF Protocols
<1>3. Points(whole) = addData(added)
  BY <1>2 DEF Points
<1>4. pairs = [i \in 1 .. n |-> <<i - 1, Number(protocol)>>]
  BY DEF Plotted
<1> HIDE DEF n, pairs
<1>5. /\ DOMAIN pairs = 1 .. n
      /\ \A i \in 1 .. n : pairs[i][1] = i - 1 /\ pairs[i][2] = Number(protocol)
  BY <1>4
<1>6. added = wanted
  BY <1>1, <1>5
<1> HIDE DEF added, wanted
<1> QED
  BY <1>3, <1>6 DEF wanted

\* Lists of values are plotted in order, in one read or in two.
LEMMA ListsPlotted ==
    ASSUME protocol \in Protocols, buffer = <<>>, NEW sent \in Sent(protocol),
           protocol = "JustFloat" => channelIndex = 0
    PROVE  Plots(sent, addData([i \in DOMAIN sent |-> Point(i - 1, sent[i], NoScript)]))
<1> DEFINE n == Len(sent)
           whole == Encoded(protocol, sent)
           points == addData([i \in DOMAIN sent |-> Point(i - 1, sent[i], NoScript)])
<1>1. ASSUME Parsed(whole).plotted = Plotted(protocol, n), whole \in Seq(Nat)
      PROVE  Points(whole) = points
  <2>1. buffer \o whole = whole
    BY <1>1, NothingBefore
  <2>2. Parsed(buffer \o whole).plotted = Plotted(protocol, Len(sent))
    BY <1>1, <2>1
  <2> HIDE DEF whole
  <2> QED
    BY <2>2, ListAdded
<1>2. CASE protocol = "RawData"
  <2>1. sent \in Sent("RawData") /\ whole = Encoded("RawData", sent)
    BY <1>2
  <2>2. whole \in Seq(Nat) /\ Parsed(whole).plotted = Plotted(protocol, n)
        /\ Parsed(whole).left = <<>>
    BY <1>2, <2>1, RawDataParsed DEF Parsed
  <2>3. Splits(sent) = {}
    BY <1>2 DEF Splits
  <2> HIDE DEF whole, points
  <2>4. Points(whole) = points
    BY <1>1, <2>2
  <2>5. whole = Encoded(protocol, sent) /\ protocol # "JustFloat"
    BY <1>2 DEF whole
  <2>6. Plots(sent, points)
    BY <2>2, <2>3, <2>4, <2>5, PlotsWhen
  <2> QED
    BY <2>6 DEF points
<1>3. CASE protocol = "FireWater"
  <2>1. sent \in Sent("FireWater") /\ whole = Encoded("FireWater", sent)
    BY <1>3
  <2> HIDE DEF whole, points
  <2>2. /\ whole \in Seq(Nat)
        /\ parseFireWaterProtocol(whole).plotted = Plotted("FireWater", n)
        /\ parseFireWaterProtocol(whole).left = <<>>
        /\ \A k \in 1 .. Len(whole) - 1 :
              parseFireWaterProtocol(SubSeq(whole, 1, k))
                  = [plotted |-> <<>>, left |-> SubSeq(whole, 1, k)]
    BY <2>1, PacketParsed
  <2>3. \A b : Parsed(b) = parseFireWaterProtocol(b)
    BY <1>3 DEF Parsed
  <2>4. Points(whole) = points
    BY <1>1, <1>3, <2>2, <2>3
  <2>5. ASSUME NEW k \in Splits(sent) PROVE Completes(whole, k)
    <3> DEFINE first == Parsed(SubSeq(whole, 1, k))
    <3>1. k \in 1 .. Len(whole) - 1
      BY DEF Splits, whole
    <3>2. first = [plotted |-> <<>>, left |-> SubSeq(whole, 1, k)]
      BY <2>2, <2>3, <3>1, Zenon
    <3>3. SubSeq(whole, 1, k) \o Rest(whole, k + 1) = whole
      <4>1. k \in 1 .. Len(whole)
        BY <2>2, <3>1, LenProperties
      <4> QED
        BY <2>2, <4>1, PrefixIs
    <3> HIDE DEF first
    <3>4. first.plotted = <<>> /\ first.left \o Rest(whole, k + 1) = whole
      BY <3>2, <3>3
    <3>5. <<>> \o Plotted("FireWater", n) = Plotted("FireWater", n)
      <4>1. n \in Nat
        BY <2>1, ListsAre
      <4> DEFINE s == Plotted("FireWater", n)
                 A == {<<i - 1, Number("FireWater")>> : i \in 1 .. n}
      <4>2. s \in [1 .. n -> A]
        BY DEF Plotted
      <4> HIDE DEF s, A, n
      <4>3. s \in Seq(A)
        BY <4>1, <4>2, FunctionIsSequence
      <4>4. <<>> \o s = s
        BY <4>3, NothingBefore
      <4> QED
        BY <4>4 DEF s
    <3>6. first.plotted \o Parsed(whole).plotted = Parsed(whole).plotted
          /\ Parsed(whole).left = <<>>
      BY <2>2, <2>3, <3>4, <3>5
    <3>7. Parsed(first.left \o Rest(whole, k + 1)) = Parsed(whole)
      BY <3>4
    <3> QED
      BY <3>6, <3>7 DEF first, Completes
  <2>6. whole = Encoded(protocol, sent) /\ protocol # "JustFloat" /\ Parsed(whole).left = <<>>
    BY <1>3, <2>2, <2>3 DEF whole
  <2>7. Plots(sent, points)
    BY <2>4, <2>5, <2>6, PlotsWhen
  <2> QED
    BY <2>7 DEF points
<1>4. CASE protocol = "JustFloat"
  <2>1. sent \in Sent("JustFloat") /\ whole = Encoded("JustFloat", sent) /\ channelIndex = 0
    BY <1>4
  <2>2. \A b : Parsed(b) = parseJustFloatProtocol(b, 0)
    BY <1>4, <2>1 DEF Parsed
  <2>3. whole \in Seq(Nat) /\ Parsed(whole).plotted = Plotted("JustFloat", n)
        /\ Parsed(whole).left = <<>>
    BY <2>1, <2>2, FloatsPlotted
  <2>4. Points(whole) = points
    <3> HIDE DEF whole, points
    <3> QED
      BY <1>1, <1>4, <2>3
  <2>5. ASSUME NEW k \in Splits(sent)
        PROVE  LET first == Parsed(SubSeq(whole, 1, k))
                   second == parseJustFloatProtocol(first.left \o Rest(whole, k + 1), first.next)
               IN  /\ first.plotted \o second.plotted = Parsed(whole).plotted
                   /\ second.left = <<>>
    <3>1. k \in 1 .. Len(Encoded("JustFloat", sent)) - 1
      BY <1>4 DEF Splits
    <3> QED
      BY <2>1, <2>2, <2>3, <3>1, FloatsTorn
  <2>6. Plots(sent, points)
    BY <1>4, <2>3, <2>4, <2>5 DEF Plots
  <2> QED
    BY <2>6 DEF points
<1> QED
  BY <1>2, <1>3, <1>4 DEF Protocols

\* All that may be sent is plotted.
LEMMA SentIsPlottedHere ==
    ASSUME ChannelInvariant, StreamTypes
    PROVE  TransmissionsArePlotted
<1> SUFFICES ASSUME buffer = <<>>, NEW sent \in Sent(protocol)
             PROVE  IF protocol = "frames" THEN Clear(sent) => Plots(sent, PointsOf(sent))
                    ELSE (protocol = "JustFloat" => channelIndex = 0) =>
                            Plots(sent, addData([i \in DOMAIN sent |->
                                                    Point(i - 1, sent[i], NoScript)]))
  BY DEF TransmissionsArePlotted
<1>1. CASE protocol = "frames"
  BY <1>1, MessagesPlotted
<1>2. CASE protocol # "frames"
  <2>1. protocol \in Protocols
    BY <1>2 DEF StreamTypes, Protocols, Uninitialised
  <2> QED
    BY <1>2, <2>1, ListsPlotted
<1> QED
  BY <1>1, <1>2

\* What is sent is bytes, for each way of sending.
LEMMA SentTyped ==
    ASSUME StreamTypes, NEW sent \in Sent(protocol)
    PROVE  Encoded(protocol, sent) \in Seq(Nat)
<1>1. protocol \in {"RawData", "JustFloat", "FireWater", "frames"}
  BY DEF StreamTypes, Protocols, Uninitialised
<1> QED
  BY <1>1, FramesFollow, RawDataParsed, PacketParsed, FloatsPlotted

\* A script that a dialog has left is one of the scripts.
LEMMA ScriptsTyped ==
    ASSUME StreamTypes, NEW number \in Numbers, NEW settings \in Forms
    PROVE  /\ DOMAIN StoredScript(number, settings.script) \subseteq Numbers
           /\ \A n \in DOMAIN StoredScript(number, settings.script) :
                 StoredScript(number, settings.script)[n] \in Scripts \cup {NoScript}
<1>1. settings.script \in Scripts \cup {NoScript}
  BY FormsAssumption DEF Settings
<1> QED
  BY <1>1 DEF StoredScript, With, StreamTypes

\* The scripts of a restored window have numbers it may give.
LEMMA ScriptsRestoredTyped ==
    ASSUME ChannelInvariant, StreamTypes
    PROVE  /\ DOMAIN RestoredScripts \subseteq Numbers
           /\ \A n \in DOMAIN RestoredScripts : RestoredScripts[n] \in Scripts \cup {NoScript}
           /\ Cardinality(DOMAIN channels) \in Numbers
<1> DEFINE own == {u \in DOMAIN channels : channels[u].settings.script # NoScript}
           fromDialog(n) ==
               channels[CHOOSE u \in own : Renumbered(u) = n].settings.script
<1>1. /\ Cardinality(DOMAIN channels) \in Nat
      /\ \A u \in DOMAIN channels :
            Renumbered(u) \in Nat /\ Renumbered(u) < Cardinality(DOMAIN channels)
  BY RenumberedApart DEF ChannelInvariant
<1>2. Cardinality(DOMAIN channels) <= Cardinality(Uuids)
  BY UuidsAssumption, FS_Subset DEF ChannelInvariant, ChannelTypes
<1>3. Cardinality(DOMAIN channels) \in Numbers /\ \A u \in own : Renumbered(u) \in Numbers
  BY <1>1, <1>2, NumbersAre
<1>4. \A u \in own : channels[u].settings.script \in Scripts
  BY DEF ChannelInvariant, ChannelTypes, Settings
<1>5. RestoredScripts = [n \in DOMAIN scripts \cup {Renumbered(u) : u \in own} |->
                            IF n \in DOMAIN scripts THEN scripts[n] ELSE fromDialog(n)]
  BY DEF RestoredScripts
<1>6. \A n \in {Renumbered(u) : u \in own} :
          \E u \in own : fromDialog(n) = channels[u].settings.script
  OBVIOUS
<1> HIDE DEF own, fromDialog
<1> QED
  BY <1>3, <1>4, <1>5, <1>6 DEF StreamTypes

\* No step takes a number, a byte or a script that is none.
LEMMA StreamTypesStep ==
    ASSUME ChannelInvariant, StreamTypes, [Next]_vars
    PROVE  StreamTypes'
<1> USE DEF StreamTypes
<1>0. Numbers' = Numbers /\ NoScript' = NoScript
  OBVIOUS
<1>1. CASE addAction
  <2>1. PICK uuid \in Uuids, settings \in Forms : addChannel(uuid, settings)
    BY <1>1 DEF addAction
  <2>2. /\ channelNums < MaxAdded /\ channelNums' = channelNums + 1
        /\ scripts' = StoredScript(channelNums, settings.script)
        /\ UNCHANGED <<stream, coming, renumbered>>
    BY <1>1, <2>1 DEF addAction, addChannel
  <2>3. channelNums \in Nat /\ channelNums' \in Numbers
    BY <2>2, NumbersAre
  <2>4. /\ DOMAIN scripts' \subseteq Numbers
        /\ \A n \in DOMAIN scripts' : scripts'[n] \in Scripts \cup {NoScript}
    BY <2>2, ScriptsTyped
  <2> QED
    BY <2>2, <2>3, <2>4 DEF stream
<1>2. CASE HandleDialogData
  <2>1. PICK uuid \in DOMAIN channels, settings \in Forms :
            scripts' = StoredScript(channels[uuid].number, settings.script)
    BY <1>2 DEF HandleDialogData
  <2>2. /\ DOMAIN scripts' \subseteq Numbers
        /\ \A n \in DOMAIN scripts' : scripts'[n] \in Scripts \cup {NoScript}
    <3>1. channels[uuid].number \in Numbers
      BY ChannelsInRange
    <3> QED
      BY <2>1, <3>1, ScriptsTyped
  <2> QED
    BY <1>2, <2>2 DEF HandleDialogData, stream
<1>3. CASE deleteAction
  <2>1. PICK uuid \in DOMAIN channels : scripts' = Without(scripts, channels[uuid].number)
    BY <1>3 DEF deleteAction
  <2> QED
    BY <1>3, <2>1 DEF deleteAction, stream, Without
<1>4. CASE toggled
  BY <1>4 DEF toggled, stream
<1>5. CASE Restore
  <2>1. /\ scripts' = RestoredScripts /\ channelNums' = Cardinality(DOMAIN channels)
        /\ protocol' \in Uninitialised \cup {chosen} /\ buffer' = <<>>
        /\ UNCHANGED <<chosen, channelIndex, coming>>
    BY <1>5 DEF Restore
  <2>2. renumbered' \in BOOLEAN
    BY <1>5 DEF Restore
  <2>3. buffer' \in Seq(Nat)
    BY <2>1, EmptySeq
  <2> QED
    BY <2>1, <2>2, <2>3, ScriptsRestoredTyped
<1>6. CASE protocolTypeChanged
  BY <1>6 DEF protocolTypeChanged, table
<1>7. CASE OtherWindow
  <2>1. channelIndex' = (channelIndex + 1) % MaxChannels
    BY <1>7 DEF OtherWindow
  <2>2. channelIndex' \in 0 .. MaxChannels - 1
    BY <2>1, ChannelsAssumption
  <2> QED
    BY <1>7, <2>2 DEF OtherWindow, table
<1>8. CASE Transmission
  <2>1. PICK sent \in Sent(protocol) :
            \E k \in DOMAIN Encoded(protocol, sent) :
                /\ dataReceived(SubSeq(Encoded(protocol, sent), 1, k))
                /\ coming' = Rest(Encoded(protocol, sent), k + 1)
    BY <1>8 DEF Transmission
  <2> DEFINE whole == Encoded(protocol, sent)
  <2>2. whole \in Seq(Nat)
    BY SentTyped
  <2> HIDE DEF whole
  <2>3. PICK k \in DOMAIN whole :
            dataReceived(SubSeq(whole, 1, k)) /\ coming' = Rest(whole, k + 1)
    BY <2>1 DEF whole
  <2>4. k \in 1 .. Len(whole)
    BY <2>2, LenProperties
  <2>5. SubSeq(whole, 1, k) \in Seq(Nat) /\ Rest(whole, k + 1) \in Seq(Nat)
    BY <2>2, <2>4, PrefixIs
  <2> QED
    BY <2>3, <2>5, ReceivedTyped DEF dataReceived
<1>9. CASE RestArrives
  <2>1. dataReceived(coming) /\ coming' \in Seq(Nat)
    BY <1>9, EmptySeq DEF RestArrives
  <2> QED
    BY <2>1, ReceivedTyped DEF dataReceived
<1>10. CASE UNCHANGED vars
  BY <1>10 DEF vars, table, stream
<1> QED
  BY <1>1, <1>2, <1>3, <1>4, <1>5, <1>6, <1>7, <1>8, <1>9, <1>10 DEF Next

\* Every window begins with none.
LEMMA StreamTypesAlways == Spec => []StreamTypes
<1>1. Init => StreamTypes
  <2> SUFFICES ASSUME Init PROVE StreamTypes
    OBVIOUS
  <2>1. 0 \in Numbers /\ 0 \in 0 .. MaxChannels - 1
    BY NumbersAre, ChannelsAssumption
  <2>2. <<>> \in Seq(Nat) /\ DOMAIN scripts = {}
    BY EmptySeq DEF Init
  <2> QED
    BY <2>1, <2>2 DEF Init, StreamTypes, Protocols
<1> QED
  BY <1>1, ChannelInvariantAlways, StreamTypesStep, PTL DEF Spec

\* What the tables hold then.
LEMMA ChannelTypesShow ==
    ASSUME ChannelInvariant, StreamTypes
    PROVE  TypeOK
<1>1. \A u \in DOMAIN channels : channels[u] \in [number : Nat, settings : Settings]
  BY DEF ChannelInvariant, ChannelTypes
<1>2. \A u \in DOMAIN channels : channels[u] \in [number : Numbers, settings : Settings]
  BY <1>1, ChannelsInRange
<1> QED
  BY <1>2, ChannelsInRange DEF ChannelInvariant, ChannelTypes, StreamTypes, TypeOK

-----------------------------------------------------------------------------
(* What the contents of a window promise *)

\* However rows are scrolled, added and deleted, and views resized, the controls in the
\* cells of a row are bound to it and show its data, a row on the screen has some, what
\* counts as saved is what is stored, and no row can be changed while the connection is
\* open (TtTableWidget: BindRows, UnBindRows, SetupVisibleRows, SetEnabled).
THEOREM RowsShowTheirDataAlways == ContentsSpec => []RowsShowTheirData
<1>1. RowInvariant => RowsShowTheirData
  BY RowInvariantShows DEF RowsShowTheirData
<1> QED
  BY <1>1, KindsApart, RowInvariantAlways, PTL

\* Only the user changes a row: controls that go back to their pools change none
\* (TtTableWidget::UnBindRows disconnects them before it resets them).
THEOREM RowsChangeUnderTheUserAlways == ContentsSpec => RowsChangeUnderTheUser
<1>1. RowInvariant /\ [Instructions!Next]_Instructions!vars =>
          [(/\ model_' # model_ /\ Len(model_') = Len(model_)
            /\ model_' # Instructions!RowsOf(stored)) =>
              \E r \in DOMAIN model_ \cup {0} :
                  /\ \A i \in DOMAIN model_ \ {r} : model_'[i] = model_[i]
                  /\ (r # 0 /\ model_'[r] # model_[r])
                         => Instructions!OnScreen(r) /\ Instructions!Usable(r)]_Instructions!vars
  BY RowsChangeStep
<1> QED
  BY <1>1, KindsApart, RowInvariantAlways, PTL
     DEF Instructions!Spec, RowsChangeUnderTheUser, Instructions!RowsChangeUnderTheUser

\* Through any messages, formats, pages and clearing, every line of every message since the
\* last clearing is on the terminal, once and in its place, in the colour of its direction,
\* and the counters have them all (FrameWindow::showMessage,
\* TtTerminalHighlighter::highlightBlock).
THEOREM TerminalTellsTheTruthAlways == ContentsSpec => []TerminalTellsTheTruth
<1>1. TerminalInvariant => TerminalTellsTheTruth
  BY DEF TerminalInvariant, TerminalTellsTheTruth
<1> QED
  BY <1>1, KindsApart, TerminalInvariantAlways, PTL

\* As long as the mouse leaves out no row, what it was dragged over is what is marked and
\* copied; and a message has the size its lines need in the view as it is
\* (TtChatView: updateSelections, commitSelections; TtChatMessageDelegate::sizeHint).
THEOREM DraggedTextIsTakenAlways == ContentsSpec => []DraggedTextIsTaken
<1>1. ChatInvariant /\ Sizing!SizesFit => DraggedTextIsTaken
  BY ChatInvariantShows DEF DraggedTextIsTaken
<1> QED
  BY <1>1, KindsApart, ChatInvariantAlways, SizesAlwaysFit, PTL

\* Through any adding, editing, deleting and restoring, each channel of a serial window has
\* a curve of its own and its rule plots to it, and its frames and its values are treated as
\* its dialog was left (SerialWindow::addChannel, HandleDialogData, saveSetting, setSetting).
THEOREM CurvesAreOfTheChannelsAlways == ContentsSpec => []CurvesAreOfTheChannels
<1>1. ChannelInvariant => CurvesAreOfTheChannels
  BY ChannelInvariantShows DEF CurvesAreOfTheChannels
<1> QED
  BY <1>1, KindsApart, ChannelInvariantAlways, PTL

\* Whatever the channels have become, what a device sends while nothing waits in the buffer
\* is plotted, in one read or in two: a message that cannot be mistaken on the channel of its
\* rule, with the script of that channel, a list of values on the channels in order; and the
\* tables a read looks into have the form they should (SerialWindow: dataReceived,
\* parseBuffer, parseRawDataProtocol, parseJustFloatProtocol, parseFireWaterProtocol).
THEOREM SentIsPlottedAlways == ContentsSpec => []SentIsPlotted
<1>1. ChannelInvariant /\ StreamTypes => SentIsPlotted
  BY ChannelTypesShow, SentIsPlottedHere DEF SentIsPlotted
<1> QED
  BY <1>1, KindsApart, ChannelInvariantAlways, StreamTypesAlways, PTL
=============================================================================
