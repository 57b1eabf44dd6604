----------------------------- MODULE ScreenWidgets -----------------------------
(***************************************************************************)
(* Widgets of the windows, none of which knows of the others: the message  *)
(* bars, the dialogs that ask a question, the plot of a serial window and  *)
(* that of a Modbus window, the entry and the dialogs of a channel, and    *)
(* the dialogs of an MQTT window.  A behaviour here is one of one kind.    *)
(***************************************************************************)
EXTENDS MessageBars

CONSTANTS Channels, Points, MaxSamples,
          Sizes, Languages, SerialWindows, Directories, DataDirectory, MaxAnswers,
          Rows, Addresses, Capacities, Capacity, MaxReplies, MaxAsked,
          Names, Scripts, Colors, Nothing,
          Topics, MaxConfirmed, MaxLater, MaxProperties

ASSUME PlotAssumption == {Channels, MaxSamples} \subseteq Nat /\ Points \in Nat \ {0}

ASSUME ModbusPlotAssumption ==
    /\ Addresses \subseteq Nat /\ Capacities \subseteq Nat /\ Capacity \in Nat \ {0}
    /\ {MaxReplies, MaxAsked} \subseteq Nat

ASSUME DialogsAssumption ==
    /\ MaxAnswers \in Nat /\ {"zh", "en"} \subseteq Languages
    /\ Sizes \subseteq Nat \ {0} /\ SerialWindows # {}
    /\ "unset" \notin Directories \cup {DataDirectory}

ASSUME MqttAssumption ==
    "" \notin Topics /\ {MaxConfirmed, MaxLater, MaxProperties} \subseteq Nat

VARIABLES
    kind,  \* the kind of widget
    added, curves, timeData, valueData, tracer, visible, samples,
    size, question, dialog, shadow, compiling, processedCount, menu, language, running,
    SaveDirectory, save, files, message, last, answers,
    opened, address, graph, asked, m_curves, times, values, m_startTime, points_nums_,
    replies, since, joined,
    channel_info_, script_code, enable, button, rename_editor_, original_text_,
    channelDialog, box, held, before, accepted, displayed, began,
    windowSize, masked, maskSize, childSize, fade_animation_, hides, child_widget_,
    created, dialogs, parent, originalParent, saves, later, queued,
    topic, error, subscribed, confirmed, propertyRows_, made, trashed

plotVars == <<added, curves, timeData, valueData, tracer, visible, samples>>
dialogVars == <<size, question, dialog, shadow, compiling, processedCount, menu, language,
                running, SaveDirectory, save, files, message, last, answers>>

modbusVars == <<opened, address, graph, asked, m_curves, times, values, m_startTime,
                points_nums_, replies, since, joined>>

channelVars == <<channel_info_, script_code, enable, button, rename_editor_, original_text_,
                 channelDialog, box, held, before, accepted, displayed, began>>

mqttVars == <<windowSize, masked, maskSize, childSize, fade_animation_, hides, child_widget_,
              created, dialogs, parent, originalParent, saves, later, queued,
              topic, error, subscribed, confirmed, propertyRows_, made, trashed>>

Plot == INSTANCE SerialPlot
Modbus == INSTANCE ModbusPlot WITH timeData <- times, valueData <- values
Dialog == INSTANCE Dialogs WITH Windows <- SerialWindows
Channel == INSTANCE ChannelDialogs WITH dialog <- channelDialog
Mqtt == INSTANCE MqttDialogs WITH size <- windowSize, visible <- dialogs

ASSUME ChannelAssumption ==
    Nothing \notin Channel!Titles \cup Channel!Codes \cup Channel!Infos \cup {"left", "right"}

WidgetInit ==
    /\ kind \in {"bars", "serial plot", "Modbus plot", "dialogs", "channel", "MQTT"}
    /\ Init /\ Plot!Init /\ Modbus!Init /\ Dialog!Init /\ Channel!Init /\ Mqtt!Init
    /\ kind # "dialogs" => size = CHOOSE s \in Sizes : TRUE
    /\ kind # "dialogs" => language = "zh"
    /\ kind # "MQTT" => windowSize = CHOOSE s \in Sizes : TRUE

BarStep ==
    /\ kind = "bars" /\ Next
    /\ UNCHANGED <<kind, plotVars, modbusVars, dialogVars, channelVars, mqttVars>>

PlotStep ==
    /\ kind = "serial plot" /\ Plot!Next
    /\ UNCHANGED <<kind, vars, modbusVars, dialogVars, channelVars, mqttVars>>

ModbusStep ==
    /\ kind = "Modbus plot" /\ Modbus!Next
    /\ UNCHANGED <<kind, vars, plotVars, dialogVars, channelVars, mqttVars>>

DialogStep ==
    /\ kind = "dialogs" /\ Dialog!Next
    /\ UNCHANGED <<kind, vars, plotVars, modbusVars, channelVars, mqttVars>>

ChannelStep ==
    /\ kind = "channel" /\ Channel!Next
    /\ UNCHANGED <<kind, vars, plotVars, modbusVars, dialogVars, mqttVars>>

MqttStep ==
    /\ kind = "MQTT" /\ Mqtt!Next
    /\ UNCHANGED <<kind, vars, plotVars, modbusVars, dialogVars, channelVars>>

WidgetNext == BarStep \/ PlotStep \/ ModbusStep \/ DialogStep \/ ChannelStep \/ MqttStep

widgetVars == <<kind, vars, plotVars, modbusVars, dialogVars, channelVars, mqttVars>>

\* What is fair for the bars; nothing of theirs is enabled among other widgets.
WidgetSpec ==
    /\ WidgetInit
    /\ [][WidgetNext]_widgetVars
    /\ Fairness

-----------------------------------------------------------------------------
(* The properties of the kinds, each explained in its module *)

\* SerialPlot, ModbusPlot: what the plots hold is what was received.  A recording has
\* each value at its time, the tracer is on a curve that is there, at its nearest
\* point, and a curve of a Modbus window has the latest values of its address.
PlotsAreTrue ==
    /\ kind = "serial plot" => Plot!RecordingIsTrue /\ Plot!TracerFindsTheNearest
    /\ kind = "Modbus plot" => Modbus!CurvesKeepTheLatest

\* Dialogs, ChannelDialogs, MqttDialogs: what is done is what was answered.  A
\* recording is where the dialog said it would be; a channel has the script that
\* was shown when its dialog was accepted; a mask over an MQTT window has the
\* dialog on it that was asked for, and each confirmation subscribes once.
AnswersAreTaken ==
    /\ kind = "dialogs" => Dialog!AnswersAreTaken /\ Dialog!FilesAreWhereTheRowsSay
    /\ kind = "channel" => Channel!ChannelsAsAccepted
    /\ kind = "MQTT" => Mqtt!DialogsAreShownAndTaken
=============================================================================
