------------------------------ MODULE SettingPanels ------------------------------
(***************************************************************************)
(* The forms at the right of the session windows (widget/*_setting.cpp),   *)
(* as tables: the fields of each panel, what its constructor watches, what *)
(* it locks while a link is open, what it hands to the link, and the key   *)
(* under which each field is written to a record and read from one.        *)
(*                                                                         *)
(* How a field holds its value decides what comes back from a record:      *)
(*   list    items that carry data; the data is written and looked up      *)
(*   bare    items without data: the text is written and looked up among   *)
(*           the data, where it is never found                             *)
(*   number  (QoS) the text is written and read as a number, which is 0    *)
(*   port    the list of the serial ports plugged in when it was filled    *)
(*   line    a line of text, here as the number it spells; 0 when empty    *)
(*   tick    a box; retain: a box of which isCheckable() is written        *)
(* Lists of one item (retransmission_) are left out.                       *)
(***************************************************************************)
EXTENDS Integers

\* Some fields and further ones.
f ++ g == [x \in DOMAIN f \cup DOMAIN g |-> IF x \in DOMAIN f THEN f[x] ELSE g[x]]

Lines(fields) == [f \in fields |-> "line"]
Lists(fields) == [f \in fields |-> "list"]

Framing == [framing_model_ |-> "bare", framing_timeout_ |-> "line",
            framing_fixed_length_ |-> "line"]
FramingKeys == [framing_model_ |-> "Model", framing_timeout_ |-> "Timeout",
                framing_fixed_length_ |-> "FixedLength"]
Sending == Lines({"send_package_interval_", "send_package_max_size_"})
Heartbeat == [heartbeat_send_type_ |-> "list", heartbeat_interval_ |-> "line",
              heartbeat_content_ |-> "line"]
HeartbeatKeys == [heartbeat_send_type_ |-> "Type", heartbeat_interval_ |-> "Interval",
                  heartbeat_content_ |-> "Content"]

-----------------------------------------------------------------------------
(* SerialSetting *)

SerialPort == Lists({"baud_rate_", "data_bit_", "parity_bit_", "stop_bit_", "flow_control_"})
SerialFields ==
    Framing ++ Sending ++ Heartbeat ++ SerialPort ++
    [protocol_engine_ |-> "list", serial_port_ |-> "port", line_break_ |-> "list"]
SerialWatched == DOMAIN SerialFields
SerialLocked == DOMAIN SerialFields \ {"protocol_engine_"}
SerialConfiguration == {"serial_port_"} \union DOMAIN SerialPort
SerialWritten ==
    FramingKeys ++ HeartbeatKeys ++
    [protocol_engine_ |-> "Protocol", serial_port_ |-> "PortName", baud_rate_ |-> "BaudRate",
     data_bit_ |-> "DataBits", parity_bit_ |-> "ParityBit", stop_bit_ |-> "StopBits",
     flow_control_ |-> "FlowControl", send_package_interval_ |-> "SendPackageInterval",
     send_package_max_size_ |-> "SendPackageMaxSize", line_break_ |-> "LineBreak"]
\* Wrong: the stop bits are read as data bits are.
SerialReadTwice == [SerialWritten EXCEPT !.stop_bit_ = "DataBits"]
SerialRead == SerialWritten

-----------------------------------------------------------------------------
(* TcpClientSetting and TcpServerSetting *)

TcpClientFields ==
    Framing ++ Heartbeat ++ Sending ++
    [target_host_ |-> "list"] ++ Lines({"target_port_", "self_host_", "self_port_"})
TcpClientWatched == DOMAIN TcpClientFields
\* Wrong: the address of this side stays open.
TcpClientLockedLess == DOMAIN TcpClientFields \ {"self_host_"}
TcpClientLocked == DOMAIN TcpClientFields
TcpClientConfiguration == {"target_host_", "target_port_", "self_host_", "self_port_"}
TcpClientLink ==
    [target_host_ |-> "TargetHost", target_port_ |-> "TargetPort", self_host_ |-> "SelfHost",
     self_port_ |-> "SelfPort", send_package_max_size_ |-> "SendPackageMaxSize"]
\* The interval is written under one key and read under another.
TcpClientWritten ==
    FramingKeys ++ TcpClientLink ++ [send_package_interval_ |-> "SendPackageInterval"]
TcpClientRead ==
    FramingKeys ++ TcpClientLink ++ [send_package_interval_ |-> "PackageInterval"]

TcpServerFields == Framing ++ [host_ |-> "list", port_ |-> "line"]
TcpServerWatched == DOMAIN TcpServerFields
TcpServerLocked == DOMAIN TcpServerFields
TcpServerConfiguration == {"host_", "port_"}
TcpServerWritten == FramingKeys ++ [host_ |-> "SelfHost", port_ |-> "SelfPort"]
TcpServerRead == TcpServerWritten

-----------------------------------------------------------------------------
(* UdpClientSetting and UdpServerSetting *)

UdpClientFields ==
    Framing ++ Heartbeat ++ Sending ++
    [mode_ |-> "list"] ++ Lines({"target_ip_", "target_port_", "self_ip_", "self_port_"})
UdpClientWatched == DOMAIN UdpClientFields \ {"target_ip_", "self_ip_"}
UdpClientLocked == DOMAIN UdpClientFields \ {"mode_"}
UdpClientConfiguration == {"mode_", "target_ip_", "target_port_", "self_ip_", "self_port_"}
UdpClientWritten ==
    FramingKeys ++ HeartbeatKeys ++
    [mode_ |-> "Mode", target_ip_ |-> "TargetHost", target_port_ |-> "TargetPort",
     self_ip_ |-> "SelfHost", self_port_ |-> "SelfPort",
     send_package_interval_ |-> "SendPacketInterval",
     send_package_max_size_ |-> "SendPackageMaxSize"]
UdpClientRead == UdpClientWritten

UdpServerFields == Framing ++ Lines({"self_ip_", "self_port_"})
UdpServerWatched == DOMAIN UdpServerFields
UdpServerLocked == DOMAIN UdpServerFields
UdpServerConfiguration == {"self_ip_", "self_port_"}
\* The getter returns before it comes to the framing.
UdpServerWritten == [self_ip_ |-> "SelfHost", self_port_ |-> "SelfPort"]
UdpServerRead == FramingKeys ++ UdpServerWritten

-----------------------------------------------------------------------------
(* ModbusClientSetting *)

ModbusSerial ==
    [path_ |-> "port"] ++ Lists({"baud_", "data_bit_", "parity_bit_", "stop_bit_"})
ModbusFields ==
    ModbusSerial ++ [link_type_ |-> "list", auto_refresh_ |-> "tick"] ++
    Lines({"host_", "port_", "device_id_", "timeout_", "refresh_interval_", "graph_capacity_"})
ModbusWatched == DOMAIN ModbusFields \ {"data_bit_", "stop_bit_", "auto_refresh_"}
\* The window disables the whole panel.
ModbusLocked == DOMAIN ModbusFields
ModbusConfiguration == {"link_type_", "device_id_", "host_", "port_"} \union DOMAIN ModbusSerial
ModbusWritten ==
    [link_type_ |-> "LinkType", path_ |-> "Path", baud_ |-> "BaudRate", data_bit_ |-> "DataBit",
     parity_bit_ |-> "ParityBit", stop_bit_ |-> "StopBit", host_ |-> "Host", port_ |-> "Port",
     device_id_ |-> "DeviceId", timeout_ |-> "Timeout", auto_refresh_ |-> "EnableAutoRefresh",
     refresh_interval_ |-> "RefreshInterval"]
\* The capacity is put into an object that nobody keeps.
ModbusRead == ModbusWritten ++ [graph_capacity_ |-> "GraphCapacity"]

-----------------------------------------------------------------------------
(* MqttClientSetting *)

MqttLines == {"link_", "port_", "client_id_", "user_", "password_", "link_timeout_",
              "hold_timeout_", "reconnection_period_"}
MqttFields ==
    Lines(MqttLines \union {"topic_", "load_"}) ++
    [protocol_version_ |-> "list", clear_conversation_ |-> "tick", qos_ |-> "number",
     retain_ |-> "retain"]
MqttWatched == DOMAIN MqttFields
\* Nobody calls setControlState of this panel.
MqttLocked == {}
MqttConfiguration == MqttLines \union {"protocol_version_", "clear_conversation_"}
MqttWritten ==
    [link_ |-> "Link", port_ |-> "Port", client_id_ |-> "ClientId",
     protocol_version_ |-> "Version", user_ |-> "User", password_ |-> "PassWord",
     link_timeout_ |-> "LinkTimeout", hold_timeout_ |-> "HoldTimeout",
     reconnection_period_ |-> "ReconnectionPeriod",
     clear_conversation_ |-> "ClearConversation", topic_ |-> "Topic", load_ |-> "Load",
     qos_ |-> "QoS", retain_ |-> "Retain"]
MqttRead == MqttWritten

-----------------------------------------------------------------------------
(* The frame around a panel (FrameWindow and its windows): the title, and   *)
(* in all but the Modbus and MQTT windows how data is sent and shown.       *)

Title == [title_ |-> "line"]
TitleKey == [title_ |-> "WindowTitle"]
Sheet == Lists({"send_type_", "display_type_"})
SheetKeys == [send_type_ |-> "SendType", display_type_ |-> "DisplayType"]

\* For each field that is read, the field that was written under its key, "" if
\* there is none.
Sources(written, read) ==
    LET Source(f) == {g \in DOMAIN written : written[g] = read[f]}
    IN  [f \in DOMAIN read |-> IF Source(f) = {} THEN "" ELSE CHOOSE g \in Source(f) : TRUE]

Panel(fields, watched, lockable, configuration, written, read) ==
    [fields |-> fields ++ Title, watched |-> watched, locked |-> lockable,
     configuration |-> configuration,
     source |-> [title_ |-> "title_"] ++ Sources(written, read)]

Framed(fields, watched, lockable, configuration, written, read) ==
    Panel(fields ++ Sheet, watched, lockable, configuration, written ++ SheetKeys,
          read ++ SheetKeys)

Panels ==
    [Serial |-> Framed(SerialFields, SerialWatched, SerialLocked, SerialConfiguration,
                       SerialWritten, SerialRead),
     TcpClient |-> Framed(TcpClientFields, TcpClientWatched, TcpClientLocked,
                          TcpClientConfiguration, TcpClientWritten, TcpClientRead),
     TcpServer |-> Framed(TcpServerFields, TcpServerWatched, TcpServerLocked,
                          TcpServerConfiguration, TcpServerWritten, TcpServerRead),
     UdpClient |-> Framed(UdpClientFields, UdpClientWatched, UdpClientLocked,
                          UdpClientConfiguration, UdpClientWritten, UdpClientRead),
     UdpServer |-> Framed(UdpServerFields, UdpServerWatched, UdpServerLocked,
                          UdpServerConfiguration, UdpServerWritten, UdpServerRead),
     Modbus |-> Panel(ModbusFields, ModbusWatched, ModbusLocked, ModbusConfiguration,
                      ModbusWritten, ModbusRead),
     Mqtt |-> Panel(MqttFields, MqttWatched, MqttLocked, MqttConfiguration,
                    MqttWritten, MqttRead)]
=============================================================================
