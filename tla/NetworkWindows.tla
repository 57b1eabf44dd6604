----------------------------- MODULE NetworkWindows -----------------------------
(***************************************************************************)
(* One of the windows for a network link, of the kind the user chose: a    *)
(* TCP client or server (window/tcp_window.cpp, by role_), a UDP link      *)
(* (window/udp_window.cpp) or an MQTT session (window/mqtt_window.cpp).    *)
(* The windows of a user do not share state: each works as if alone.       *)
(***************************************************************************)
EXTENDS TcpLink

CONSTANTS Clients, MaxThreads, MaxStarts, MaxCalls, Peers, MaxClicks, Topics, MaxRows, MaxChat

ASSUME KindsAssumption ==
    {MaxThreads, MaxStarts, MaxCalls, MaxClicks, MaxRows, MaxChat} \subseteq Nat \ {0}

VARIABLES
    kind,  \* the kind of the window
    serverOpened, starts, listening, gui, stopping, waitsFor, client_sockets_,
    waiting, task, clientSocket, toPool, serverToGui, serverCrashed, hungUp, late,
    role, udpOpened, udpControls, udpTicking, beating, udpQueue, udpPackaged,
    marked, clicks, bound, known_clients_, ended,
    mqttOpened, mqttChecked, state, dialog, rows, subscribed, chat, refused, deleted

serverVars == <<serverOpened, starts, listening, gui, stopping, waitsFor, client_sockets_,
                waiting, task, clientSocket, toPool, serverToGui, serverCrashed, hungUp, late>>
udpVars == <<role, udpOpened, udpControls, udpTicking, beating, udpQueue, udpPackaged,
             marked, clicks, bound, known_clients_, ended>>
mqttVars == <<mqttOpened, mqttChecked, state, dialog, rows, subscribed, chat, refused, deleted>>

Server == INSTANCE TcpServerPool
    WITH opened <- serverOpened, socket <- clientSocket, toGui <- serverToGui,
         crashed <- serverCrashed

Udp == INSTANCE UdpLink
    WITH opened <- udpOpened, controls <- udpControls, ticking <- udpTicking,
         queue <- udpQueue, packaged <- udpPackaged

Mqtt == INSTANCE MqttLink
    WITH opened <- mqttOpened, checked <- mqttChecked

AnyInit ==
    /\ kind \in {"TcpClient", "TcpServer", "Udp", "Mqtt"}
    /\ Init /\ Server!Init /\ Udp!Init /\ Mqtt!Init
    /\ kind # "TcpClient" => packaged
    /\ kind # "Udp" => role = "Client" /\ udpPackaged

ClientStep ==
    /\ kind = "TcpClient" /\ Next
    /\ UNCHANGED <<kind, serverVars, udpVars, mqttVars>>

ServerStep ==
    /\ kind = "TcpServer" /\ Server!Next
    /\ UNCHANGED <<kind, vars, udpVars, mqttVars>>

UdpStep ==
    /\ kind = "Udp" /\ Udp!Next
    /\ UNCHANGED <<kind, vars, serverVars, mqttVars>>

MqttStep ==
    /\ kind = "Mqtt" /\ Mqtt!Next
    /\ UNCHANGED <<kind, vars, serverVars, udpVars>>

AnyNext == ClientStep \/ ServerStep \/ UdpStep \/ MqttStep

\* What is fair for each kind; nothing of the other kinds is ever enabled.
AnySpec ==
    /\ AnyInit
    /\ [][AnyNext]_<<kind, vars, serverVars, udpVars, mqttVars>>
    /\ Fairness /\ Server!Fairness

-----------------------------------------------------------------------------
(* The properties of the kinds, each stated and explained in its module *)

\* TcpServerPool: a stopped server serves nobody, and a message is not sent to a
\* socket that was deleted.
StoppedServesNobody == Server!StoppedServesNobody /\ Server!SendsFindTheirSockets

\* A closed connection lets go of its thread, of the client (TcpLink) as of the
\* pool of a server (TcpServerPool).
ThreadsComeFree == ClosingEnds /\ Server!ThreadsComeFree

\* TcpLink: at rest the window shows whether there is a connection; UdpLink: the
\* window, its timer and its entry show what became of the socket; MqttLink: the
\* button shows the connection, and the list what is heard.
WindowsShowTheLink ==
    RestShowsTheTruth /\ Udp!WindowShowsTheSocket /\ Mqtt!ButtonShowsTheConnection
=============================================================================
