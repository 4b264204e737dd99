---------------------------- MODULE Connection ----------------------------
(***************************************************************************)
(* One accepted connection from its first packet to the Play phase: the    *)
(* handler thread (handle_connection_protocol and the functions it calls), *)
(* the ProtocolSession it keeps beside its own place in the code, and the  *)
(* client, joined by two FIFO streams.  A handler step reads one packet,   *)
(* makes its session calls and writes its answers; a packet it does not    *)
(* expect, or a session call that fails, ends the connection.              *)
(*                                                                         *)
(* The client either conforms to the protocol, as far as the handler can   *)
(* tell (the sequence a game client sends), or sends any packets at all.   *)
(* Packets are whole.  The Play phase goes on in module PlayLoop.          *)
(***************************************************************************)
EXTENDS Integers, SequencesExt

CONSTANTS
  Configs,          \* server configurations: see ConfigSet
  MaxAuxiliary,     \* MAX_CONFIGURATION_AUXILIARY_PACKETS
  MaxInformation,   \* bound: client informations a conforming client sends
  StrayPackets,     \* what a client that does not conform may send
  Spawn, ChunkOf(_),\* positions and the chunks they are in
  SpawnTeleport     \* STATIC_TELEPORT_ID

ConfigSet ==
  [supported : BOOLEAN,    \* the handshake's protocol is the profile's
   offline : BOOLEAN,      \* offline login is allowed
   configured : BOOLEAN]   \* configuration_enabled

ASSUME ConnectionAssumption ==
  /\ Configs \subseteq ConfigSet
  /\ MaxAuxiliary \in Nat /\ MaxInformation \in Nat
  /\ Spawn \in Int /\ SpawnTeleport \in Nat

VARIABLES
  config,      \* the configuration of this server
  conforms,    \* the client follows the protocol
  step,        \* what the handler waits for
  session,     \* ProtocolSession, or Illegal after a call it refused
  auxiliary,   \* auxiliary_packets of negotiate_known_packs
  outcome,     \* "open", or how the handler ended: "done", "refused", "error"
  client,      \* the client's phase and the informations it has sent
  toServer, toClient

connVars == <<config, conforms, step, session, auxiliary, outcome, client,
              toServer, toClient>>

Packet(kind, n) == [kind |-> kind, n |-> n]
Plain(kind) == Packet(kind, 0)
View(parts) == [kind |-> "View", n |-> 0, parts |-> parts]
Teleport(id, to) == [kind |-> "Teleport", n |-> id, to |-> to]

---------------------------------------------------------------------------
\* ProtocolSession.  A call out of its phase or order is refused.

NoId == 0
NewSession ==
  [phase |-> "Handshake", named |-> FALSE, statusSent |-> FALSE,
   successSent |-> FALSE, finishedSent |-> FALSE, pending |-> NoId]
Illegal == [NewSession EXCEPT !.phase = "Illegal"]
Allow(legal, s) == IF legal THEN s ELSE Illegal

Handshaken(s, phase) == Allow(s.phase = "Handshake", [s EXCEPT !.phase = phase])
StatusResponseSent(s) ==
  Allow(s.phase = "Status" /\ ~s.statusSent, [s EXCEPT !.statusSent = TRUE])
PongSent(s) == Allow(s.phase = "Status" /\ s.statusSent, [s EXCEPT !.phase = "Closed"])
LoginStarted(s) == Allow(s.phase = "Login" /\ ~s.named, [s EXCEPT !.named = TRUE])
LoginSuccessSent(s) ==
  Allow(s.phase = "Login" /\ s.named /\ ~s.successSent, [s EXCEPT !.successSent = TRUE])
LoginAcknowledged(s) ==
  Allow(s.phase = "Login" /\ s.successSent, [s EXCEPT !.phase = "Configuration"])
FinishSent(s) ==
  Allow(s.phase = "Configuration" /\ ~s.finishedSent, [s EXCEPT !.finishedSent = TRUE])
ConfigurationAcknowledged(s) ==
  Allow(s.phase = "Configuration" /\ s.finishedSent, [s EXCEPT !.phase = "Play"])
KeepAliveSent(s, id) ==
  Allow(s.phase = "Play" /\ s.pending = NoId, [s EXCEPT !.pending = id])
KeepAliveAnswered(s) == [s EXCEPT !.pending = NoId]
Closed(s) == [s EXCEPT !.phase = "Closed"]

---------------------------------------------------------------------------
\* The handler.  read_packet drops brand payloads wherever they come.

Incoming == toServer[1]
Reads(s) == step = s /\ toServer # <<>> /\ Incoming.kind # "Brand"
Gets(s, kind) == Reads(s) /\ Incoming.kind = kind
Consumes == toServer' = Tail(toServer)
Sends(packets) == toClient' = toClient \o packets
Ends(how) == step' = "ended" /\ outcome' = how
Goes(s) == step' = s /\ UNCHANGED outcome
Rest == UNCHANGED <<config, conforms, client>>

SkipBrand ==
  /\ step # "ended" /\ toServer # <<>> /\ Incoming.kind = "Brand"
  /\ Consumes
  /\ Rest /\ UNCHANGED <<step, session, auxiliary, outcome, toClient>>

\* A packet other than the one the step waits for.
Expected(s) ==
  CASE s = "handshake" -> {"Handshake"}
    [] s = "status" -> {"StatusRequest"}
    [] s = "ping" -> {"PingRequest"}
    [] s = "loginStart" -> {"LoginStart"}
    [] s = "loginAck" -> {"LoginAcknowledged"}
    [] s = "knownPacks" -> {"KnownPacks", "ClientInformation"}
    [] s = "configAck" -> {"ConfigurationAcknowledged"}

PreplaySteps == {"handshake", "status", "ping", "loginStart", "loginAck",
                 "knownPacks", "configAck"}

Unexpected ==
  /\ step \in PreplaySteps /\ Reads(step)
  /\ Incoming.kind \notin Expected(step)
  /\ Consumes /\ Ends("error")
  /\ Rest /\ UNCHANGED <<session, auxiliary, toClient>>

\* n is the intent: 1 for status, 2 for login.  A login whose protocol the
\* profile does not support is refused before its first packet is read.
ReadHandshake ==
  /\ Gets("handshake", "Handshake") /\ Consumes
  /\ \/ /\ Incoming.n = 1
        /\ session' = Handshaken(session, "Status") /\ Goes("status")
        /\ UNCHANGED toClient
     \/ /\ Incoming.n = 2 /\ config.supported
        /\ session' = Handshaken(session, "Login") /\ Goes("loginStart")
        /\ UNCHANGED toClient
     \/ /\ Incoming.n = 2 /\ ~config.supported
        /\ session' = Closed(Handshaken(session, "Login"))
        /\ Sends(<<Plain("LoginDisconnect")>>) /\ Ends("refused")
     \/ /\ Incoming.n \notin {1, 2}
        /\ Ends("error") /\ UNCHANGED <<session, toClient>>
  /\ Rest /\ UNCHANGED auxiliary

AnswerStatus ==
  /\ Gets("status", "StatusRequest") /\ Consumes
  /\ Sends(<<Plain("StatusResponse")>>)
  /\ session' = StatusResponseSent(session) /\ Goes("ping")
  /\ Rest /\ UNCHANGED auxiliary

AnswerPing ==
  /\ Gets("ping", "PingRequest") /\ Consumes
  /\ Sends(<<Plain("Pong")>>)
  /\ session' = PongSent(session) /\ Ends("done")
  /\ Rest /\ UNCHANGED auxiliary

\* n is 0 for a name that validate_username refuses.
\* Mutant: the session is not told that the answer is on its way.
ForgetSuccessSent ==
  /\ Gets("loginStart", "LoginStart") /\ Consumes /\ Incoming.n = 1
  /\ Sends(<<Plain("LoginSuccess")>>)
  /\ session' = LoginStarted(session) /\ Goes("loginAck")
  /\ Rest /\ UNCHANGED auxiliary
ReadLoginStart ==
  /\ Gets("loginStart", "LoginStart") /\ Consumes
  /\ IF Incoming.n = 0
       THEN Ends("error") /\ UNCHANGED <<session, toClient>>
       ELSE LET started == LoginStarted(session) IN
            IF config.offline
              THEN /\ Sends(<<Plain("LoginSuccess")>>)
                   /\ session' = LoginSuccessSent(started)
                   /\ IF config.configured THEN Goes("loginAck") ELSE Ends("done")
              ELSE /\ Sends(<<Plain("LoginDisconnect")>>)
                   /\ session' = Closed(started) /\ Ends("refused")
  /\ Rest /\ UNCHANGED auxiliary

ReadLoginAcknowledged ==
  /\ Gets("loginAck", "LoginAcknowledged") /\ Consumes
  /\ session' = LoginAcknowledged(session)
  /\ Sends(<<Plain("SelectKnownPacks")>>) /\ Goes("knownPacks")
  /\ Rest /\ UNCHANGED auxiliary

ReadAuxiliary ==
  /\ Gets("knownPacks", "ClientInformation") /\ Consumes
  /\ auxiliary' = auxiliary + 1
  /\ IF auxiliary' > MaxAuxiliary THEN Ends("error") ELSE Goes("knownPacks")
  /\ Rest /\ UNCHANGED <<session, toClient>>

\* n is 1 for the packs offered, 0 for none of them and 2 for packs that
\* were not offered or are named twice.
\* Mutant: configuration is declared finished before the packs are known.
FinishAtOnce ==
  /\ Gets("knownPacks", "KnownPacks") /\ Consumes
  /\ Sends(<<Plain("FinishConfiguration"), Plain("ConfigurationData")>>)
  /\ session' = FinishSent(session) /\ Goes("configAck")
  /\ Rest /\ UNCHANGED auxiliary
ReadKnownPacks ==
  /\ Gets("knownPacks", "KnownPacks") /\ Consumes
  /\ \/ /\ Incoming.n = 2 /\ Ends("error") /\ UNCHANGED <<session, toClient>>
     \/ /\ Incoming.n = 0
        /\ Sends(<<Plain("ConfigurationDisconnect")>>)
        /\ session' = Closed(session) /\ Ends("refused")
     \/ /\ Incoming.n = 1
        /\ Sends(<<Plain("ConfigurationData"), Plain("FinishConfiguration")>>)
        /\ session' = FinishSent(session) /\ Goes("configAck")
  /\ Rest /\ UNCHANGED auxiliary

\* Registration, replication or the game state may refuse the player, who is
\* then told nothing; else the bootstrap goes out in one burst.
EnterPlay ==
  /\ Gets("configAck", "ConfigurationAcknowledged") /\ Consumes
  /\ session' = ConfigurationAcknowledged(session)
  /\ \/ Ends("refused") /\ UNCHANGED toClient
     \/ /\ Sends(<<Plain("PlayLogin"),
                   View(<<Packet("Center", ChunkOf(Spawn)), Packet("Chunk", ChunkOf(Spawn))>>),
                   Teleport(SpawnTeleport, Spawn)>>)
        /\ Goes("bootstrap")
  /\ Rest /\ UNCHANGED auxiliary

\* The client has closed its end, or ten seconds pass without a packet: only
\* the wait for a ping takes the first for a normal end.
EndOfStream ==
  /\ step \in PreplaySteps /\ toServer = <<>>
  /\ Ends(IF step = "ping" /\ client.phase = "gone" THEN "done" ELSE "error")
  /\ client.phase = "gone" \/ ~conforms
  /\ Rest /\ UNCHANGED <<session, auxiliary, toServer, toClient>>

HandlerStep ==
  \/ SkipBrand \/ Unexpected \/ ReadHandshake
  \/ AnswerStatus \/ AnswerPing
  \/ ReadLoginStart \/ ReadLoginAcknowledged \/ ReadAuxiliary \/ ReadKnownPacks
  \/ EnterPlay \/ EndOfStream

---------------------------------------------------------------------------
\* The client

ClientSends(packets) == toServer' = toServer \o packets
ServerRest == UNCHANGED <<config, conforms, step, session, auxiliary, outcome>>

\* The first packets need no answer.
Open(intent) ==
  /\ conforms /\ client.phase = "new"
  /\ client' = [client EXCEPT !.phase = IF intent = 1 THEN "Status" ELSE "Login"]
  /\ ClientSends(<<Packet("Handshake", intent),
                   IF intent = 1 THEN Plain("StatusRequest") ELSE Packet("LoginStart", 1)>>)
  /\ ServerRest /\ UNCHANGED toClient

\* What the client does with a packet, by its phase: the packets it answers
\* with and the phase it is in afterwards; NotUnderstood for any other.
NotUnderstood == [answers |-> <<>>, phase |-> "confused"]
Answer(answers, phase) == [answers |-> answers, phase |-> phase]
Understood(phase, p) ==
  CASE phase = "Status" /\ p.kind = "StatusResponse" -> Answer(<<Plain("PingRequest")>>, "Status")
    [] phase = "Status" /\ p.kind = "Pong" -> Answer(<<>>, "gone")
    [] phase = "Login" /\ p.kind = "LoginDisconnect" -> Answer(<<>>, "gone")
    [] phase = "Login" /\ p.kind = "LoginSuccess" ->
         Answer(<<Plain("LoginAcknowledged"), Plain("Brand"), Plain("ClientInformation")>>,
                "Configuration")
    [] phase = "Configuration" /\ p.kind = "SelectKnownPacks" ->
         Answer(<<Packet("KnownPacks", 1)>>, "Packs")
    [] phase = "Packs" /\ p.kind = "ConfigurationData" -> Answer(<<>>, "Data")
    [] phase = "Data" /\ p.kind = "FinishConfiguration" ->
         Answer(<<Plain("ConfigurationAcknowledged")>>, "Play")
    [] OTHER -> NotUnderstood

Receive ==
  /\ conforms /\ toClient # <<>>
  /\ client.phase \notin {"new", "Play", "InWorld", "gone", "confused"}
  /\ LET done == Understood(client.phase, toClient[1]) IN
     /\ client' = [client EXCEPT !.phase = done.phase]
     /\ ClientSends(done.answers)
  /\ toClient' = Tail(toClient)
  /\ ServerRest

\* The player changes a setting while the packs are negotiated.
Inform ==
  /\ conforms /\ client.phase = "Configuration" /\ client.informed < MaxInformation
  /\ client' = [client EXCEPT !.informed = @ + 1]
  /\ ClientSends(<<Plain("ClientInformation")>>)
  /\ ServerRest /\ UNCHANGED toClient

Leave ==
  /\ client.phase # "gone"
  /\ client' = [client EXCEPT !.phase = "gone"]
  /\ UNCHANGED toServer /\ ServerRest /\ UNCHANGED toClient

Stray ==
  /\ ~conforms /\ client.phase # "gone" /\ step # "ended" /\ toServer = <<>>
  /\ \E p \in StrayPackets : ClientSends(<<p>>)
  /\ toClient' = <<>>
  /\ ServerRest /\ UNCHANGED client

ClientStep == (\E intent \in {1, 2} : Open(intent)) \/ Receive \/ Inform \/ Leave \/ Stray

---------------------------------------------------------------------------
ConnInit ==
  /\ config \in Configs /\ conforms \in BOOLEAN
  /\ step = "handshake" /\ session = NewSession /\ auxiliary = 0 /\ outcome = "open"
  /\ client = [phase |-> "new", informed |-> 0]
  /\ toServer = <<>> /\ toClient = <<>>
ConnNext == HandlerStep \/ ClientStep

---------------------------------------------------------------------------
\* Properties

PhaseOf(s) ==
  CASE s = "handshake" -> "Handshake"
    [] s \in {"status", "ping"} -> "Status"
    [] s \in {"loginStart", "loginAck"} -> "Login"
    [] s \in {"knownPacks", "configAck"} -> "Configuration"
    [] OTHER -> "Play"

\* The handler's place in the code and the ProtocolSession it keeps beside it
\* never part, whatever a client sends: no call the handler makes is out of
\* the session's phase or order, and while the connection is open the session
\* is in the phase of the packet the handler waits for.
SessionFollowsHandler ==
  /\ session # Illegal
  /\ step # "ended" => session.phase = PhaseOf(step)

\* A conforming client is never sent a packet that its phase does not know,
\* with the packets of both directions in flight.
ClientUnderstands == client.phase # "confused"
===========================================================================
