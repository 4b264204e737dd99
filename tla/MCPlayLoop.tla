---------------------------- MODULE MCPlayLoop ----------------------------
EXTENDS PlayLoop

\* Any of the three settings may stand alone against a login.
MCConfigs ==
  [supported : BOOLEAN, offline : BOOLEAN, configured : BOOLEAN]
MCChunkOf(p) == p \div 2

P(kind, n) == [kind |-> kind, n |-> n]
MCStrayPackets ==
  {P("Handshake", n) : n \in 1 .. 3} \cup {P("LoginStart", n) : n \in {0, 1}}
    \cup {P("KnownPacks", n) : n \in 0 .. 2}
    \cup {P("Accept", n) : n \in {-1, 1, 2}} \cup {P("ChunkBatch", n) : n \in {0, 1}}
    \cup {P("Move", n) : n \in {1, 5, -1, Unreadable}} \cup {P("Turn", Unreadable)}
    \cup {P("KeepAlive", n) : n \in {1, 2}}
    \cup {P("ClientCommand", n) : n \in {0, 1, 3}}
    \cup {P(kind, n) : kind \in {"Chat", "ChatCommand"}, n \in {0, 1}}
    \cup {P(kind, 0) : kind \in {"StatusRequest", "PingRequest", "LoginAcknowledged",
            "ClientInformation", "ConfigurationAcknowledged", "Brand", "Turn", "Tick",
            "Gameplay", "Other"}}
MCPlaces == 0 .. 5
MCDestinations == {-1, 1, 5}
============================================================================
