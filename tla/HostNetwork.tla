----------------------------- MODULE HostNetwork ----------------------------
(***************************************************************************)
(* What the app is told about the network: the monitor thread that reads   *)
(* the host's NetworkManager over the system bus, one property after the   *)
(* other (src/crates/arod/src/hostnet.rs), and the answers of the          *)
(* connectivity service from what it read last                             *)
(* (src/crates/arod/src/services/network.rs).                              *)
(*                                                                         *)
(* The host is external: its network changes between any two reads, and    *)
(* NetworkManager and the bus go away and come back.  The name servers,    *)
(* which no answer carries, are left out.                                  *)
(***************************************************************************)
EXTENDS Naturals

CONSTANTS
    Meterings,     \* values of Metered: 0 unknown, 1 yes, 2 no, 3, 4 guessed so
    NetworkTypes,  \* types of a connection
    MaxHostChanges \* bound: changes of the host

ASSUME NetworkAssumption ==
    /\ Meterings \subseteq 0..4 /\ 0 \in Meterings
    /\ "none" \notin NetworkTypes /\ MaxHostChanges \in Nat

NetworkStates  == {20, 50, 70}     \* disconnected, connected to the link, to the world
Connectivities == {0, 1, 4}        \* unknown, none, full
Manager ==
    [Connectivity : Connectivities, State : NetworkStates \cup {0},
     PrimaryConnection : NetworkTypes \cup {"none"}, Metered : Meterings]

VARIABLES
    host_net,     \* what NetworkManager would say
    bus,          \* whether it can be asked: up, gone (it is not on the bus), down
    probe,        \* the thread: where it is, what it read, and its connection, which
                  \* does not outlive the bus
    current,      \* the state the answers are made from, or NotYet
    host_changes  \* history

netVars == <<host_net, bus, probe, current, host_changes>>

\* What an app cannot tell from a host without a network.
Offline == [online |-> FALSE, validated |-> FALSE, metered |-> FALSE, transport |-> "ethernet"]
NotYet  == [Offline EXCEPT !.transport = "none"]

transport_of(nm_type) ==
    CASE nm_type = "802-11-wireless" -> "wifi"
      [] nm_type \in {"gsm", "cdma"} -> "cellular"
      [] OTHER -> "ethernet"

HostNet(read, transport) ==
    [online    |-> read.State >= 50,
     validated |-> read.State >= 50 /\ read.Connectivity = 4,
     metered   |-> read.Metered \in {1, 3},
     transport |-> transport]

NetTypeOK ==
    /\ host_net \in Manager /\ bus \in {"up", "gone", "down"}
    /\ probe.at \in {"sleep", "connect", "Connectivity", "State", "PrimaryConnection",
                     "Metered", "Type"}
    /\ probe.wire \in BOOLEAN /\ probe.read \in Manager
    /\ current \in [online : BOOLEAN, validated : BOOLEAN, metered : BOOLEAN,
                    transport : {"wifi", "cellular", "ethernet", "none"}]
    /\ current.validated => current.online
    /\ host_changes \in 0..MaxHostChanges

NothingRead == [Connectivity |-> 0, State |-> 0, PrimaryConnection |-> "none", Metered |-> 0]

\* The worker probes once before it publishes the service.  The host may have a
\* network by then.
NetInit ==
    /\ host_net \in {m \in Manager : m = NothingRead \/ (m.Connectivity = 4 /\ m.State = 70
                                       /\ m.PrimaryConnection # "none" /\ m.Metered = 0)}
    /\ bus = "up"
    /\ probe = [at |-> "connect", wire |-> FALSE, read |-> NothingRead]
    /\ current = NotYet /\ host_changes = 0

-----------------------------------------------------------------------------
(* The host.                                                               *)

HostChanges ==
    /\ host_changes < MaxHostChanges
    /\ host_changes' = host_changes + 1
    /\ \/ /\ \E property \in DOMAIN host_net, new \in Manager :
                host_net' = [host_net EXCEPT ![property] = new[property]]
          /\ UNCHANGED <<bus, probe>>
       \/ /\ bus' \in {"up", "gone", "down"}
          /\ probe' = IF bus' = "down" THEN [probe EXCEPT !.wire = FALSE] ELSE probe
          /\ UNCHANGED host_net
    /\ UNCHANGED current

-----------------------------------------------------------------------------
(* The probe, every two seconds.  What cannot be read is 0, no connection, *)
(* or ethernet; a bus that cannot be reached withdraws the network.        *)

Wake ==
    /\ probe.at = "sleep"
    /\ probe' = [probe EXCEPT !.at = "connect"]
    /\ UNCHANGED <<host_net, bus, current, host_changes>>

\* Mutant: what was known stays when the bus cannot be reached.
KeepOnFailure ==
    /\ probe.at = "connect"
    /\ probe' = [probe EXCEPT !.at = IF bus = "down" THEN "sleep" ELSE "Connectivity",
                              !.wire = bus # "down"]
    /\ current' = IF current = NotYet /\ bus = "down" THEN Offline ELSE current
    /\ UNCHANGED <<host_net, bus, host_changes>>

Connect ==
    /\ probe.at = "connect"
    /\ probe' = [probe EXCEPT !.at = IF bus = "down" THEN "sleep" ELSE "Connectivity",
                              !.wire = bus # "down"]
    /\ current' = IF bus = "down" THEN Offline ELSE current
    /\ UNCHANGED <<host_net, bus, host_changes>>

Get(value, default) == IF probe.wire /\ bus = "up" THEN value ELSE default

Read(property, next) ==
    /\ probe.at = property
    /\ probe' = [probe EXCEPT !.at = next,
                              !.read[property] = Get(host_net[property], NothingRead[property])]
    /\ UNCHANGED <<host_net, bus, current, host_changes>>

\* The type is asked of the connection that was the primary one: it may be gone.
\* Then the probe is done, and the answers are made from it.
ReadType ==
    LET asked  == probe.read.PrimaryConnection
        type   == IF asked = "none" THEN "none" ELSE Get(asked, "none")
        typeOf == {type} \cup (IF host_net.PrimaryConnection # asked THEN {"none"} ELSE {})
    IN  /\ probe.at = "Type"
        /\ \E t \in typeOf : current' = HostNet(probe.read, transport_of(t))
        /\ probe' = [probe EXCEPT !.at = "sleep", !.wire = FALSE, !.read = NothingRead]
        /\ UNCHANGED <<host_net, bus, host_changes>>

try_probe ==
    \/ Connect
    \/ Read("Connectivity", "State") \/ Read("State", "PrimaryConnection")
    \/ Read("PrimaryConnection", "Metered") \/ Read("Metered", "Type")
    \/ ReadType

Monitor == Wake \/ try_probe

NetNext == HostChanges \/ Monitor

-----------------------------------------------------------------------------
(* The answers, each from one copy of the state.                           *)

caps_mask(net) ==
    {"INTERNET", "NOT_RESTRICTED", "TRUSTED"}
        \cup (IF net.validated THEN {"VALIDATED"} ELSE {})
        \cup (IF net.metered THEN {} ELSE {"NOT_METERED"})

NetworkInfo(net) == [type |-> net.transport, state |-> "CONNECTED"]

Capabilities(net) == [caps |-> caps_mask(net), transport |-> net.transport]

\* An object, or none while the host is offline.
OnlineOnly(net, object) == IF net.online THEN <<object>> ELSE <<>>

Queries == {"getActiveNetwork", "getNetworkCapabilities", "getNetworkInfo",
            "getAllNetworks", "isActiveNetworkMetered", "isDefaultNetworkActive"}

Reply(query, net) ==
    CASE query \in {"getActiveNetwork", "getAllNetworks"} -> OnlineOnly(net, "network")
      [] query = "getNetworkCapabilities" -> OnlineOnly(net, Capabilities(net))
      [] query = "getNetworkInfo"         -> OnlineOnly(net, NetworkInfo(net))
      [] query = "isActiveNetworkMetered" -> net.metered
      [] query = "isDefaultNetworkActive" -> net.online

-----------------------------------------------------------------------------
(* Properties.                                                             *)

\* What the host's network is: none, where nobody can be asked.
HostTruth ==
    IF bus = "up" THEN HostNet(host_net, transport_of(host_net.PrimaryConnection)) ELSE Offline

Follows == current # NotYet /\ \A q \in Queries : Reply(q, current) = Reply(q, HostTruth)

\* Once the host stands still, every answer becomes and stays what the host is, however
\* the changes fell between the reads of a probe, and also when the last change was the
\* loss of the bus or of NetworkManager.
NetworkFollowsTheHost == <>[][FALSE]_<<host_net, bus>> => <>[]Follows
=============================================================================
