----------------------------- MODULE TcpContact -----------------------------
(***************************************************************************)
(* How a process comes to listen for TCP connections and how another one   *)
(* learns where: the query, the startup, the listeners and the shutdown of *)
(* the pt2pt tcp component, and the contact information that pt2pt/base    *)
(* makes of it and takes apart.                                            *)
(* A descriptor is a number that is given once. One process, the owner,    *)
(* has the component; its peer has the table of what it learnt of it.      *)
(***************************************************************************)
EXTENDS Interfaces

CONSTANTS
    Configs,        \* what users set: [include, exclude, static, dynamic, disabled, max]
    Busy,           \* ports that other programs have bound
    Others,         \* the other components: [name, priority, addr, reads]
    EnableIpv6,     \* SCON_ENABLE_IPV6
    Ephemeral,      \* the first port that the system gives
    TcpPriority,    \* 80, the priority of the component
    MaxSets,        \* bound: how often the contact information is set
    MaxAccepts      \* bound: calls of connection_event_handler

Tcp == "tcp"
NoText == <<>>          \* if_include or if_exclude not set
NoFail == [at |-> 0, how |-> "none"]

VARIABLES
    config,
    stage,          \* where the owner's component is
    conns,          \* conns[f]: ipv4conns or ipv6conns
    ports,          \* ports[f]: ipv4ports or ipv6ports
    listeners,      \* the list of listeners
    fds,            \* the open descriptors, [sd, use]; opened: how many there were
    opened,
    actives,        \* scon_pt2pt_base.actives of the owner
    uri,            \* its contact information, once it is given
    peer,           \* the peer: [addressable, events, addrs, sets]
    accepts         \* [calls, closed]: descriptors closed by the handler

contactVars == <<config, stage, conns, ports, listeners, fds, opened, actives, uri, peer, accepts>>
Families == IF EnableIpv6 THEN {"inet", "inet6"} ELSE {"inet"}

-----------------------------------------------------------------------------
\* tcp_component_register: the options that exclude each other, and the ports.
\* A wildcard drops the list.
PortList(list) == LET p == scon_util_parse_range_options(list)
                  IN IF p = <<>> \/ p[1] = -1 THEN <<>> ELSE p
Registers == /\ config.include = NoText \/ config.exclude = NoText
             /\ config.dynamic = <<>> \/ PortList(config.static) = <<>>

\* split_and_resolve: a network becomes the name of the first interface in it,
\* an entry that is neither a name nor in one is dropped.
Resolved(t) ==
    IF t.kind = "name" THEN <<t>>
    ELSE LET near == {i \in DOMAIN if_list :
                        scon_net_samenetwork(Inet(Assembled(t.fields)), if_list[i].addr, t.mask.bits)}
         IN IF t.mask.kind = "none" \/ Len(t.fields) # Fields
               \/ parse_ipv4_dots(t.fields) = BadBits \/ near = {}
            THEN <<>>
            ELSE <<[kind |-> "name", name |-> if_list[Min(near)].name]>>
split_and_resolve(list) == FlattenSeq([i \in DOMAIN list |-> Resolved(list[i])])

\* Which interfaces tcp_component_query takes. A list that was given and is
\* empty now still includes nothing.
Admitted(x) ==
    /\ x.kindex > 0 /\ x.name # "vir"
    /\ x.addr.family \in Families
    /\ CASE config.include # NoText ->
              scon_ifmatches(if_list, x.kindex, split_and_resolve(config.include)) = "success"
         [] config.exclude # NoText ->
              scon_ifmatches(if_list, x.kindex, split_and_resolve(config.exclude)) # "success"
         [] OTHER -> ~(scon_ifcount(if_list) > 1 /\ scon_ifisloopback(if_list, x.index))
HostsOf(family) ==
    LET taken == SelectSeq(if_list, LAMBDA x : x.addr.family = family /\ Admitted(x))
    IN [i \in DOMAIN taken |-> taken[i].addr]

-----------------------------------------------------------------------------
\* The listeners. One set of ports serves both families.
PortsToTry ==
    CASE PortList(config.static) # <<>>  -> <<PortList(config.static)[1]>>
      [] PortList(config.dynamic) # <<>> -> PortList(config.dynamic)
      [] OTHER                           -> <<0>>

\* One port of the loop. fail says at which port a call fails, and whether the
\* descriptor is closed then. A port that is taken is skipped, its descriptor
\* stays open.
TryPort(s, i, p, family, fail) ==
    LET sd == s.opened + 1
        Opened(use) == [s EXCEPT !.opened = sd, !.fds = @ \cup {[sd |-> sd, use |-> use]}]
        taken == p # 0 /\ p \in Busy \cup {s.list[k].port : k \in DOMAIN s.list}
        number == IF p = 0 THEN Ephemeral + sd ELSE p
    IN CASE s.rc # "go" -> s
         [] s.rc = "go" /\ fail.at = i /\ fail.how = "socket" -> [s EXCEPT !.rc = "error"]
         [] s.rc = "go" /\ fail.at = i /\ fail.how = "closed" -> [s EXCEPT !.rc = "error", !.opened = sd]
         [] s.rc = "go" /\ fail.at = i /\ fail.how = "kept"   -> [Opened("left") EXCEPT !.rc = "error"]
         [] s.rc = "go" /\ fail.at # i /\ taken -> Opened("left")
         [] OTHER ->
              [Opened("listener") EXCEPT !.list = Append(@, [sd |-> sd, port |-> number, tcp6 |-> family = "inet6",
                                              ev_active |-> FALSE]),
                          !.ports[family] = Append(@, number)]
AllPorts(s, family, fail) ==
    FoldLeft(LAMBDA t, i : TryPort(t, i, PortsToTry[i], family, fail), [s EXCEPT !.rc = "go"],
             [i \in DOMAIN PortsToTry |-> i])
\* Without a listener, of either family, the last descriptor is closed.
Concluded(s) ==
    IF s.rc # "go" THEN s
    ELSE IF s.list = <<>> THEN [s EXCEPT !.rc = "not available", !.fds = {d \in @ : d.sd # s.opened}]
         ELSE [s EXCEPT !.rc = "success"]
\* create_listen closes its descriptor whenever a call fails.
create_listen(s, fail) == Concluded(AllPorts(s, "inet", fail))
\* create_listen6 does not once bind has succeeded.
create_listen6(s, fail) == Concluded(AllPorts(s, "inet6", fail))

\* scon_pt2pt_tcp_start_listening
start_listening(s, fail4, fail6) ==
    LET four == create_listen(s, fail4)
        all == IF four.rc = "success" /\ EnableIpv6 THEN create_listen6(four, fail6) ELSE four
    IN IF all.rc # "success" THEN all
       ELSE [all EXCEPT !.list = [k \in DOMAIN @ |-> [@[k] EXCEPT !.ev_active = TRUE]]]

Released(s, them) == [s EXCEPT !.fds = {d \in @ : \A k \in them : d.sd # s.list[k].sd},
                               !.list = <<>>]
\* tcp_ev_des, for every listener.
cleanup(s) == Released(s, DOMAIN s.list)

Listening == [list |-> listeners, fds |-> fds, opened |-> opened, ports |-> ports, rc |-> "go"]
SetListening(s) ==
    /\ listeners' = s.list /\ fds' = s.fds /\ opened' = s.opened /\ ports' = s.ports

-----------------------------------------------------------------------------
\* Contact information: fields of a scheme, hosts and ports.

\* A mutant: the ports that were asked for.
component_get_addr_asked ==
    IF conns["inet"] = <<>> THEN <<>>
    ELSE <<[scheme |-> "tcp", hosts |-> conns["inet"], ports |-> PortsToTry]>>
\* component_get_addr
component_get_addr ==
    LET Field(f, scheme) == IF conns[f] = <<>> \/ f \in config.disabled \/ f \notin Families THEN <<>>
                            ELSE <<[scheme |-> scheme, hosts |-> conns[f], ports |-> ports[f]]>>
    IN Field("inet", "tcp") \o Field("inet6", "tcp6")
\* scon_pt2pt_base_get_contact_info: a field that makes it too long is left
\* out. A field counts one; max is 0 without a limit.
get_contact_info ==
    FoldLeft(LAMBDA fields, c :
        LET turi == IF c.name = Tcp THEN component_get_addr ELSE c.addr
        IN IF turi = <<>> \/ (config.max > 0 /\ config.max < Len(fields) + Len(turi)) THEN fields
           ELSE fields \o turi, <<>>, actives)

\* component_set_addr: what it hands to set_peer, every host with all ports. A
\* host "localhost" is the first of the own ones; the peer has one interface.
Own(family) == IF family = "inet" THEN Inet({0}) ELSE [family |-> family, bits |-> {0}]
Ours(field) == field.scheme \in {"tcp"} \cup (IF EnableIpv6 THEN {"tcp6"} ELSE {})
component_set_addr(fields) ==
    FlattenSeq([i \in DOMAIN fields |->
        IF ~Ours(fields[i]) THEN <<>>
        ELSE LET family == IF fields[i].scheme = "tcp" THEN "inet" ELSE "inet6"
             IN [j \in DOMAIN fields[i].hosts |->
                    [family |-> family, ports |-> fields[i].ports,
                     host |-> IF fields[i].hosts[j].family = "localhost" THEN Own(family)
                              ELSE fields[i].hosts[j]]]])

\* parse_uri: atoi reads the first port, or zero.
parse_uri(op) == <<op.host, IF op.ports = <<>> THEN 0 ELSE op.ports[1]>>
-----------------------------------------------------------------------------
\* The actions.

ContactInit ==
    /\ config \in Configs
    /\ stage = "open"
    /\ conns = [f \in {"inet", "inet6"} |-> <<>>] /\ ports = [f \in {"inet", "inet6"} |-> <<>>]
    /\ listeners = <<>> /\ fds = {} /\ opened = 0
    /\ actives = <<>> /\ uri = <<>>
    /\ peer = [addressable |-> {}, events |-> <<>>, addrs |-> <<>>, sets |-> 0]
    /\ accepts = [calls |-> 0, closed |-> {}]

\* tcp_component_register, then tcp_component_open.
Register ==
    /\ stage = "open" /\ count > 0
    /\ stage' = IF Registers THEN "registered" ELSE "unavailable"
    /\ UNCHANGED <<config, conns, ports, listeners, fds, opened, actives, uri, peer, accepts>>

tcp_component_query ==
    /\ stage = "registered"
    /\ conns' = [f \in {"inet", "inet6"} |-> HostsOf(f)]
    /\ stage' = IF \A f \in Families : HostsOf(f) = <<>> THEN "unavailable" ELSE "queried"
    /\ UNCHANGED <<config, ports, listeners, fds, opened, actives, uri, peer, accepts>>

\* Each component goes before the first that has no higher priority.
Inserted(list, c) ==
    LET lower == {i \in DOMAIN list : list[i].priority <= c.priority}
    IN IF lower = {} THEN Append(list, c) ELSE InsertAt(list, Min(lower), c)
\* scon_pt2pt_base_select with tcp_component_startup: what has been started.
pt2pt_base_select(started) ==
    FoldLeft(Inserted, <<>>, IF started THEN Append(Others, [name |-> Tcp, priority |-> TcpPriority])
                             ELSE Others)
Start ==
    /\ stage = "queried"
    /\ \E fail4 \in {NoFail} \cup [at : DOMAIN PortsToTry, how : {"socket", "closed"}],
          fail6 \in {NoFail} \cup [at : DOMAIN PortsToTry, how : {"socket", "closed", "kept"}] :
            LET s == start_listening(Listening, fail4, fail6)
            IN /\ SetListening(s)
               /\ stage' = IF s.rc = "success" THEN "active" ELSE "failed"
               /\ actives' = pt2pt_base_select(s.rc = "success")
    /\ UNCHANGED <<config, conns, uri, peer, accepts>>

Open(sd) == \E d \in fds : d.sd = sd
\* connection_event_handler when accept fails for good: the listener's own
\* descriptor is closed, the listener keeps its number.
AcceptFails ==
    /\ stage = "active" /\ accepts.calls < MaxAccepts
    /\ \E k \in DOMAIN listeners :
        /\ listeners[k].ev_active /\ Open(listeners[k].sd)
        /\ fds' = {d \in fds : d.sd # listeners[k].sd}
        /\ accepts' = [calls |-> accepts.calls + 1, closed |-> accepts.closed \cup {listeners[k].sd}]
    /\ UNCHANGED <<config, stage, conns, ports, listeners, opened, actives, uri, peer>>
\* It accepts, and the connection is handed on (TcpConnection).
Accept ==
    /\ stage = "active" /\ accepts.calls < MaxAccepts
    /\ \E k \in DOMAIN listeners : listeners[k].ev_active /\ Open(listeners[k].sd)
    /\ accepts' = [accepts EXCEPT !.calls = @ + 1]
    /\ opened' = opened + 1 /\ fds' = fds \cup {[sd |-> opened + 1, use |-> "accepted"]}
    /\ UNCHANGED <<config, stage, conns, ports, listeners, actives, uri, peer>>

GetContact ==
    /\ stage = "active" /\ uri = <<>>
    /\ uri' = get_contact_info
    /\ UNCHANGED <<config, stage, conns, ports, listeners, fds, opened, actives, peer, accepts>>

\* scon_pt2pt_base_set_contact_info of the peer, which may get it again. The
\* addresses go to the module as events.
process_uri ==
    /\ uri # <<>> /\ peer.sets < MaxSets
    /\ LET ops == component_set_addr(uri)
       IN peer' = [peer EXCEPT !.sets = @ + 1, !.events = @ \o ops,
                     !.addressable = @ \cup (IF ops = <<>> THEN {} ELSE {Tcp})
                                       \cup {Others[i].name : i \in {i \in DOMAIN Others :
                                               \E j \in DOMAIN uri : uri[j].scheme = Others[i].reads}}]
    /\ UNCHANGED <<config, stage, conns, ports, listeners, fds, opened, actives, uri, accepts>>

\* Only IPv4 addresses are kept.
Kept(op) == op.family = "inet"
process_set_peer ==
    /\ peer.events # <<>>
    /\ LET op == Head(peer.events)
       IN peer' = [peer EXCEPT !.events = Tail(@),
                     !.addrs = IF Kept(op) THEN Append(@, parse_uri(op)) ELSE @]
    /\ UNCHANGED <<config, stage, conns, ports, listeners, fds, opened, actives, uri, accepts>>

\* tcp_component_shutdown, which base_close calls for the active components.
Shutdown ==
    /\ stage = "active"
    /\ stage' = "shut"
    /\ SetListening(cleanup(Listening))
    /\ actives' = <<>>
    /\ UNCHANGED <<config, conns, uri, peer, accepts>>
\* tcp_component_close releases what is still in the list.
tcp_component_close ==
    /\ stage \in {"shut", "failed", "unavailable"}
    /\ stage' = "closed"
    /\ SetListening([cleanup(Listening) EXCEPT !.ports = [f \in {"inet", "inet6"} |-> <<>>]])
    /\ conns' = [f \in {"inet", "inet6"} |-> <<>>]
    /\ UNCHANGED <<config, actives, uri, peer, accepts>>

OwnerNext ==
    \/ Register \/ tcp_component_query \/ Start \/ AcceptFails \/ Accept \/ GetContact
    \/ Shutdown \/ tcp_component_close
PeerNext == process_uri \/ process_set_peer
\* native_init opens the interfaces first; nothing closes them before the end.
ContactNext ==
    \/ Lookup /\ count = 0 /\ UNCHANGED contactVars
    \/ (OwnerNext \/ PeerNext) /\ UNCHANGED ifVars
ContactSpec == IfInit /\ ContactInit /\ [][ContactNext]_<<ifVars, contactVars>>

-----------------------------------------------------------------------------
\* The state has the shape that the code gives it.
ContactTypeOK ==
    /\ config \in Configs
    /\ stage \in {"open", "registered", "unavailable", "queried", "active", "failed", "shut", "closed"}
    /\ \A f \in {"inet", "inet6"} : \A i \in DOMAIN conns[f] : conns[f][i].family = f
    /\ \A k \in DOMAIN listeners : listeners[k].sd \in 1..opened
    /\ \A d \in fds : d.sd \in 1..opened

\* Every address that the peer keeps is one of an interface that the owner's
\* settings allow, with a port on which the owner has listened for IPv4.
KnownIsListened ==
    stage = "active" =>
        \A i \in DOMAIN peer.addrs :
            /\ \E n \in Nics : Inet(n.addr) = peer.addrs[i][1] /\ n.name # "vir"
            /\ \E k \in DOMAIN listeners : ~listeners[k].tcp6 /\ listeners[k].port = peer.addrs[i][2]

\* No interface is used whose NIC, with one address, is excluded by name or is
\* not on the list to include; networks may name another NIC in them.
ListsAreHonoured ==
    \A i \in DOMAIN conns["inet"] : \A n \in Nics :
        LET single == \A m \in Nics : m.kindex = n.kindex \/ m.addr = n.addr => m = n
            named(list) == [kind |-> "name", name |-> n.name] \in ToSet(list)
            OnlyNames(list) == \A j \in DOMAIN list : list[j].kind = "name"
        IN Inet(n.addr) = conns["inet"][i] /\ single =>
               /\ config.include # NoText /\ OnlyNames(config.include) => named(config.include)
               /\ config.exclude # NoText => ~named(config.exclude)

\* An active component listens on the ports it was told: on the static one, or
\* on every dynamic one that was free, or on one of the system's.
ListensAsTold ==
    stage = "active" =>
        LET four == {listeners[k].port : k \in {k \in DOMAIN listeners : ~listeners[k].tcp6}}
            static == PortList(config.static)
            dynamic == PortList(config.dynamic)
        IN CASE static # <<>>  -> {listeners[k].port : k \in DOMAIN listeners} = {static[1]}
             [] static = <<>> /\ dynamic # <<>> -> four = ToSet(dynamic) \ Busy
             [] OTHER -> four # {} /\ \A p \in four : p > Ephemeral

\* After the component is closed no listener holds a descriptor: what is still
\* open was accepted, or is left of ports that were taken or failed.
NothingListens ==
    stage = "closed" => \A d \in fds : d.use # "listener"

\* The transports are in the order of their priorities when the owner sends.
ActivesByPriority ==
    \A i, j \in DOMAIN actives : i < j => actives[i].priority >= actives[j].priority

\* A peer that tcp says it can reach through IPv4 gets an address as soon as
\* the events have run.
ReachableHasAddress ==
    /\ Tcp \in peer.addressable
    /\ peer.events = <<>>
    /\ \E j \in DOMAIN uri : uri[j].scheme = "tcp"
    => peer.addrs # <<>>

\* What tcp tells the others of itself is where it listens, as the user said.
ContactHolds ==
    /\ ContactTypeOK /\ KnownIsListened /\ ListsAreHonoured /\ ListensAsTold /\ NothingListens
    /\ ActivesByPriority /\ ReachableHasAddress
=============================================================================
