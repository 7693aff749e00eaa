----------------------------- MODULE MCServices -----------------------------
(* What carries the messages of a SCON, one part at a time: the            *)
(* interfaces of the host, the contact that tcp makes of them, the matching*)
(* of messages to receives, and the exchanges of the other algorithms. The *)
(* parts that are not run stay as they are.                                *)
EXTENDS Integers, Matching

VARIABLES part,
    algorithm, nprocs, last_round, exchange, sent, gathered, early, heap,
    kernel, wide, if_list, count, frameopen, scon_if_do_not_resolve, ranges,
    config, stage, conns, ports, listeners, fds, opened, actives, uri, peer, accepts
exchangeState == <<algorithm, nprocs, last_round, exchange, sent, gathered, early, heap>>
ifState == <<kernel, wide, if_list, count, frameopen, scon_if_do_not_resolve, ranges>>
contactState == <<config, stage, conns, ports, listeners, fds, opened, actives, uri, peer, accepts>>
servicesVars == <<part, exchangeState, matchVars, ifState, contactState>>

-----------------------------------------------------------------------------
\* Exchanges of every size up to 4, and one member with bad luck.
Ex == INSTANCE Exchange WITH Exchanges <- {"brucks", "rcd"} \X (1..4), MaxUnlucky <- 1

\* One SCON, two peers, a receive from one of them and a persistent one from all; two
\* messages that come in, or one that comes in and one that is sent.
Rank(rank) == [job |-> 1, rank |-> rank]
MCSelf == Rank(0)
MCPeers == {Rank(1), Rank(2)}
MCReceives == {[peer |-> Rank(1), tag |-> 1, persistent |-> FALSE],
               [peer |-> Rank(AnyRank), tag |-> 1, persistent |-> TRUE]}
MCMembers == BOOLEAN
MatchSent == INSTANCE Matching WITH MaxMessages <- 1, MaxSends <- 1

\* Addresses of four bits in fields of two. Hosts whose records are up or down, a
\* second address of a card, a slave of a bond, calls of the kernel that fail; the
\* names and networks that are looked up, the lists of ranges that are read.
Nic(n, k, a, m, f) == [name |-> n, family |-> "inet", up |-> f # "down", slave |-> f = "slave",
                       loopback |-> f = "lo", kindex |-> k, addr |-> a, netmask |-> m, mac |-> n,
                       fails |-> IF f \in {"index", "mac"} THEN f ELSE "none"]
Six(n, k, s) == [name |-> n, kindex |-> k, addr |-> {0, 3}, prefix |-> 2, scope |-> s]
Lo == Nic("lo", 1, {2, 0}, {2, 3}, "lo")
Eth0 == Nic("eth0", 2, {3, 0}, {3, 2}, "")
Alias == Nic("eth0:1", 2, {1, 0}, {3, 2}, "")
Eth1 == Nic("eth1", 3, {3, 1}, {1, 2, 3}, "")
Eth2 == Nic("eth2", 4, {3, 2}, {}, "")
Vir == Nic("vir", 4, {1}, {2, 3}, "")
MCHosts == {k \in [inet : {<<Lo, Eth0>>, <<Lo, Eth0, Alias, Eth1>>, <<Eth0, Nic("eth9", 9, {1}, {3}, "down"), Eth1>>,
                           <<Eth0, Nic("eth1", 3, {3, 1}, {1, 2, 3}, "mac"), Eth2>>,
                           <<Lo, Nic("eth1", 3, {3, 1}, {1, 2, 3}, "index"), Eth2>>,
                           <<Lo, Nic("bond", 5, {1}, {3, 2}, "slave"), Eth1, Eth0, Eth2>>},
                   inet6 : {<<>>, <<Six("eth0", 2, 32)>>, <<Six("lo", 1, 16), Six("eth1", 3, 32)>>},
                   reports : {"written", "needed"}] : k.reports = "written" \/ Len(k.inet) <= 4}
MCLookups == {[kind |-> "name", name |-> n] : n \in {"eth0", "eth1", "lo", "zz"}}
             \cup {[kind |-> "net", fields |-> f, mask |-> m] :
                     f \in {<<2>>, <<2, 0>>, <<2, 1>>, <<1>>, <<2, 4>>, <<2, 2>>, <<3, 0>>, <<1, 1, 1>>, <<0, 0>>},
                     m \in {[kind |-> "none"]} \cup [kind : {"bits"}, bits : 0..4]
                          \cup [kind : {"fields"}, fields : {<<3, 0>>, <<3, 2>>, <<9>>}]}
MCPrivate == {<<>>, <<<<2, 0, 2>>>>, <<<<1, 2, 3>>, <<2, 0, 1>>>>, <<<<2, 0, 2>>, <<1, 0, 9>>>>,
              <<<<0, 0, 2>>, <<1, 0, 2>>>>, <<<<1, 0, 2>>, <<3, 2, 4>>>>}
Ranges == [minus : BOOLEAN, parts : {<<1>>, <<3>>, <<2, 4>>, <<4, 2>>, <<1, 2, 3>>}]
Host == INSTANCE Interfaces WITH
    AddrBits <- 4, FieldBits <- 2, Kernels <- MCHosts, DefaultNumber <- 2, MaxConf <- 16,
    Texts <- MCLookups, Listed <- MCPrivate, MaxOpens <- 3,
    RangeLists <- {<<>>} \cup {<<a>> : a \in Ranges} \cup {<<a, b>> : a, b \in Ranges}

\* Hosts with up to three NICs, one of them "vir" or with an IPv6 address; the
\* lists of interfaces and of ports that a user may give, alone or together.
MCKernels == [inet : {<<Lo, Eth0, Eth1>>, <<Lo, Vir, Eth1>>, <<Lo>>}, reports : {"written"},
              inet6 : {<<>>, <<Six("eth1", 3, 32)>>}]
Nd(n) == [kind |-> "name", name |-> n]
Net(f) == [kind |-> "net", fields |-> f, mask |-> [kind |-> "bits", bits |-> 2]]
Span(a, b) == <<[minus |-> FALSE, parts |-> <<a, b>>]>>
AnyPort == <<[minus |-> TRUE, parts |-> <<1>>]>>
Config(i, x, s, d, off, max) ==
    [include |-> i, exclude |-> x, static |-> s, dynamic |-> d, disabled |-> off, max |-> max]
Included == {<<<<>>, <<>>>>, <<<<Nd("eth1")>>, <<>>>>, <<<<Net(<<2, 0>>)>>, <<>>>>, <<<<>>, <<Nd("eth0")>>>>,
             <<<<>>, <<Net(<<2, 0>>)>>>>, <<<<Nd("lo"), Net(<<1, 0>>)>>, <<>>>>,
             <<<<Nd("eth0")>>, <<Nd("eth1")>>>>, <<<<>>, <<Nd("lo"), Nd("eth0"), Nd("eth1")>>>>}
Ports == {<<<<>>, <<>>>>, <<Span(5, 6), <<>>>>, <<<<>>, Span(4, 6)>>, <<<<>>, Span(5, 6)>>,
          <<<<>>, Span(6, 6)>>, <<Span(4, 4), <<>>>>, <<Span(5, 5), Span(6, 6)>>, <<AnyPort, <<>>>>}
MCConfigs == {Config(l[1], l[2], <<>>, <<>>, off, 0) : l \in Included, off \in {{}, {"inet6"}, {"inet"}}}
             \cup {Config(<<>>, <<>>, q[1], q[2], {}, max) : q \in Ports, max \in 0..1}
Contact == INSTANCE TcpContact WITH
    AddrBits <- 4, FieldBits <- 2, Kernels <- MCKernels, DefaultNumber <- 2, MaxConf <- 16, Texts <- {},
    Listed <- {}, RangeLists <- {<<>>}, MaxOpens <- 3,
    Configs <- MCConfigs, Busy <- {4}, EnableIpv6 <- TRUE, Ephemeral <- 100, TcpPriority <- 80,
    MaxSets <- 2, MaxAccepts <- 1,
    Others <- <<[name |-> "ofi", priority |-> 80, reads |-> "ofi",
                 addr |-> <<[scheme |-> "ofi", hosts |-> <<>>, ports |-> <<>>]>>],
                [name |-> "usock", priority |-> 90, addr |-> <<>>, reads |-> "usock"]>>

-----------------------------------------------------------------------------
SomeConfig == CHOOSE c \in MCConfigs : TRUE
ServicesInit ==
    /\ part \in {"exchange", "matching", "sending", "interfaces", "contact"}
    /\ IF part = "exchange" THEN Ex!ExchangeInit
       ELSE Ex!ExchangeInit /\ algorithm = "rcd" /\ nprocs = 1 /\ last_round = 0
    /\ MatchInit /\ (part \notin {"matching", "sending"} => oneBase)
    /\ CASE part = "interfaces" -> Host!IfInit
         [] part = "contact" -> Contact!IfInit
         [] OTHER -> Host!IfInit /\ kernel = (CHOOSE k \in MCHosts : TRUE) /\ ranges = <<>> /\ wide = {}
    /\ Contact!ContactInit /\ (part # "contact" => config = SomeConfig)

Exchanges(A) == part = "exchange" /\ A /\ UNCHANGED <<part, matchVars, ifState, contactState>>
Matches(A) == part = "matching" /\ A /\ UNCHANGED <<part, exchangeState, ifState, contactState>>
Sends(A) == part = "sending" /\ A /\ UNCHANGED <<part, exchangeState, ifState, contactState>>
Looks(A) == part = "interfaces" /\ A /\ UNCHANGED <<part, exchangeState, matchVars, contactState>>
Listens(A) == part = "contact" /\ A /\ UNCHANGED <<part, exchangeState, matchVars>>
ServicesNext == \/ Exchanges(Ex!ExchangeNext)
                \/ Matches(MatchNext) \/ Sends(MatchSent!MatchNext)
                \/ Looks(Host!IfNext) \/ Listens(Contact!ContactNext)

\* The fairness that the specifications of the parts state.
ServicesSpec ==
    /\ ServicesInit /\ [][ServicesNext]_servicesVars
    /\ WF_exchangeState(Exchanges(Ex!ExchangeNext))
    /\ \A b \in Bases :
          WF_matchVars(Matches(Handle(b)) \/ Sends(MatchSent!Handle(b)))

-----------------------------------------------------------------------------
\* The properties of the parts, under the names that these give them; those of the
\* matching are MatchingHolds and ServedOrHeld.
ExchangesHold == Ex!ExchangesHold
InterfacesHold == part = "interfaces" => Host!InterfacesHold
ContactHolds == Contact!ContactHolds
ExchangeCompletes == part = "exchange" => Ex!ExchangeCompletes
=============================================================================
