----------------------------- MODULE Interfaces -----------------------------
(***************************************************************************)
(* util/if.c, util/net.c, util/parse_options.c and the `if' framework: the *)
(* list of network interfaces, what is looked up in it, the networks that  *)
(* a user writes as text, and ranges of ports.                             *)
(* Each lookup opens the framework, so the first one reads the interfaces  *)
(* from the kernel; native_finalize closes it once. An address is the set  *)
(* of its bits that are one, 0 the lowest. A text is a record of what the  *)
(* parser finds in it.                                                     *)
(***************************************************************************)
EXTENDS Integers, Sequences, FiniteSets, FiniteSetsExt, SequencesExt

CONSTANTS
    AddrBits, FieldBits,    \* 32 and 8: the bits of an address and of one of its fields
    Kernels,            \* what the kernel may report: [inet, inet6], sequences of records
    DefaultNumber, MaxConf, \* how many records SIOCGIFCONF is first, and at most, asked for
    Texts,              \* names and networks that users write
    Listed,             \* values of net_private_ipv4, sequences of what sscanf reads
    RangeLists,         \* port ranges, sequences of [minus, parts]
    MaxOpens            \* bound: how often the framework is opened

Fields == AddrBits \div FieldBits
AllBits == 0..(AddrBits - 1)
Addresses == SUBSET AllBits
Prefix(n) == (AddrBits - n)..(AddrBits - 1)
Inet(bits) == [family |-> "inet", bits |-> bits]
\* What a call gives when it fails, by the type of what it finds.
NoName == "error"
NoAddr == [family |-> "error", bits |-> {}]
BadBits == {-1}

VARIABLES
    kernel,         \* what the kernel reports
    wide,           \* what 1 << 32 makes of the mask of a whole address: C leaves it open
    if_list,        \* scon_if_list
    count,          \* framework_refcnt
    frameopen,      \* the static of if_base_components.c
    scon_if_do_not_resolve,
    ranges          \* a list of ports that is parsed

ifVars == <<kernel, wide, if_list, count, frameopen, scon_if_do_not_resolve, ranges>>

-----------------------------------------------------------------------------
\* util/if.c, each on a list of interfaces.

\* A field of the first interface with the property.
Found(list, Test(_), Field(_), none) ==
    LET these == {i \in DOMAIN list : Test(list[i])}
    IN IF these = {} THEN none ELSE Field(list[Min(these)])

scon_ifnametoaddr(list, n) == Found(list, LAMBDA x : x.name = n, LAMBDA x : x.addr, NoAddr)
scon_ifnametoindex(list, n) ==
    Found(list, LAMBDA x : x.name = n, LAMBDA x : x.index, -1)
scon_ifnametokindex(list, n) ==
    Found(list, LAMBDA x : x.name = n, LAMBDA x : x.kindex, -1)
scon_ifindextokindex(list, i) ==
    Found(list, LAMBDA x : x.index = i, LAMBDA x : x.kindex, -1)
scon_ifcount(list) == Len(list)
scon_ifbegin(list) == IF list = <<>> THEN -1 ELSE list[1].index
\* The next element that has another index.
scon_ifnext(list, i) ==
    LET here == {j \in DOMAIN list : list[j].index = i}
        later == {j \in DOMAIN list : j > Min(here) /\ list[j].index # i}
    IN IF here = {} \/ later = {} THEN -1 ELSE list[Min(later)].index
scon_ifindextoaddr(list, i) == Found(list, LAMBDA x : x.index = i, LAMBDA x : x.addr, NoAddr)
scon_ifkindextoaddr(list, k) == Found(list, LAMBDA x : x.kindex = k, LAMBDA x : x.addr, NoAddr)
scon_ifindextomask(list, i) == Found(list, LAMBDA x : x.index = i, LAMBDA x : x.mask, -1)
scon_ifindextomac(list, i) == Found(list, LAMBDA x : x.index = i, LAMBDA x : x.mac, NoName)
scon_ifindextoflags(list, i) == Found(list, LAMBDA x : x.index = i, LAMBDA x : x.loopback, FALSE)
scon_ifindextoname(list, i) == Found(list, LAMBDA x : x.index = i, LAMBDA x : x.name, NoName)
scon_ifkindextoname(list, k) == Found(list, LAMBDA x : x.kindex = k, LAMBDA x : x.name, NoName)
scon_ifisloopback(list, i) == \E j \in DOMAIN list : list[j].index = i /\ list[j].loopback
scon_ifgetaliases(list) ==
    LET kept == SelectSeq(list, LAMBDA x : ~x.loopback)
    IN [j \in DOMAIN kept |-> kept[j].addr]

\* An address of one family read as one of the other is zero.
SeenAs(addr, family) == IF addr.family = family THEN addr.bits ELSE {}
scon_ifaddrtoname(list, a) ==
    IF scon_if_do_not_resolve THEN NoName
    ELSE Found(list, LAMBDA x : SeenAs(x.addr, a.family) = a.bits, LAMBDA x : x.name, NoName)
scon_ifislocal(list, a) == scon_ifaddrtoname(list, a) # NoName

-----------------------------------------------------------------------------
\* What the components find.

\* A netmask as the length of its prefix; a mask of zero counts 32 zeros.
prefix(netmask) == IF netmask = {} THEN 0 ELSE AddrBits - Min(netmask)

\* SIOCGIFCONF into room for n records: the kernel says what it wrote, or what
\* it would have written. The room doubles until two answers agree.
Reported(n) == IF kernel.reports = "written" THEN Min({n, Len(kernel.inet)})
               ELSE Len(kernel.inet)
Tries == {n \in 1..MaxConf : \E k \in 0..n : n = DefaultNumber * 2 ^ k}
Agreeing == {n \in Tries : /\ 2 * n \in Tries
                           /\ Reported(n) = Reported(2 * n)
                           /\ Reported(n) > 0}
\* Nothing was found for good, or the records that fit into the room.
Located == IF Agreeing = {} THEN <<>>
           ELSE SubSeq(kernel.inet, 1, Min({2 * Min(Agreeing), Len(kernel.inet)}))

\* One record of the loop of if_posix_open: what is appended, or nothing.
Liked(r) == /\ r.family = "inet" /\ r.up /\ ~r.slave
            /\ r.fails \notin {"flags", "index", "addr", "mask", "mac", "mtu"}
\* A mutant of IfOf: the index is the kernel's.
IfOf_kernel(r, index) ==
    [name |-> r.name, index |-> r.kindex, kindex |-> r.kindex, loopback |-> r.loopback,
     addr |-> Inet(r.addr), mask |-> prefix(r.netmask), mac |-> r.mac]
IfOf(r, index) ==
    [name |-> r.name, index |-> index, kindex |-> r.kindex, loopback |-> r.loopback,
     addr |-> Inet(r.addr), mask |-> prefix(r.netmask), mac |-> r.mac]
\* The loop ends at a record whose address, MAC or MTU cannot be read.
Stops(r) == r.family = "inet" /\ r.up /\ ~r.slave /\ r.fails \in {"addr", "mac", "mtu"}
if_posix_open(records) ==
    LET stops == {i \in DOMAIN records : Stops(records[i])}
        read == SubSeq(records, 1, IF stops = {} THEN Len(records) ELSE Min(stops) - 1)
    IN FoldLeft(LAMBDA list, r : IF Liked(r) THEN Append(list, IfOf(r, Len(list) + 1))
                                 ELSE list, <<>>, read)

\* Only scopes of link-local or above are kept; a global address has scope 0.
if_linux_ipv6_open(list, records) ==
    FoldLeft(LAMBDA l, r :
        IF r.scope < 32 THEN l
        ELSE Append(l, [name |-> r.name, index |-> Len(l) + 1, kindex |-> r.kindex,
                        loopback |-> scon_ifindextoflags(l, scon_ifnametoindex(l, r.name)),
                        addr |-> [family |-> "inet6", bits |-> r.addr],
                        mask |-> r.prefix, mac |-> NoName]), list, records)

Enumerated == if_linux_ipv6_open(if_posix_open(Located), kernel.inet6)

-----------------------------------------------------------------------------
\* util/net.c.

scon_net_prefix2netmask(n) == IF n = AddrBits THEN wide ELSE Prefix(n)
\* An IPv6 prefix is half the address, any other is never the same network.
scon_net_samenetwork(a, b, plen) ==
    /\ a.family = b.family
    /\ CASE a.family = "inet"  ->
              LET m == scon_net_prefix2netmask(IF plen = 0 THEN AddrBits ELSE plen)
              IN a.bits \cap m = b.bits \cap m
         [] a.family = "inet6" ->
              /\ plen \in {0, AddrBits \div 2}
              /\ a.bits \cap Prefix(AddrBits \div 2) = b.bits \cap Prefix(AddrBits \div 2)

scon_ifaddrtokindex(list, a) ==
    Found(list, LAMBDA x : scon_net_samenetwork(a, x.addr, x.mask), LAMBDA x : x.kindex, -1)

\* The bits of the numbers of a dotted address.
Assembled(fields) ==
    {b \in AllBits : LET i == Fields - (b \div FieldBits)
                     IN i \in DOMAIN fields /\ (fields[i] \div 2 ^ (b % FieldBits)) % 2 = 1}
parse_ipv4_dots(fields) ==
    IF \E i \in DOMAIN fields : i <= Fields /\ fields[i] > 2 ^ FieldBits - 1 THEN BadBits
    ELSE Assembled(fields)

\* private_ipv4: what sscanf does not read stays as the entry before left it.
\* A bad entry leaves its place as malloc gave it.
Unread == [addr |-> BadBits, bits |-> -1]
scon_net_init(entries) ==
    FoldLeft(LAMBDA s, e :
        LET read == [j \in 1..(Fields + 1) |-> IF j \in DOMAIN e THEN e[j] ELSE s.read[j]]
            bad == \/ \E j \in 1..Fields : read[j] > 2 ^ FieldBits - 1
                   \/ read[Fields + 1] > AddrBits
        IN [read |-> read,
            list |-> Append(s.list, IF bad THEN Unread
                                    ELSE [addr |-> Assembled(read), bits |-> read[Fields + 1]])],
        [read |-> [j \in 1..(Fields + 1) |-> 0], list |-> <<>>], entries).list
\* The list ends at the first address that is zero.
scon_net_addr_isipv4public(list, a) ==
    LET zeros == {i \in DOMAIN list : list[i].addr = {}}
        last == IF zeros = {} THEN Len(list) ELSE Min(zeros) - 1
    IN ~\E i \in 1..last : list[i].addr = a \cap scon_net_prefix2netmask(list[i].bits)

-----------------------------------------------------------------------------
\* Networks as text: a name, or fields between dots with a mask behind them,
\* which is "none", a number of bits or fields.

MaskOf(t) ==
    CASE t.mask.kind = "bits"   -> IF t.mask.bits \in 1..(AddrBits - 1) THEN Prefix(t.mask.bits)
                                   ELSE BadBits
      [] t.mask.kind = "fields" -> LET m == parse_ipv4_dots(t.mask.fields)
                                   IN IF m = BadBits THEN AllBits ELSE m
      [] t.mask.kind = "none"   -> IF Len(t.fields) > Fields THEN BadBits
                                   ELSE Prefix(FieldBits * Len(t.fields))
\* A mask of fields that cannot be read is not noticed: rc is the address's.
scon_iftupletoaddr(t) ==
    LET m == MaskOf(t)
        n == parse_ipv4_dots(t.fields)
    IN [rc |-> m # BadBits /\ n # BadBits, net |-> n, mask |-> m]

\* Whether one entry decides the call, and how.
Decides(list, kindex, addr, t) ==
    IF t.kind = "name" THEN IF scon_ifnametokindex(list, t.name) = kindex THEN "success" ELSE "no"
    ELSE LET r == scon_iftupletoaddr(t)
         IN IF ~r.rc THEN "bad" ELSE IF r.net = addr \cap r.mask THEN "success" ELSE "no"
\* The first address that the list has for the kernel's index stands for it.
scon_ifmatches(list, kindex, nets) ==
    LET a == scon_ifkindextoaddr(list, kindex)
        outcome == [i \in DOMAIN nets |-> Decides(list, kindex, SeenAs(a, "inet"), nets[i])]
        deciding == {i \in DOMAIN nets : outcome[i] # "no"}
    IN IF a = NoAddr THEN "error"
       ELSE IF deciding = {} THEN "not found" ELSE outcome[Min(deciding)]

-----------------------------------------------------------------------------
\* util/parse_options.c. An element of the list is what "-" splits it into, and
\* whether it starts with one: "-1" is minus with the part 1.

Upto(a, b) == [i \in 1..(IF b < a THEN 0 ELSE b - a + 1) |-> a + i - 1]
Element(e) == IF Len(e.parts) > 1 THEN Upto(e.parts[1], e.parts[2]) ELSE <<e.parts[1]>>
Wildcard(e) == Len(e.parts) = 1 /\ e.minus /\ e.parts[1] = 1
\* The wildcard replaces what came before it and ends the parsing.
scon_util_parse_range_options(list) ==
    IF \E i \in DOMAIN list : Wildcard(list[i]) THEN <<-1>>
    ELSE FlattenSeq([i \in DOMAIN list |-> Element(list[i])])
\* Three parts or more are no range here.
scon_util_get_ranges(list) ==
    LET read == SelectSeq(list, LAMBDA e : Len(e.parts) \in 1..2)
    IN [start |-> [i \in DOMAIN read |-> read[i].parts[1]],
        end   |-> [i \in DOMAIN read |-> read[i].parts[Len(read[i].parts)]]]

-----------------------------------------------------------------------------
\* The framework.

IfInit ==
    /\ \/ kernel \in Kernels /\ ranges = <<>>
       \/ kernel = (CHOOSE k \in Kernels : TRUE) /\ ranges \in RangeLists
    /\ wide \in {{}, AllBits}
    /\ if_list = <<>> /\ count = 0 /\ frameopen = FALSE
    /\ scon_if_do_not_resolve = FALSE

\* scon_if_base_open: frameopen is never taken back.
scon_if_base_open ==
    /\ frameopen' = TRUE
    /\ if_list' = IF frameopen THEN if_list ELSE Enumerated

\* Any call of util/if.c, or native_init. The variable is read when the
\* framework registers.
Lookup ==
    /\ count < MaxOpens
    /\ count' = count + 1
    /\ IF count > 0 THEN UNCHANGED <<if_list, frameopen, scon_if_do_not_resolve>>
       ELSE /\ scon_if_do_not_resolve' \in BOOLEAN
            /\ scon_if_base_open
    /\ UNCHANGED <<kernel, wide, ranges>>

\* scon_if_base_close, by the framework's last close.
FinalizeIf ==
    /\ count > 0
    /\ count' = count - 1
    /\ if_list' = IF count = 1 THEN <<>> ELSE if_list
    /\ UNCHANGED <<kernel, wide, ranges, frameopen, scon_if_do_not_resolve>>

IfNext == Lookup \/ FinalizeIf
IfSpec == IfInit /\ [][IfNext]_ifVars

-----------------------------------------------------------------------------
\* The interfaces are known: read from the kernel and not given back.
Known == if_list # <<>>
\* What the kernel has that the program should know: the records that are up.
Usable == {i \in DOMAIN kernel.inet :
             /\ kernel.inet[i].family = "inet" /\ kernel.inet[i].up /\ ~kernel.inet[i].slave
             /\ kernel.inet[i].fails = "none"
             /\ \A j \in 1..i : ~Stops(kernel.inet[j])}
Nics == {kernel.inet[i] : i \in Usable}
InNet(a, n) == a \cap n.netmask = n.addr \cap n.netmask

\* The state has the shape that the code gives it.
IfTypeOK ==
    /\ kernel \in Kernels /\ wide \in {{}, AllBits} /\ ranges \in RangeLists
    /\ \A i \in DOMAIN if_list : if_list[i].index = i
    /\ count \in 0..MaxOpens
    /\ frameopen \in BOOLEAN /\ scon_if_do_not_resolve \in BOOLEAN

\* A caller that starts at scon_ifbegin and follows scon_ifnext until it gets
\* -1 (pt2pt_tcp_component_query does) meets every interface that is up once,
\* in the order of the list, those of one NIC with several addresses included.
WalkMeetsAll ==
    Known => LET steps[k \in 1..scon_ifcount(if_list)] ==
                     IF k = 1 THEN scon_ifbegin(if_list) ELSE scon_ifnext(if_list, steps[k - 1])
             IN /\ scon_ifnext(if_list, steps[scon_ifcount(if_list)]) = -1
                /\ {Inet(n.addr) : n \in Nics}
                     \subseteq {scon_ifindextoaddr(if_list, steps[k]) : k \in DOMAIN steps}
                /\ Cardinality({steps[k] : k \in DOMAIN steps}) = scon_ifcount(if_list)

\* What the lookups give for an index comes from one record of the kernel, and
\* for the name and the kernel's index that it gives, from the same NIC.
LookupsAgree ==
    \A j \in DOMAIN if_list :
        LET i == if_list[j].index
            n == scon_ifindextoname(if_list, i)
            k == scon_ifindextokindex(if_list, i)
            Of(a) == \/ \E r \in Nics : r.kindex = k /\ Inet(r.addr) = a
                     \/ \E r \in ToSet(kernel.inet6) :
                            r.kindex = k /\ [family |-> "inet6", bits |-> r.addr] = a
        IN /\ scon_ifnametokindex(if_list, n) = k
           /\ scon_ifindextoaddr(if_list, i) \in ToSet(scon_ifgetaliases(if_list))
                \/ scon_ifisloopback(if_list, i)
           /\ Of(scon_ifindextoaddr(if_list, i)) /\ Of(scon_ifkindextoaddr(if_list, k))
           /\ Of(scon_ifnametoaddr(if_list, n))
           /\ scon_ifindextoaddr(if_list, i).family = "inet" =>
                \E r \in Nics : /\ r.name = n /\ r.mac = scon_ifindextomac(if_list, i)
                               /\ prefix(r.netmask) = scon_ifindextomask(if_list, i)
                               /\ r.loopback = scon_ifisloopback(if_list, i)
           /\ scon_ifkindextoname(if_list, k) = n \/ \E m \in DOMAIN if_list : m < j /\ if_list[m].kindex = k

\* An address is local exactly if an interface that is up has it; never if the
\* user asked not to resolve. Zero is left out: an address of the other family
\* reads as zero.
LocalIsOwn ==
    Known => \A a \in Addresses \ {{}} :
                scon_ifislocal(if_list, Inet(a))
                    <=> (~scon_if_do_not_resolve /\ \E n \in Nics : n.addr = a)

\* The NIC that is found for an address has the address in one of its networks,
\* and an address in the network of a NIC finds one. Networks of a whole
\* address are left out: their mask is undefined.
OnTheSameNetwork ==
    Known => \A a \in Addresses :
        LET k == scon_ifaddrtokindex(if_list, Inet(a))
            near == {n \in Nics : n.netmask \notin {{}, AllBits} /\ InNet(a, n)}
        IN (\A n \in Nics : n.netmask \notin {{}, AllBits}) =>
               /\ k # -1 => \E n \in near : n.kindex = k
               /\ near # {} => k # -1

\* A NIC with one address matches a text exactly if the text is its name or a
\* network, written without bits of the host, that has its address.
MatchIsMembership ==
    Known => \A n \in Nics, t \in Texts :
        LET single == \A m \in Nics : m.kindex = n.kindex => m = n
            masked == t.kind = "name" \/ t.mask.kind = "none" \/ t.mask.kind = "bits"
            hit == IF t.kind = "name" THEN t.name = n.name
                   ELSE LET len == IF t.mask.kind = "bits" THEN t.mask.bits
                                   ELSE FieldBits * Len(t.fields)
                        IN n.addr \cap Prefix(len) = Assembled(t.fields)
        IN single /\ masked =>
               LET rc == scon_ifmatches(if_list, n.kindex, <<t>>)
               IN rc # "bad" => (rc = "success" <=> hit)

\* With a list of private networks that can be read, an address is public
\* exactly if it is in none of them.
PublicIsUnlisted ==
    \A l \in Listed :
        LET nets == scon_net_init(l)
        IN (\A i \in DOMAIN nets : nets[i] # Unread /\ nets[i].addr # {} /\ nets[i].bits < AddrBits) =>
               \A a \in Addresses :
                   scon_net_addr_isipv4public(nets, a)
                       <=> \A i \in DOMAIN l : a \cap Prefix(l[i][Fields + 1])
                                                 # Assembled(SubSeq(l[i], 1, Fields))

\* The two parsers of ranges agree on lists that both read: the ports between
\* the starting and ending points are the ports that are listed.
RangesAgree ==
    (\A i \in DOMAIN ranges : ~ranges[i].minus /\ Len(ranges[i].parts) < 3) =>
        LET r == scon_util_get_ranges(ranges)
        IN UNION {r.start[i]..r.end[i] : i \in DOMAIN r.start}
             = ToSet(scon_util_parse_range_options(ranges))

\* What is asked about the interfaces and the networks of the host has one
\* answer, however it is asked.
InterfacesHold ==
    /\ IfTypeOK /\ WalkMeetsAll /\ LookupsAgree /\ LocalIsOwn
    /\ OnTheSameNetwork /\ MatchIsMembership /\ PublicIsUnlisted /\ RangesAgree
=============================================================================
