# A TLA+ verification of SCON

SCON, the Scalable Overlay Network, is a C library that gives the processes of a
parallel job an overlay to communicate on: routed point-to-point messages,
broadcast (`xcast`), `barrier` and `allgather`. This directory models its
collectives, routing trees, event loops, TCP connections, the matching of messages to
receives, the life of a SCON, its progress threads, and the libraries under them; it
checks the models with TLC and proves the most important properties with TLAPS.

Paths below are relative to `src/src/` unless they say otherwise.

## 1. The system

| component | state it keeps | operations | hard because | modules |
|---|---|---|---|---|
| `mca/collectives/base` | `coll_table` (last sequence number per member list), `ongoing` (trackers) | `api_xcast`, `api_barrier`, `api_allgather`, the `process_*` events, `get_tracker` | reports come before the call; numbers are reused; two threads at the master | Gather, TreeCollective, Collectives |
| `mca/collectives/default` | trackers: request, `nreported`, `nexpected`, bucket | `xcast`, `allgather`, `barrier`, their receive handlers and releases | successive rounds overlap; a member is released before another | the same |
| `mca/collectives/brucks`, `rcd` | the same, with masks of distances | direct exchanges between ranks | steps are received out of order; an early message makes a tracker | Exchange |
| `mca/topology/radixtree`, `binomtree` | own parent, children, per child a bitmap of the ranks below | `update_topology`, `get_nexthop`, `get_routing_list`, `route_lost` | every member computes its part alone; links are lost | Topology, Routing |
| `mca/pt2pt/base`, sending | event bases, contact information | `send_nb`, `process_send`, forwarding | sends to ourselves, forwarded and received messages share queues | EventLoops, Matching |
| `mca/pt2pt/base`, receiving | `posted_recvs`, `unmatched_msgs` of a SCON | `recv_nb`, `process_recv_msg`, deletion in a callback | a message before its receive; persistent and wildcard receives; a search while a receive is posted | Matching |
| `mca/pt2pt/tcp`, connections | per peer: state, socket, events, addresses, send queue | set-up, handshake, retry, accept, send and receive handlers, close | both ends connect at once; stale events; resets | TcpConnection |
| `mca/pt2pt/tcp`, component and listener | listeners, descriptors, ports, what the peer knows | register, query, start, accept, contact information, shutdown | many calls, each of which may fail half-way | TcpContact |
| `mca/comm` | SCON objects, their handles and state | create, wire-up, delete | members create and delete at different times; handles are reused | SconLifecycle |
| `runtime` | progress threads by name, reference counts | init, finalize, pause, resume, the engine | shared threads; a wake-up that is forgotten | ProgressThreads |
| `mca/base` | variables, enumerators, frameworks, components, the repository | register, set, open, select, close | precedence of sources; reference counts of libraries that hold their own lists | Variables, Enumerators, Components |
| `class` | hash tables, lists, pointer arrays, rings, hotels, bitmaps | insert, remove, grow, traverse | a removal moves elements; growing; the last free place | KeyValues, HashTable, Lists, LinkedList, PointerArray, RingBuffer, Hotel, Bitmap |
| `buffer_ops` | buffers, the table of types | pack, unpack, load, unload, copy | widths differ between hosts; growth; ownership of what is copied | Buffers, Values |
| `mca/if`, `util` | the list of interfaces | open, look-ups, parsing of ranges; checksums | loops that stop half-way; checksums over pieces | Interfaces, Checksum |

**Interaction.** A user's call on `scon_allgather` becomes an event of
`scon_globals.evbase`; that event makes a tracker and sends the contribution to
the member itself. `pt2pt/base` posts a message to ourselves directly and hands
any other to the TCP module, for the next hop `topology` names. A received
message runs, on `pt2pt_evbase`, the receive callback of its tag
(`allgather_recv`, `xcast_recv`, ...), or is forwarded. A TCP member that loses a
hop calls the topology's `route_lost`. `comm/native` creates a SCON with an allgather
and an xcast and deletes it with a barrier. The two event bases are one, with one
thread, everywhere but at the master (rank 0, `SCON_PROC_IS_MASTER`); the type
"interim node" also has two, but nothing gives a process this type.

**What makes each part correct.**

- Collectives: nobody is released before everyone has called, everybody is
  released, once, with everyone's contribution, in the round that was called;
  nothing is left that a later round takes for its own.
- Topologies: what members compute alone fits together to one tree; a message
  for any member arrives; an xcast reaches every member once, in one order.
- Connections: the two ends agree on one connection; queued messages survive the
  choice, in order, each once; nobody gives up on a peer that is there.
- Matching: a message is handed over once, to a receive that was posted for it, in
  order; it waits only where no receive fits it.
- SCONs: a create or a delete completes only when everyone has called it; a message
  reaches the SCON that it was sent on.
- Threads: what is held is run; what is freed is no longer run.
- Libraries: each class is what it is named after (a map, a sequence, a queue, a set);
  a library is loaded while it is used; a variable takes its value from the strongest
  source; what is packed is unpacked; a copy shares with its original at most what it is known to share.

`PROJECT.json` lists the hazards, each at its line, with the properties that
watch it or the reason why none does.

## 2. Modules

    Gather                 what allgather and barrier promise
      ^ refined by (proved, and checked)
    TreeCollective         one collective on any tree
      ^ refined by (checked, for one event base), ^ its assumption on the tree is
      | by the mapping of OneCollective           |   proved of Topology
    Collectives            successive collectives |
      extends EventLoops   and xcasts             |
    Topology  ------------------------------------+
      ^ extended by
    Routing                messages and xcasts on the tree, lost links
    SconLifecycle          creating and deleting SCONs; extends EventLoops
    Matching               messages and receives
    TcpConnection          one connection between two members
    TcpContact             listening, and who learns of it; extends Interfaces
    Exchange               the allgathers without a tree
    ProgressThreads        threads with reference counts
    KeyValues, Lists       what a table and a list promise
      ^ refined by (checked)
    HashTable, LinkedList

`Picking` has an operator that some of them share. A proof module is named after its
component (`TreeCollectiveProofs`, `RoutingProofs`, `CollectivesProofs`,
`MatchingProofs`, `TcpConnectionProofs`, `ProgressThreadsProofs`); `PickingProofs` has the
lemmas on lists that they share.

The `MC*` modules give constants their values. `MCTrees`, `MCProcess`, `MCServices` and
`MCLibrary` each instantiate several parts and run them one at a time: a variable
`part` says which, and what is not run stays as it is.
`MCTrees` and `MCCollectives` take parents and branches from `Topology`, so those runs
are on the trees that the code builds.

### TreeCollective

One collective of `collectives/default/collectives_default.c`. `tracker[p]` is the
`scon_collectives_tracker_t` of a member, `net` the messages that are sent and not
handled. `Call` is `process_allgather`/`process_barrier` with the module's
`allgather`/`barrier`; `DirectRecv`, `XcastRecv` and `ReleaseRecv` are the receive
handlers. A buffer is how often each member's contribution is in it, so losing or
doubling one shows. Barrier and allgather run the same code but for the payload;
`kind` chooses. Messages are delivered in any order, which is more than the
connections do: what holds here does not rest on their order.

### Topology and Routing

`Topology` translates the loops of `topology_radix.c` and `topology_binomial.c` (parent,
children, relatives bitmaps, `get_nexthop`) for any rank. In `Routing` a message
goes from member to member by `get_nexthop`, or an xcast by `get_routing_list`,
while links may be lost. A radix of 0, which the parameter allows, would never end the
loop of `radix_tree`; `RoutingAssumption` excludes it.

### EventLoops and Collectives

`EventLoops` has the queues of the two event bases of each member and FIFO
connections between neighbours. Events of one base run in order; a base polls its
sockets only when its queue is empty (`draining`), which is libevent's loop, and
decides what can happen between two handlers. `Collectives` puts on this the API
calls, the sequence numbers, the list of trackers and every handler. At a master
with two threads `get_tracker` is split in two (`creating`): the search, and the
append; a release is split in three (`releasing`): the callback, the table, the tracker.
`log` is the history of callbacks; `round` is the number of the call, which
the code does not know. A release that meets a tracker without a request sets
`crashed`: `SCON_RELEASE(NULL)` (collectives_default.c:873 and :941), and a call that takes a
tracker while the other thread releases it may.

### TcpConnection

Two members, both of which may send. `peer[p]` is the `scon_pt2pt_tcp_peer_t`,
`queue[p]` the events of the module's base, `conns` the sockets. Each handler is an
action: `ProcessSetPeer`, `ProcessSend`, `TryConnect`, `CompleteConnect`,
`WriteMessage`, `ReadConnectAck`, `ReadMessage`, `Accept` and the component's
bookkeeping. `Poll` puts the ready socket events in the queue in any order; an event
that is deleted meanwhile is taken out, as `event_del` does. Abstractions:

- a stream is a sequence of whole items (a connect-ack, a message); partial reads
  and writes, which the code resumes, are not told apart;
- file-descriptor numbers are not used again, and a descriptor closed twice does
  no harm;
- the host has one address per `set_peer`, and `connect()` on a socket that is
  connecting, connected or closed fails (EALREADY, EISCONN, EBADF);
- with `resets`, closing a socket with unread data may be seen by the other end as
  ECONNRESET, as TCP does, rather than as the end of the stream;
- `component_failed_to_connect` follows a pointer that nothing set
  (pt2pt_tcp_component.c:1085): it crashes the process or has no effect, and both
  are tried;
- after giving up (`FAILED`) the send queue is dropped, as in the code.

### Matching, SconLifecycle, Exchange, TcpContact

`Matching` has the lists of a SCON, `posted` and `unmatched`, and the two event bases;
`searched` is a thread between its search of the receives and the list it then puts the
message on. Deleting a SCON in a callback frees the receive that is being served, so
what is read after it is any value. `SconLifecycle` composes creating and deleting with
the queues of `EventLoops`: a message carries the sender's handle, and an instance, which
the code does not know, tells apart SCONs that have the same handle. Its master has two threads,
as built: `done` says where a handler has stopped, between the search for a receive and the list
of held messages, the search for a tracker and its append or count, a message posted to itself
and the handle read after it, and the steps of a release. `Exchange` counts
contributions per member, and keeps every outcome where the code reads freed memory, or (rcd) packs
into a buffer that it took from `malloc` and did not construct: the buffer looks empty, packing
or copying fails, or the process ends (`heap`).
`TcpContact` takes the interfaces from `Interfaces`, opens listeners, and gives the peer
the contact information of the owner; a descriptor is a number that is given once.

### Libraries

One module for each: the state is the C structure, an action is a function.
`HashTable` hashes and probes as the code does and implements `KeyValues`; `LinkedList`
has the links in both directions and implements `Lists`. `Buffers` has bytes in use and
allocated, and the wire format of each type at both widths of `size_t`; `Values` has a
heap with owners, so that what is shared, leaked or freed twice shows. `Variables` keeps
where each value came from. `Components` nests frameworks, the repository and the users
of both.

## 3. Runs

| run | what it asks | instance | distinct states |
|---|---|---|---|
| trees | one collective refines Gather, is safe and ends; messages and xcasts are routed on one tree and arrive | 5 members, binomial; routing on up to 9 members, radix 1, 2, 3 and binomial, 2 lost links | 127674 |
| coll_serial | rounds, signatures and trackers where every member has one thread; every call completes | 4 members, radix 2, one SCON, 2 rounds | 36928 |
| coll_one_round | refinement of TreeCollective where every member has one thread; every xcast arrives | chain of 3, 1 round, 1 xcast | 63480 |
| coll_master | what survives the master's second thread; the order of xcasts | chain of 3; 2 rounds and 1 xcast, or 4 xcasts | 1276984 |
| coll_pipelined | violation: two calls outstanding | 2 members, 3 rounds | |
| coll_race | violation: two threads, one list | 3 members, master threads | |
| tcp_races | one socket, nothing twice; where nothing fails everything arrives | 2 messages each way, 7 sockets, undisturbed or with a refusal, resets and a thread | 122956 |
| tcp_master | violation: attempt on an accepted socket | 1 message each way | |
| process | enumerators, threads, SCONs with two threads at the master | 2 names, 2 references; chain of 3, 4 programs of 3 calls; star of 3, 1 program | 116472 |
| process_held | violation: a message held beyond its receive | the same | |
| services | exchanges, matching, interfaces, contact | up to 4 members; 2 messages, 2 receives; hosts of up to 5 NICs | 139430 |
| library | the mca base, the classes, buffers, values, checksums | small instances of each | 330184 |

Properties of one run that ask the same question of one part are the conjuncts of one
definition: `ConnectionHolds` (types, and one socket), `NothingGoesWrong` (`InOrder`,
`NothingLost`, `AssertionsHold`, `NobodyGivesUp`), `MatchingHolds`, `ThreadsHold`,
`SconsHold`, `ExchangesHold`, `InterfacesHold`, `ContactHolds`, `VariablesHold`,
`ComponentsHold`, `ContainersHold`, `BuffersHold`, `ValuesHold`, `ChecksumsHold`,
`EnumeratorsHold`, `RoutedOnOneTree`, `SignaturesHold`, `TrackersHold`,
`MixedOnlyAtMaster`. Each conjunct has a name and a comment where it is defined.

Deadlock is not checked: every instance ends when its calls and messages are used
up. That nobody waits for ever is what the liveness properties show.

**Bounds.** Two rounds are enough for a signature to be used again at once, three
for a number that a pipelined release removed. The trees of 3 to 5 members have a
root, an inner member and a leaf, and (from 4 on) siblings of different depth. With up
to 9 members radix trees are cut off at every place of the third level, and binomial
trees go one past a power of two. `MaxConn`, the number of sockets, never stops a run
without faults. `MaxPerScon` and `MaxTotal` bound the calls a member has outstanding:
with one, and one thread at every member, the code keeps its promises; the
violations show which condition each promise needs. Rank 0 as built always has two threads
(pt2pt_base_component.c:42): `coll_serial` and `coll_one_round` say what the protocol does without
them, `coll_race` that they break it, and `coll_master` what is left. In `SconLifecycle` the chain has a member
between the others, and the master of the star two reports to count. `Exchange` runs with 1 to 4 members: powers
of two, which recursive doubling is for, and 3, where the other algorithm sends a final
message; one of them may find its buffers not empty (`MaxUnlucky`). Two messages and two receives are enough for a message before its receive, a wildcard, a persistent receive and an
overtaking. Hash tables of 3, 5 and 11 elements fill to their trigger, wrap around and grow
twice; rings of 1 to 3, two lists of 3 items, where insertions at 0 make the counts exceed the items
by up to 3 (`MaxCounted`), arrays with an odd and an even maximum, which they and bitmaps reach.

**Fairness.** Weak fairness of each member's handlers: the progress thread runs
`event_base_loop` until the library is finalised. Weak fairness of the calls: a
collective is called by every member, which is its precondition. In `TcpConnection`
hosts answer connection attempts. In `ProgressThreads` the hour of the long timeout
passes. Lost links, refusals, resets and failures of calls are never fair.

### Disagreements

Four runs refute a sentence of the repository. `PROJECT.json`, "findings", quotes them.

- `coll_pipelined`: the signature does not identify a collective (collectives.h:118),
  because a release removes the last sequence number while a later call is outstanding.
- `coll_race`: "we can safely access global data at this point"
  (collectives_default.c:272) is wrong at the master, where two threads run events.
- `process_held`: a message is held "until such a recv is issued" (recv_msg_handlers.c:171); at
  the master the receive may be posted between the search and the list, and the create of a SCON
  that waits for the message never completes.
- `tcp_master`: the loser of two simultaneous connections (pt2pt_tcp_connection.c:736)
  can give up on its peer and drop its messages.

### Seen while modelling

These follow from the models or from reading the code for them; no run is about them
because no text of the repository says otherwise, or because the model leaves the value open.

- *Collectives.* Two SCONs with the same members share an entry of `coll_table`
  (collectives_base_stubs.c:112): calls on both, made in a different order by two members, get
  numbers that do not agree. All runs have one SCON, so none shows it.
- *Life of a SCON.* A later SCON's create may never complete: its allgather's report comes
  while the receiver has no such handle and is dropped (comm_native_component.c:288).
  `SconsComplete` therefore speaks of the first SCON only. At the master, which sends a release
  to its children before itself, the report of their next create may come while its own SCON of
  that handle is still there; it is counted in the tracker of the delete and is gone with it
  (`RightScon` names the case). A number that its delete has not forgotten yet is counted on by
  the next create, which then waits for reports of another number. `Mixed` lists what the
  two threads do to the first SCON, and `SconsComplete` exempts just that. `scon_init` returns early on failure
  without taking its counter back, and `scon_finalize` never does.
- *Topologies.* After `route_lost` a message for that child, or for a member below it, goes
  upwards: at the root to nobody, at any other member to its parent, whose link leads back down
  (topology_radix.c:166). `RoutedOnOneTree` and `EverythingArrives` exempt what meets a lost link.
- *Exchange.* A handler releases the signature that the tracker it made points to (brucks:382,
  rcd:337); the logarithm of 0 is converted to an integer; rcd packs a count that it never
  unpacks (rcd:167, :299); the order of messages matters though a comment says it does not
  (brucks:312, rcd:276). rcd's send buffer and the buffers of early messages are not constructed
  (rcd:151, :323), so that the allgather ends only if memory happens to look like an empty buffer;
  what is not called back with an error is complete all the same. Both release a buffer, which is
  no object, as if it were one (brucks:209, rcd:236): a debug build stops there, others leak it,
  and the model leaks it.
- *Matching.* At the master an older message can be overtaken by a newer one, because two threads
  handle them (recv_msg_handlers.c:171); the receive of a deleted handle follows NULL (:68).
- *TCP.* A member with a thread of its own that gave up can still complete the connection on
  the socket it kept, and writes a second connect-ack, which the other posts as a message. A
  failed accept closes the listener's descriptor but keeps the listener. Descriptors of
  ports that are taken stay open. An IPv6-only contact says that the peer can be reached
  and stores no address (component.c:871).
- *Progress threads.* A loop that is told to break just before it starts forgets it
  (scon_progress_threads.c:131, :152), and the join waits for the hour's timer.
- *mca base.* A library that goes back on a list while it is retained is not counted
  (repository.c:370); a registration that fails leaves its count raised (framework.c:64); names of
  flags are compared with the flag of their own position (var_enum.c:497), and one behind the last
  with NULL, which ends the program unless it is the number 0; the source of a
  command-line value is looked up under another name (var.c:1072, :1673).
- *Lists.* `scon_list_insert` at 0 counts its item twice (scon_list.c:133, :153), although
  "the number of items in a list" is promised (scon_list.h:403). `damage` in `LinkedList` says so:
  the count is exact until that happens, and too high, never too low, after it; the links stay
  right. A join or a removal then takes the sentinel of a list without items for an item, and a
  sort appends it: what becomes of the links is not followed. Nothing in the repository calls
  `scon_list_insert`.
- *Arrays.* With an odd maximum, `set_item` and `test_and_set_item` take the last index and write
  behind the table (scon_pointer_array.c:305). The tables of types (maximum 255) and of SCONs
  (`INT_MAX`) have odd ones. `InsideTable` says that this is the only write outside; the model
  stops at it. The overflow of a size that is doubled up to `INT_MAX` is not modelled.
- *Bitmaps.* The maximum is compared both as words and as bits.
- *Values.* `value_xfer` of a name copies the pointer and as many bytes behind it as a name has
  (copy.c:348), so two values have one block, which a program that frees its names frees twice;
  arrays of infos share their bytes, and both free them (copy.c:956). `SharesNoMore` and
  `FreedAlone` say that this is all that is shared and all that is freed twice. A text in a copied
  array of infos is made of the bytes of a pointer, an array that is refused half-made is freed
  through NULL: no property forbids these (`fault`).
- *Buffers.* A value array of 65536 members or more is packed with a count of 16 bits
  (pack.c:808), beyond the samples of `BuffersHold`.
- *Components.* What calls that fail half-way leave behind is modelled, but exempted from
  `ComponentsHold` and `ChoicesStay` (`failed`, `reused`).

## 4. Proofs

All theorems hold for every value of the constants that satisfies the named assumptions.
The assumptions about a tree (`TreeAssumption`) are discharged: `RoutingProofs` proves that the trees of
the code are trees.

**TreeCollectiveProofs**: `TypeCorrect`, `ReleaseFindsRequestAlways`, `NoOvercountAlways`,
`CleanAtEndAlways` and `Implements` (`Spec => ImplementsGather`). None of the safety properties
is inductive. `Invariance` proves one that is, `IInv`:

- `NetInv`: every message on its way carries the contents it should, and its sender had
  reason to send it (it called, it heard from all under it, or the master did);
- `TrackerInv`: until a member is released, `nreported` is the number of sources it has
  heard from, and its bucket holds exactly the contributions of their branches;
- `DoneInv`: a released member has had one callback, no tracker, and the full result;
- `BranchInv`: a member that has heard from all under it has its whole branch behind it,
  with no report still travelling there: so a roll-up at the master means that everyone
  has called;
- `XcastInv`, `ReleaseInv`: a broadcast or a release goes only to members that are not
  released yet, whose tracker and request are therefore still there.

The disjointness of branches gives "exactly once" in an allgather. `Implements` maps the
variables of `Gather` to those of the same name: `Call` is `Call`, a `ReleaseRecv` that finds
its request is `Callback`, the rest are stutters.

**CollectivesProofs**: `XcastsInOrderAlways`: on every tree, with any number of origins and
xcasts, with one or two threads at the master and whatever collectives run beside them, all
members receive the xcasts in one order, each at most once, those of one origin as it sent
them and none left out. `XcastsInOrder` speaks only of what users have received; `XcastInv`
adds what is on its way:

- `RouteInv`: an event is on the base where it belongs, and a message only at its source, its
  target or, for an xcast that climbs to the master, a member above its origin;
- `DownInv`: what a parent has seen is what its child has seen and then what the link between
  them carries, in the order of the link (the receiver's queue, the connection, the sender's
  queue); seen are the xcasts received and those posted to oneself for the user;
- `UpInv`: the numbers of one origin that have not left the master stand in line from the master
  down to the origin's own requests, ascending, above those that have left, none missing up to
  the last one issued;
- the master has seen them in order.

What a handler takes from the head of a queue and what it posts is drawn from the queues by
`Drawn`; each step of the transport, and each handler, is described once by what it does to
that. A step of a collective leaves the xcasts alone (`QuietStep`). The least member that had
seen what the master has not would be ahead of its parent.

**RoutingProofs**: `TopologiesAreTrees`: the parents, children and branches that the loops of
the two topologies compute are one tree, for every number of members and every radix from 1 (the
radix tree by the levels and their sizes, the binomial tree by the highest bit).
`RoutedOnOneTreeAlways` rests on `IInv`: what members computed; links only of that tree;
`OnItsWay`: a message climbs out of branches where its target is not, or descends to it and has
not been below; `Relayed`: an xcast comes to a member after its parent.

**MatchingProofs**: `MatchingHoldsAlways`. `IInv` says what is in the queues and lists
(`TypeInv`), where it may be (`PlaceInv`), that a receive is pending or posted, once (`PendInv`),
that each message is in exactly one place (`NumInv`), how many there are (`SendInv`); that a
posted receive that fits a waiting message has an event in the queue that will take it, by a map
from receives to events that keeps their order (`ClaimInv`); and that the messages a persistent
receive has got and will get are in order, but for those that waited as it was posted
(`OrderInv`).

**ProgressThreadsProofs**: `ThreadsHoldAlways`. `IInv`: a name without tracker has no thread;
the count is what the users hold; what is held is active or paused; a thread that was told to
end is being joined.

**TcpConnectionProofs**: `ConnectionHoldsAlways`: whatever is refused, reset or given up and
whoever has a thread of its own, two members that believe themselves connected use one socket.
`ConnInv`: events in the queue belong to sockets in use, at most one of a kind for each
(`QueueInv`, `PeerInv`); the lower rank may fail while the other is connected (`LowerInv`), the
higher never steps aside (`HigherInv`); a socket that has not been accepted carries only
connect-acks and its maker is not connected (`SocketInv`); a member that has seen an
acknowledgement has chosen that socket (`ChoiceInv`).

`NeverTwiceAlways`, on top of it: what a member still has to send is in order (`SendAt`) and
behind all it has written (`SentAt`); what the other can still read rises and is above all it
has received (`StreamAt`).

**PickingProofs** has no listed theorem: `Picked`, which takes elements out of a list, and
`Drawn`, which maps those of a list for which a function is defined, are recursive functions;
the one is described by an order-preserving choice of places, the other by what it draws from
lists in a row.

**Assumptions.** `TreeCollective` and `EventLoops`: `NAssumption`, `ParentAssumption`,
`TreeAssumption`; `EventLoops` also `ThreadsAssumption`, `Collectives` `SconsAssumption` and
`BoundsAssumption`. `RoutingProofs` shows the tree assumptions true of the code's trees: a parent
comes before its children, a branch is the children and their branches, and no two branches of
a member meet.
`Routing`: `RoutingAssumption` (topologies with at least one member, a radix of at least 1).
The other modules assume only what their `ASSUME`s name: that constants are numbers, or finite
sets. TLC evaluates all of them in the runs.

**Only model-checked.** Liveness and the fairness it rests on are out of the prover's reach:
`EverythingArrives`, `EveryCallCompletes`, `EveryXcastArrives`, `EveryMessageArrives`,
`SconsComplete`, `ShutDownInTheEnd`, `ExchangeCompletes`, `ServedOrHeld`. `Buffers` and `Values`
declare recursive operators, of which nothing can be proved here. Where a proof needs
induction over data it is written as the choice of a least counterexample (`Least` in
`PickingProofs` and `RoutingProofs`). Not proved, and checked only on the
instances above: what `Collectives` promises of rounds, with one thread (`CallbackCarriesItsRound`,
`SignaturesHold`, `TrackersHold`, `ImplementsTree`) and with two (`MixedOnlyAtMaster`,
`XcastBeforeRelease`),
`NothingGoesWrong`, `SconsHold`, `ExchangesHold`, `InterfacesHold`, `ContactHolds`,
`EnumeratorsHold`, `VariablesHold`, `ComponentsHold`, `ContainersHold`, `BuffersHold`,
`ValuesHold`, `ChecksumsHold`, and the refinements of
`KeyValues` and `Lists`.

## 5. Not modelled

- Printing, error texts, output streams, argument vectors, paths, the environment, lexers:
  text without a protocol.
- Objects (reference counts in macros) and value arrays.
- `pt2pt/ofi`, which is a header; build files and tests.
- The sequences of `scon_init` and `scon_finalize` (what was seen there is above).
- Partial reads and writes, write errors and authentication of TCP; more than one address.
- Collectives over a part of the members, or over trees that lose links; errors of packing
  inside the collectives.
- PMIx, `dlopen` and the kernel, which are modelled by what the code asks of them.
