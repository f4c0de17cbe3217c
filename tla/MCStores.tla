------------------------------ MODULE MCStores -------------------------------
(***************************************************************************)
(* What the controller keeps in its database and its object store, checked *)
(* in one run: a behaviour is about one component, its focus, and the      *)
(* others stay as they begin.  Its cast says which actors take part and    *)
(* how often things go wrong.                                              *)
(***************************************************************************)
EXTENDS PcapIndex, LiveJobs, IndexedExport

CONSTANT Foci   \* the components to check

VARIABLES focus, cast

One(S) == {CHOOSE x \in S : TRUE}

-----------------------------------------------------------------------------
(* The indexes.                                                            *)

\* A segment and two index workers; an upload and two posting workers; two
\* uploads, and two segments, that compete for one place in a queue.
IndexCasts ==
    {[sources |-> One(Segments), hands |-> IndexWorkers \cup One(PostingWorkers), tries |-> MaxAttempts + 1],
     [sources |-> One(Uploads), hands |-> PostingWorkers, tries |-> MaxAttempts + 1],
     [sources |-> Uploads, hands |-> One(PostingWorkers), tries |-> 1],
     [sources |-> Segments, hands |-> One(IndexWorkers), tries |-> 1]}

IndexCast ==
    /\ \A s \in CaptureSources : IF s \in cast.sources THEN ptask'[s].attempt <= cast.tries
                                 ELSE capture'[s] = "none"
    /\ \A s \in Segments : task'[s].attempt <= cast.tries
    /\ \A u \in Uploads : indexing'[u].build <= cast.tries
    /\ \A w \in IndexWorkers \ cast.hands : worker'[w] = Idle
    /\ \A p \in PostingWorkers \ cast.hands : poster'[p] = NoPoster

-----------------------------------------------------------------------------
(* Live jobs.                                                              *)

\* A local controller that restarts, and a client that cancels; a sensor that starts
\* over, with a restart of a durable controller; two sensors that share three packets.
LiveCasts ==
    {[local |-> TRUE, limit |-> 1, replaced |-> 0, restarts |-> 1, cancels |-> TRUE],
     [local |-> FALSE, limit |-> 1, replaced |-> 1, restarts |-> 1, cancels |-> TRUE],
     [local |-> FALSE, limit |-> 3, replaced |-> 0, restarts |-> 0, cancels |-> FALSE]}

LiveCast ==
    /\ liveMishaps'.replaced <= cast.replaced /\ liveMishaps'.restarts <= cast.restarts
    /\ cast.cancels \/ canceller' = canceller

-----------------------------------------------------------------------------
(* Indexed exports.                                                        *)

Pkt(src, dst, sport, dport, proto, payload) ==
    [src |-> src, dst |-> dst, sport |-> sport, dport |-> dport, proto |-> proto, payload |-> payload,
     supported |-> TRUE, time |-> 1, link |-> 1]

Out == Pkt("in", "out", 1, 2, "tcp", TRUE)
Back == Pkt("out", "in", 2, 1, "tcp", FALSE)
Ping == Pkt("in", "out", Absent, Absent, "icmp", TRUE)
Inner == Pkt("in", "near", 2, 2, "udp", TRUE)
Other == [Out EXCEPT !.supported = FALSE]
Early == [Out EXCEPT !.time = -1]

Capture(format, sensor, blocks) == [format |-> format, sensor |-> sensor, blocks |-> blocks]

Plain == Capture("PCAP", "s1", <<ClassicPacket(Out, 4), ClassicPacket(Back, 0), ClassicPacket(Out, 4)>>)
Mixed == Capture("PCAP", "s1", <<ClassicPacket(Out, 4), ClassicPacket(Back, 4), ClassicPacket(Ping, 4), ClassicPacket(Inner, 4), ClassicPacket(Other, 4)>>)
Short == Capture("PCAP", "s2", <<ClassicPacket(Out, 4)>>)
Modern == Capture("PCAPNG", "s2", <<NgBlock("section", 28), NgBlock("interface", 20), NgPacket(Out, 4),
                                    NgBlock("other", 12), NgPacket([Out EXCEPT !.link = 2], 4), NgPacket(Early, 3)>>)
Simple == Capture("PCAPNG", "s2", <<NgBlock("section", 28), NgBlock("interface", 20), NgPacket(Out, 4), NgBlock("simple", 16)>>)
Hollow == Capture("PCAPNG", "s2", <<NgBlock("section", 28), NgBlock("interface", 20)>>)

AnyPacket == [candidate |-> Absent, host |-> Absent, window |-> {-1, 1}, port |-> Absent, proto |-> Absent, dir |-> Absent,
        sensor |-> Absent, internal |-> {"in", "near"}, include |-> {}, exclude |-> {}]
AnyGroup == [net |-> Absent, dir |-> Absent, proto |-> Absent, port |-> Absent, sport |-> Absent, dport |-> Absent, payload |-> Absent]

Ample == [gap |-> 60, range |-> 60, ranges |-> 9, fetched |-> 200, amplification |-> 9, share |-> 1, parts |-> 1]
Tight == [Ample EXCEPT !.gap = 15, !.range = 24, !.ranges = 2, !.amplification = 2]

Request(captures, mode) ==
    [captures |-> captures, mode |-> mode, query |-> AnyPacket, maxBytes |-> 400, maxPackets |-> 9, maxResults |-> 9, maxOutput |-> 400,
     limits |-> Ample, batch |-> 2, aborts |-> FALSE, flows |-> <<>>, sensor |-> "s1", meddling |-> 0]

\* Budgets around every boundary.
Budgets ==
    UNION {{[Request(cs, m) EXCEPT !.maxBytes = b, !.maxPackets = n] : b \in 1..130, n \in 1..5, m \in {"off", "active", "legacy"}} :
              cs \in {<<Plain, Short>>}} \cup
    {[Request(<<Short, Modern>>, m) EXCEPT !.maxBytes = b, !.maxPackets = n] : b \in 20..240, n \in {2, 3, 5}, m \in {"off", "shadow"}}

\* Groups with up to two conditions
Groups == {g \in [net : {Absent, {"out"}, {"near"}}, dir : {Absent, "OUTBOUND", "INBOUND", "UNKNOWN"}, proto : {Absent, "tcp", "udp"},
            port : {Absent, 2, 1}, sport : {Absent, 1, 2}, dport : {Absent, 2}, payload : {Absent, TRUE}] :
               Cardinality({f \in DOMAIN g : g[f] # Absent}) \in 1..2}

Queries ==
    {[Request(<<Mixed>>, "shadow") EXCEPT !.query.include = {g}] : g \in Groups} \cup
    {[Request(<<Mixed>>, "shadow") EXCEPT !.query.exclude = {g}] : g \in Groups} \cup
    {[Request(<<Mixed, Short>>, "shadow") EXCEPT !.query = q] :
        q \in {[AnyPacket EXCEPT !.host = "near"], [AnyPacket EXCEPT !.candidate = "out", !.host = "near"], [AnyPacket EXCEPT !.port = 1],
               [AnyPacket EXCEPT !.proto = "icmp"], [AnyPacket EXCEPT !.dir = "INBOUND"], [AnyPacket EXCEPT !.sensor = "s2"], [AnyPacket EXCEPT !.window = {-1}],
               [AnyPacket EXCEPT !.candidate = "in", !.proto = "udp", !.port = 1]}}

Outputs == {[Request(cs, m) EXCEPT !.maxOutput = b] : b \in 20..170, m \in {"off"}, cs \in {<<Modern>>, <<Plain, Short>>, <<Plain>>}}
           \cup {[Request(<<Plain>>, "active") EXCEPT !.limits = Tight, !.query.exclude = x, !.maxOutput = b] : x \in {{}, {[AnyGroup EXCEPT !.payload = FALSE]}}, b \in {24, 400}}

Odd == {Request(<<c>>, m) : c \in {Simple, Hollow}, m \in {"off", "active", "legacy"}}
       \cup {[Request(<<>>, "active") EXCEPT !.flows = f, !.maxBytes = b, !.maxPackets = n] :
               f \in {<<>>, <<[source |-> 1, ordinal |-> 0, cap |-> 4, packet |-> Out], [source |-> 1, ordinal |-> 1, cap |-> 4, packet |-> Back]>>},
               b \in {3, 4, 8}, n \in 1..2}

Raced == {[Request(<<Plain, Short>>, m) EXCEPT !.meddling = 2, !.aborts = TRUE, !.maxBytes = b] : m \in {"active", "shadow"}, b \in {60, 400}}
         \cup {[Request(<<Modern, Plain>>, "active") EXCEPT !.meddling = 2]}

AllRequests == Budgets \cup Queries \cup Outputs \cup Odd \cup Raced
-----------------------------------------------------------------------------
Casts == CASE focus = "index" -> IndexCasts
           [] focus = "live" -> LiveCasts
           [] focus = "indexed" -> {<<>>}

StoresInit ==
    /\ focus \in Foci
    /\ cast \in Casts
    /\ PcapIndexInit
    /\ LiveInit
    /\ IndexedInit /\ (focus # "indexed" => request = CHOOSE r \in Odd : TRUE)
    /\ setup = IF focus = "live" THEN [local |-> cast.local, limit |-> cast.limit]
               ELSE CHOOSE x \in [local : LocalModes, limit : PacketLimits] : TRUE

StoresNext ==
    /\ \/ focus = "index" /\ PcapIndexNext /\ IndexCast
       \/ focus = "live" /\ LiveNext /\ LiveCast
       \/ focus = "indexed" /\ IndexedNext /\ meddles' <= request.meddling
    /\ focus # "index" => UNCHANGED indexVars
    /\ focus # "live" => UNCHANGED liveVars
    /\ focus # "indexed" => UNCHANGED indexedVars
    /\ UNCHANGED <<focus, cast>>

storesVars == <<focus, cast, indexVars, liveVars, indexedVars>>

StoresSpec == StoresInit /\ [][StoresNext]_storesVars
=============================================================================
