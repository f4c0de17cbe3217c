---------------------------- MODULE CaptureScan -----------------------------
(***************************************************************************)
(* What an export does with the bytes of a capture: the bounded scan that  *)
(* admits a prefix of it, the structural index, the postings and the       *)
(* candidates they give a query, the byte ranges of the selected packets,  *)
(* and the writer that puts the matching packets into a capped artifact.   *)
(*                                                                         *)
(* A capture is its format and the blocks after the classic header, each   *)
(* with its size on disk.  A packet is the fields the filters read, the    *)
(* interface it came in on and whether the decoder understands it.         *)
(***************************************************************************)
EXTENDS Integers, FiniteSets, Sequences, SequencesExt

CONSTANT Absent   \* a field that is missing, a condition that is not set

Bytes(blocks) == FoldLeft(LAMBDA n, b : n + b.size, 0, blocks)

HeaderBytes(c) == IF c.format = "PCAP" THEN 24 ELSE 0

CaptureBytes(c) == HeaderBytes(c) + Bytes(c.blocks)

\* What each block takes beyond the packet's own bytes, before and after them.
ClassicPacket(p, cap) == [kind |-> "packet", size |-> 16 + cap, cap |-> cap, packet |-> p]
NgPacket(p, cap) == [kind |-> "packet", size |-> 32 + ((cap + 3) \div 4) * 4, cap |-> cap, packet |-> p]
NgBlock(kind, size) == [kind |-> kind, size |-> size]

-----------------------------------------------------------------------------
(* The bounded scan.                                                       *)

NothingAdmitted == [units |-> 0, bytes |-> 0, packets |-> 0, byteLimited |-> FALSE, packetLimited |-> FALSE]

CutShort(scan) == scan.byteLimited \/ scan.packetLimited

\* Too little budget for a global header admits nothing at all.
PrepareInitial(c, maxBytes) ==
    IF maxBytes < 24 THEN [NothingAdmitted EXCEPT !.byteLimited = TRUE]
                     ELSE [NothingAdmitted EXCEPT !.bytes = HeaderBytes(c)]

PacketLimitReached(scan, maxPackets) == scan.packets >= maxPackets

\* The next record of a classic capture, or block of a PCAPNG one: first the budget
\* for its smallest form, then the packet limit, then its real length.
PrepareUnit(c, maxBytes, maxPackets, scan, block) ==
    LET over   == CaptureBytes(c) > maxBytes
        left   == maxBytes - scan.bytes
        least  == IF c.format = "PCAP" THEN 16 ELSE 12
        packet == block.kind \in {"packet", "broken"}
    IN  CASE CutShort(scan) -> scan
          [] over /\ left < least -> [scan EXCEPT !.byteLimited = TRUE]
          [] packet /\ PacketLimitReached(scan, maxPackets) -> [scan EXCEPT !.packetLimited = TRUE]
          [] over /\ block.size > left -> [scan EXCEPT !.byteLimited = TRUE]
          [] OTHER -> [scan EXCEPT !.units = @ + 1, !.bytes = @ + block.size,
                                   !.packets = IF packet THEN @ + 1 ELSE @]

BoundedScan(c, maxBytes, maxPackets) ==
    FoldLeft(LAMBDA scan, block : PrepareUnit(c, maxBytes, maxPackets, scan, block),
             PrepareInitial(c, maxBytes), c.blocks)

\* The prefix of a capture that was read whole: the same, but only a classic capture
\* needs the room for its header.
BoundedPrefix(c, maxBytes, maxPackets) ==
    FoldLeft(LAMBDA scan, block : PrepareUnit(c, maxBytes, maxPackets, scan, block),
             IF maxBytes < 24 /\ c.format = "PCAP" THEN [NothingAdmitted EXCEPT !.byteLimited = TRUE]
                                                  ELSE [NothingAdmitted EXCEPT !.bytes = HeaderBytes(c)], c.blocks)

\* The decoder over what was admitted: without a byte it has no magic to read, a
\* block it cannot use ends it, and a capture without a packet is an empty one.
DecodeError(c, scan) ==
    LET seen == SubSeq(c.blocks, 1, scan.units)
        bad  == {k \in DOMAIN seen : seen[k].kind \in {"broken", "simple"}}
    IN  CASE scan.bytes = 0 -> "INVALID_PCAP"
          [] bad # {} -> IF seen[Min(bad)].kind = "simple" THEN "UNSUPPORTED_PCAPNG_BLOCK" ELSE "INVALID_PCAP"
          [] scan.packets = 0 -> "EMPTY_PCAP"
          [] OTHER -> Absent

-----------------------------------------------------------------------------
(* The structural index: where each packet's record and data lie.          *)

Locator(c, k) ==
    LET record == HeaderBytes(c) + Bytes(SubSeq(c.blocks, 1, k - 1))
    IN  [record |-> record, data |-> record + (IF c.format = "PCAP" THEN 16 ELSE 28),
         cap |-> c.blocks[k].cap, framed |-> c.blocks[k].size, packet |-> c.blocks[k].packet]

PacketBlocks(c) == SelectSeq([k \in DOMAIN c.blocks |-> k], LAMBDA k : c.blocks[k].kind = "packet")

StructuralPackets(c) == [n \in DOMAIN PacketBlocks(c) |-> Locator(c, PacketBlocks(c)[n])]

\* A strict scan of the whole capture gives an index or nothing.
Indexable(c) == PacketBlocks(c) # <<>> /\ \A k \in DOMAIN c.blocks : c.blocks[k].kind \notin {"broken", "simple"}

-----------------------------------------------------------------------------
(* The filter.  A query has one condition per field and groups of them.    *)

Direction(p, internal) ==
    CASE p.src \in internal /\ p.dst \notin internal -> "OUTBOUND"
      [] p.dst \in internal /\ p.src \notin internal -> "INBOUND"
      [] OTHER -> "UNKNOWN"

\* The port at the far side; a packet between two internal or two external hosts has none.
ServicePort(p, internal) ==
    CASE Direction(p, internal) = "OUTBOUND" -> p.dport
      [] Direction(p, internal) = "INBOUND" -> p.sport
      [] OTHER -> Absent

MatchesFilter(p, g, internal) ==
    /\ g.net # Absent => {p.src, p.dst} \cap g.net # {}
    /\ g.dir \in {Absent, Direction(p, internal)}
    /\ g.proto \in {Absent, p.proto}
    /\ g.port # Absent => ServicePort(p, internal) = g.port
    /\ g.sport # Absent => p.sport = g.sport
    /\ g.dport # Absent => p.dport = g.dport
    /\ g.payload \in {Absent, p.payload}

\* The compiled predicate of a request, on a packet of one sensor.
Matches(p, q, sensor) ==
    /\ q.candidate \in {Absent, p.src, p.dst}
    /\ q.host \in {Absent, p.src, p.dst}
    /\ p.time \in q.window
    /\ q.port \in {Absent, p.sport, p.dport}
    /\ q.proto \in {Absent, p.proto}
    /\ q.dir \in {Absent, Direction(p, q.internal)}
    /\ q.sensor \in {Absent, sensor}
    /\ q.include # {} => \E g \in q.include : MatchesFilter(p, g, q.internal)
    /\ \A g \in q.exclude : ~MatchesFilter(p, g, q.internal)

-----------------------------------------------------------------------------
(* The postings: for every dimension and value, the ordinals of the        *)
(* packets that have it, in chunks of delta-coded ordinals.                *)

\* What a packet is posted under; one that cannot be decoded only counts.
Memberships(p) ==
    {<<"ALL_PACKET", "">>} \cup
    (IF ~p.supported THEN {}
     ELSE {<<"SUPPORTED", "">>, <<"SRC_ADDRESS", p.src>>, <<"DST_ADDRESS", p.dst>>,
           <<"PROTOCOL", p.proto>>, <<"HAS_PAYLOAD", p.payload>>}
          \cup {<<"SRC_PORT", v>> : v \in {p.sport} \ {Absent}}
          \cup {<<"DST_PORT", v>> : v \in {p.dport} \ {Absent}})

\* Every ordinal as its distance to the one before, the first from minus one.
EncodeOrdinals(s) == [n \in DOMAIN s |-> IF n = 1 THEN s[1] + 1 ELSE s[n] - s[n - 1]]

DecodeOrdinals(deltas) == {FoldLeft(LAMBDA a, d : a + d, -1, SubSeq(deltas, 1, n)) : n \in DOMAIN deltas}

\* One chunk per key and batch of packets.
BuildPostings(packets, batch) ==
    LET keys == UNION {Memberships(packets[n]) : n \in DOMAIN packets}
        last == (Len(packets) - 1) \div batch
        Ordinals(key, b) == SelectSeq([n \in DOMAIN packets |-> n - 1],
                                      LAMBDA o : o \div batch = b /\ key \in Memberships(packets[o + 1]))
    IN  [key \in keys |-> {[chunk |-> b, ordinals |-> EncodeOrdinals(Ordinals(key, b))] :
                              b \in {b \in 0..last : Ordinals(key, b) # <<>>}}]

\* Mutant: only the first chunk of a term is read.
PostingValuesOfFirstChunk(postings, dimension, value) ==
    IF <<dimension, value>> \in DOMAIN postings
    THEN UNION {DecodeOrdinals(x.ordinals) : x \in {x \in postings[<<dimension, value>>] : x.chunk = 0}}
    ELSE {}

PostingValues(postings, dimension, value) ==
    IF <<dimension, value>> \in DOMAIN postings
    THEN UNION {DecodeOrdinals(x.ordinals) : x \in postings[<<dimension, value>>]}
    ELSE {}

\* Packets with an end in a network, by looking every address term up.
Endpoints(postings, net) ==
    UNION {PostingValues(postings, k[1], k[2]) :
              k \in {k \in DOMAIN postings : k[1] \in {"SRC_ADDRESS", "DST_ADDRESS"} /\ k[2] \in net}}

EitherPort(postings, port) ==
    PostingValues(postings, "SRC_PORT", port) \cup PostingValues(postings, "DST_PORT", port)

\* The postings know nothing of directions and service ports; a group without a condition
\* says nothing.
ExactGroup(g) == g.port = Absent /\ g.dir = Absent /\ \E f \in DOMAIN g : g[f] # Absent

\* What the postings can say of a group: the packets that may match it, all of the
\* universe where they hold nothing on a condition, and whether they are exactly the
\* ones that do.
GroupCandidates(postings, g, forExclude) ==
    LET universe == PostingValues(postings, "SUPPORTED", "")
        Under(dimension, v) == IF v = Absent THEN universe ELSE PostingValues(postings, dimension, v)
    IN  [may   |-> (IF g.net = Absent THEN universe ELSE Endpoints(postings, g.net))
                   \cap Under("PROTOCOL", g.proto) \cap Under("SRC_PORT", g.sport)
                   \cap Under("DST_PORT", g.dport) \cap Under("HAS_PAYLOAD", g.payload)
                   \cap (IF g.port = Absent \/ forExclude THEN universe ELSE EitherPort(postings, g.port)),
         exact |-> ExactGroup(g)]

\* The candidates of a query among the packets of one sensor's capture.
SelectCandidates(postings, q, sensor) ==
    LET universe == PostingValues(postings, "SUPPORTED", "")
        Host(a)  == IF a = Absent THEN universe ELSE Endpoints(postings, {a})
    IN  IF q.sensor \notin {Absent, sensor} THEN {}
        ELSE (universe \cap Host(q.candidate) \cap Host(q.host)
              \cap (IF q.port = Absent THEN universe ELSE EitherPort(postings, q.port))
              \cap (IF q.proto = Absent THEN universe ELSE PostingValues(postings, "PROTOCOL", q.proto))
              \cap (IF q.include = {} THEN universe
                    ELSE UNION {GroupCandidates(postings, g, FALSE).may : g \in q.include}))
             \ UNION {GroupCandidates(postings, g, TRUE).may :
                         g \in {g \in q.exclude : GroupCandidates(postings, g, TRUE).exact}}

-----------------------------------------------------------------------------
(* From ordinals to byte ranges.                                           *)

\* Where the first n records end.
EndOf(packets, n) == IF n = 0 THEN 24 ELSE packets[n].record + packets[n].framed

\* Mutant: the packet limit is looked at before the room for a record header.
StopsByByteLate(size, maxBytes, at, n, maxPackets) == size > maxBytes /\ n < maxPackets

\* Which limit a prefix of n packets stops at: the room for a record header is looked
\* at first, then the packet limit, then the length of the packet.
StopsByByte(size, maxBytes, at, n, maxPackets) == size > maxBytes /\ (maxBytes - at < 16 \/ n < maxPackets)

\* The prefix the bounded scan would admit, read off the structural index.
ClassicPrefix(packets, size, maxBytes, maxPackets) ==
    LET over  == size > maxBytes
        stops == {n \in 0..(Len(packets) - 1) : \/ over /\ maxBytes - EndOf(packets, n) < 16
                                                \/ n >= maxPackets
                                                \/ over /\ EndOf(packets, n + 1) > maxBytes}
        n     == IF stops = {} THEN Len(packets) ELSE Min(stops)
        short == n < Len(packets) /\ StopsByByte(size, maxBytes, EndOf(packets, n), n, maxPackets)
    IN  IF maxBytes < 24 THEN [packets |-> 0, bytes |-> 0, byteLimited |-> TRUE, packetLimited |-> FALSE]
        ELSE [packets |-> n, bytes |-> IF stops = {} /\ ~over THEN size ELSE EndOf(packets, n),
              byteLimited |-> short \/ (stops = {} /\ over), packetLimited |-> stops # {} /\ ~short]

\* A PCAPNG prefix is only read off the index when the whole capture fits the budget.
NgPrefix(packets, size, maxPackets) ==
    IF maxPackets < Len(packets)
    THEN [packets |-> maxPackets, bytes |-> packets[maxPackets + 1].record, byteLimited |-> FALSE, packetLimited |-> TRUE]
    ELSE [packets |-> Len(packets), bytes |-> size, byteLimited |-> FALSE, packetLimited |-> FALSE]

\* A packet joins the range before it when it is the next one, and the gap between
\* them and the range's length stay within the limits.
Joins(r, p, next, limits) ==
    /\ next
    /\ p.data - (r.offset + r.length) \in 0..limits.gap
    /\ p.data + p.cap - r.offset <= limits.range

\* Ranges over the data of the selected packets, in order; one without data needs none.
PlanRanges(packets, ordinals, limits) ==
    LET Place(plan, o) ==
            LET p == packets[o + 1]
                n == Len(plan.ranges)
                r == plan.ranges[n]
            IN  CASE p.cap = 0 -> [plan EXCEPT !.previous = o]
                  [] p.cap > limits.range -> [plan EXCEPT !.fits = FALSE]
                  [] p.cap \in 1..limits.range /\ n > 0 /\ Joins(r, p, o = plan.previous + 1, limits) ->
                        [plan EXCEPT !.previous = o,
                                     !.ranges[n] = [offset |-> r.offset, length |-> p.data + p.cap - r.offset,
                                                    slices |-> r.slices \cup {o}]]
                  [] OTHER -> [plan EXCEPT !.previous = o,
                                           !.ranges = Append(@, [offset |-> p.data, length |-> p.cap, slices |-> {o}])]
    IN  FoldLeft(Place, [ranges |-> <<>>, previous |-> -9, fits |-> TRUE],
                 SelectSeq([n \in DOMAIN packets |-> n - 1], LAMBDA o : o \in ordinals))

Fetched(ranges) == FoldLeft(LAMBDA n, r : n + r.length, 0, ranges)

Payload(packets, ordinals) == FoldLeft(LAMBDA n, p : n + p.cap, 0,
                                       [k \in 1..Cardinality(ordinals) |-> packets[SetToSortSeq(ordinals, <)[k] + 1]])

\* The ceilings on one source's ranges: never the whole of it, nor more than a share.
SourceRangesFit(ranges, size, limits) ==
    ranges # <<>> => Fetched(ranges) < size /\ Fetched(ranges) * limits.parts <= size * limits.share

\* The ceilings on a request: ranges, bytes, and bytes fetched for each selected one.
RequestRangesFit(ranges, payload, limits) ==
    /\ Len(ranges) <= limits.ranges /\ Fetched(ranges) <= limits.fetched
    /\ Fetched(ranges) <= payload * limits.amplification

-----------------------------------------------------------------------------
(* The artifact.                                                           *)

FitsOutput(size, need, maxOutput) == size + need <= maxOutput

\* Records go out whole, in order, until one does not fit the output limit: a classic
\* capture for one interface whose times fit it, else a PCAPNG one that describes an
\* interface together with the first packet of it.
BuildCapture(records, maxOutput) ==
    LET Interface(r) == <<r.source, r.packet.link>>
        early   == {Interface(records[n]) : n \in {n \in DOMAIN records : records[n].packet.time < 0}}
        classic == early = {} /\ \A m, n \in DOMAIN records : Interface(records[m]) = Interface(records[n])
        header  == IF classic THEN 24 ELSE 28
        Need(out, r) ==
            IF classic THEN ClassicPacket(r.packet, r.cap).size
            ELSE NgPacket(r.packet, r.cap).size
                 + (IF Interface(r) \in out.links THEN 0 ELSE IF Interface(r) \in early THEN 36 ELSE 20)
        Write(out, r) ==
            CASE out.full -> out
              [] ~out.full /\ FitsOutput(out.size, Need(out, r), maxOutput) ->
                    [out EXCEPT !.size = @ + Need(out, r), !.exported = @ + 1, !.links = @ \cup {Interface(r)}]
              [] OTHER -> [out EXCEPT !.full = TRUE]
    IN  IF maxOutput < header THEN [error |-> "PCAP_EXPORT_LIMIT_EXCEEDED", size |-> 0, exported |-> 0]
        ELSE FoldLeft(Write, [error |-> Absent, format |-> IF classic THEN "PCAP" ELSE "PCAPNG", size |-> header,
                              exported |-> 0, links |-> {}, full |-> FALSE], records)
=============================================================================
