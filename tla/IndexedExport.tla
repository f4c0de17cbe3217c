--------------------------- MODULE IndexedExport ----------------------------
(***************************************************************************)
(* How an export gathers its packets.  The manifest of the request names   *)
(* the version of every source.  In "active" mode the executor first tries *)
(* the posting indexes: it selects candidates, plans byte ranges, reads    *)
(* them, and accepts the batch only if the sources and their indexes are   *)
(* still the ones it began with; whatever stands in the way makes it throw *)
(* the batch away and scan the sources from the start.  In "shadow" mode   *)
(* it does both and compares.  Meanwhile sources are replaced or deleted   *)
(* and indexes rebuilt.                                                    *)
(***************************************************************************)
EXTENDS CaptureScan

CONSTANTS
    Requests,   \* the exports that may be asked for
    MaxMeddles  \* how often the sources and their indexes change meanwhile

VARIABLES
    request,    \* what is asked for: the captures of the manifest, query, budgets, mode
    sources,    \* for every capture its current version and the indexes on it
    phase,      \* what the executor is doing
    at, look,   \* the source it has come to, and which of the source's rows it reads next
    proofs,     \* what it knows of the indexes it selected from
    plans,      \* the sources it planned to read, with prefix, candidates and ranges
    gathered,   \* the packets and counts so far
    shadow,     \* the batch of the indexes, in shadow mode
    outcome,    \* what became of the export
    meddles,    \* changes to the sources so far
    drifted     \* sources that changed between their selection and the last read

workVars == <<phase, at, look, proofs, plans, gathered, shadow, outcome>>
indexedVars == <<request, sources, workVars, meddles, drifted>>

Nothing == [records |-> <<>>, bytes |-> 0, packets |-> 0, captures |-> 0, reasons |-> <<>>]

NoProof == [parent |-> 0, posting |-> 0, candidates |-> {}]

Manifest == DOMAIN request.captures

\* The version in the manifest is the first; a deleted source has none.
InManifest(i) == sources[i].version = 1

IndexedInit ==
    /\ request \in Requests
    /\ sources = [i \in DOMAIN request.captures |->
                     [version |-> 1, parent |-> IF Indexable(request.captures[i]) THEN 1 ELSE 0,
                      posting |-> IF Indexable(request.captures[i]) THEN 1 ELSE 0, built |-> 1]]
    /\ phase = CASE request.captures = <<>> -> "records"
                 [] request.captures # <<>> /\ request.mode \in {"active", "shadow"} -> "select"
                 [] OTHER -> "scan"
    /\ at = 1 /\ look = 1
    /\ proofs = [i \in DOMAIN request.captures |-> NoProof]
    /\ plans = <<>> /\ gathered = Nothing /\ shadow = Nothing
    /\ outcome = [status |-> "RUNNING", path |-> "sequential", parity |-> Absent, code |-> Absent, exported |-> 0, size |-> 0]
    /\ meddles = 0 /\ drifted = {}

-----------------------------------------------------------------------------
(* Steps through the manifest.                                             *)

Turn(p, i, l) == phase' = p /\ at' = i /\ look' = l

\* Anything that does not hold: the batch is thrown away and the sources scanned.
FallBack ==
    /\ Turn("scan", 1, 1)
    /\ gathered' = Nothing /\ plans' = <<>>
    /\ outcome' = IF request.mode = "active" THEN [outcome EXCEPT !.path = "fallback"]
                                             ELSE [outcome EXCEPT !.path = "shadow", !.parity = "error"]
    /\ UNCHANGED <<proofs, shadow>>

\* Mutant: the owner of the postings is not read again.
UnchangedButPostings(i) == CASE look = 1 -> InManifest(i)
                             [] look = 2 -> sources[i].parent = proofs[i].parent
                             [] look = 3 -> TRUE

\* A row read again: the source, the owner of its structural index, the owner of its postings.
Unchanged(i) == CASE look = 1 -> InManifest(i)
                  [] look = 2 -> sources[i].parent = proofs[i].parent
                  [] look = 3 -> sources[i].posting = proofs[i].posting

\* Reading a source's rows again in one of the rounds that do it, and going on with
\* the next row, or with what comes after the last.
Reread(rounds, last) ==
    /\ phase \in rounds /\ look <= 3
    /\ ~(phase \in {"confirm", "fence", "verify"} /\ look = 3 /\ at = last)
    /\ IF ~Unchanged(at) THEN FallBack
       ELSE /\ IF look = 3 /\ phase \in {"confirm", "fence", "verify"}
               THEN Turn(phase, at + 1, 1) ELSE Turn(phase, at, look + 1)
            /\ UNCHANGED <<proofs, plans, gathered, shadow, outcome>>

\* The last row of a round.
RereadLast(round, last, then) ==
    /\ phase = round /\ look = 3 /\ at = last
    /\ IF Unchanged(at) THEN then ELSE FallBack

-----------------------------------------------------------------------------
(* Selection.                                                              *)

\* Every source gets its share of the limits on a query.
AllocatedLimit(total, count, i) == total \div count + (IF i - 1 < total % count THEN 1 ELSE 0)

Postings(i) == LET packets == StructuralPackets(request.captures[i])
               IN  BuildPostings([n \in DOMAIN packets |-> packets[n].packet], request.batch)

\* The manifest may be too long; the source must be the one in it, have an index and
\* postings on that index; a query within its limits then gives the candidates.
SelectSource ==
    /\ phase = "select"
    /\ \/ FallBack   \* a limit on the query's work
       \/ /\ Len(request.captures) <= request.maxPackets /\ Len(request.captures) <= request.maxResults
          /\ CASE look = 1 -> InManifest(at) /\ UNCHANGED proofs
               [] look = 2 -> /\ sources[at].parent # 0 /\ InManifest(at)
                              /\ proofs' = [proofs EXCEPT ![at].parent = sources[at].parent]
               [] look = 3 -> /\ sources[at].posting # 0 /\ InManifest(at) /\ sources[at].parent = proofs[at].parent
                              /\ LET found == SelectCandidates(Postings(at), request.query, request.captures[at].sensor)
                                 IN  /\ Cardinality(found) <= AllocatedLimit(request.maxResults, Len(request.captures), at)
                                     /\ proofs' = [proofs EXCEPT ![at].posting = sources[at].posting, ![at].candidates = found]
          /\ CASE look < 3 -> Turn("select", at, look + 1)
               [] look = 3 /\ at < Len(request.captures) -> Turn("select", at + 1, 1)
               [] OTHER -> Turn("confirm", 1, 1)
          /\ UNCHANGED <<plans, gathered, shadow, outcome>>

Confirmed ==
    RereadLast("confirm", Len(request.captures),
               /\ Turn("plan", 1, 1)
               /\ UNCHANGED <<proofs, plans, gathered, shadow, outcome>>)

-----------------------------------------------------------------------------
(* Planning.                                                               *)

AllRanges == FoldLeft(LAMBDA s, p : s \o p.ranges, <<>>, plans)

AllPayload == FoldLeft(LAMBDA n, p : n + p.payload, 0, plans)

\* One source: the prefix within what is left of the budgets, the candidates in it
\* and the ranges that hold their data.
PlanFor(i) ==
    LET c        == request.captures[i]
        packets  == StructuralPackets(c)
        bytes    == request.maxBytes - gathered.bytes
        left     == request.maxPackets - gathered.packets
        prefix   == IF c.format = "PCAP" THEN ClassicPrefix(packets, CaptureBytes(c), bytes, left)
                                         ELSE NgPrefix(packets, CaptureBytes(c), left)
        chosen   == {o \in proofs[i].candidates : o < prefix.packets}
        plan     == PlanRanges(packets, chosen, request.limits)
    IN  [fits |-> /\ c.format = "PCAPNG" => bytes >= CaptureBytes(c)
                  /\ plan.fits /\ SourceRangesFit(plan.ranges, CaptureBytes(c), request.limits),
         plan |-> [source |-> i, prefix |-> prefix, chosen |-> chosen, ranges |-> plan.ranges,
                   payload |-> Payload(packets, chosen)]]

Reasons(prefix) == (IF prefix.byteLimited THEN <<"SOURCE_BYTE_LIMIT">> ELSE <<>>)
                   \o (IF prefix.packetLimited THEN <<"SOURCE_PACKET_LIMIT">> ELSE <<>>)

\* A source begins only with something left of both budgets.
Spent(g) == IF g.packets >= request.maxPackets THEN <<"SOURCE_PACKET_LIMIT">>
            ELSE IF g.bytes >= request.maxBytes THEN <<"SOURCE_BYTE_LIMIT">> ELSE <<>>

\* What a prefix adds to what was gathered.
Counted(g, prefix) ==
    [g EXCEPT !.bytes = @ + prefix.bytes, !.packets = @ + prefix.packets,
              !.captures = IF prefix.packets > 0 THEN @ + 1 ELSE @, !.reasons = @ \o Reasons(prefix)]

\* The ceilings on ranges and bytes hold as the plan grows; the one on amplification
\* is for the whole of it.
PlanSource ==
    /\ phase = "plan" /\ look = 4
    /\ LET p      == PlanFor(at)
           ranges == AllRanges \o p.plan.ranges
       IN  IF Spent(gathered) # <<>>
           THEN /\ gathered' = [gathered EXCEPT !.reasons = @ \o Spent(gathered)]
                /\ Turn("total", 1, 1) /\ UNCHANGED <<proofs, plans, shadow, outcome>>
           ELSE IF ~p.fits \/ Len(ranges) > request.limits.ranges \/ Fetched(ranges) > request.limits.fetched THEN FallBack
           ELSE /\ plans' = Append(plans, p.plan)
                /\ gathered' = Counted(gathered, p.plan.prefix)
                /\ IF ~CutShort(p.plan.prefix) /\ at < Len(request.captures) THEN Turn("plan", at + 1, 1)
                                                                         ELSE Turn("total", 1, 1)
                /\ UNCHANGED <<proofs, shadow, outcome>>

PlanTotals ==
    /\ phase = "total"
    /\ IF RequestRangesFit(AllRanges, AllPayload, request.limits)
       THEN Turn("fence", 1, 1) /\ UNCHANGED <<proofs, plans, gathered, shadow, outcome>>
       ELSE FallBack

Fenced ==
    RereadLast("fence", Len(plans), /\ Turn("fetch", 1, 1)
                                    /\ UNCHANGED <<proofs, plans, gathered, shadow, outcome>>)

-----------------------------------------------------------------------------
(* Reading.                                                                *)

Record(i, o) == LET p == StructuralPackets(request.captures[i])[o + 1]
                IN  [source |-> i, ordinal |-> o, cap |-> p.cap, packet |-> p.packet]

\* The packets of a source among some ordinals that the predicate takes, in order.
Taken(i, ordinals) ==
    LET packets == StructuralPackets(request.captures[i])
        takes   == {o \in ordinals : /\ packets[o + 1].packet.supported
                                     /\ Matches(packets[o + 1].packet, request.query, request.captures[i].sensor)}
    IN  [k \in 1..Cardinality(takes) |-> Record(i, SetToSortSeq(takes, <)[k])]

\* A range, by the version in the manifest, whose row is looked at first; the store
\* may fail to answer.
FetchRange ==
    /\ phase = "fetch" /\ look \in 4..(3 + Len(plans[at].ranges))
    /\ \/ FallBack
       \/ /\ InManifest(at)
          /\ Turn("fetch", at, look + 1)
          /\ UNCHANGED <<proofs, plans, gathered, shadow, outcome>>

\* The candidates decoded, and the predicate on each of them.
FetchSource ==
    /\ phase = "fetch" /\ look = 4 + Len(plans[at].ranges)
    /\ gathered' = [gathered EXCEPT !.records = @ \o Taken(at, plans[at].chosen)]
    /\ IF at < Len(plans) THEN Turn("fetch", at + 1, 1) ELSE Turn("verify", 1, 1)
    /\ UNCHANGED <<proofs, plans, shadow, outcome>>

\* Every row once more: the batch counts, as the result or for comparison.
AcceptBatch ==
    IF request.mode = "active"
    THEN Turn("write", 1, 1) /\ outcome' = [outcome EXCEPT !.path = "indexed"] /\ UNCHANGED <<proofs, plans, gathered, shadow>>
    ELSE /\ Turn("scan", 1, 1) /\ shadow' = gathered /\ gathered' = Nothing
         /\ outcome' = [outcome EXCEPT !.path = "shadow", !.parity = "compare"] /\ UNCHANGED <<proofs, plans>>

Verified == RereadLast("verify", Len(plans), AcceptBatch)

-----------------------------------------------------------------------------
(* The scan of the sources, as a stream or in the older way that reads a   *)
(* source whole; and the packets kept with flow records where none is.     *)

\* One source, as the manifest has it, on top of what was gathered: the packets, or
\* the error the parser ends with.  Only an empty prefix cut by a limit is forgiven.
ScanSource(g, i) ==
    LET c      == request.captures[i]
        legacy == request.mode = "legacy"
        bytes  == request.maxBytes - g.bytes
        scan   == IF legacy THEN BoundedPrefix(c, bytes, request.maxPackets - g.packets)
                            ELSE BoundedScan(c, bytes, request.maxPackets - g.packets)
        error  == DecodeError(c, scan)
    IN  IF Spent(g) # <<>> THEN [error |-> Absent, more |-> FALSE, g |-> [g EXCEPT !.reasons = @ \o Spent(g)]]
        ELSE IF error # Absent /\ ~((legacy \/ error = "EMPTY_PCAP") /\ scan.packets = 0 /\ CutShort(scan))
        THEN [error |-> error, more |-> FALSE, g |-> g]
        ELSE [error |-> Absent, more |-> ~CutShort(scan),
              g |-> [Counted(g, scan) EXCEPT !.records = @ \o Taken(i, 0..(scan.packets - 1))]]

Fail(status, code) ==
    /\ Turn("done", 1, 1)
    /\ outcome' = [outcome EXCEPT !.status = status, !.code = code]
    /\ UNCHANGED <<proofs, plans, gathered, shadow>>

ScanNext ==
    /\ phase = "scan"
    /\ LET s == ScanSource(gathered, at)
       IN  IF Spent(gathered) = <<>> /\ ~InManifest(at) THEN Fail("ERROR", "PCAP_SOURCE_INTEGRITY_ERROR")
           ELSE IF s.error # Absent THEN Fail("ERROR", s.error)
           ELSE /\ gathered' = s.g
                /\ IF s.more /\ at < Len(request.captures) THEN Turn("scan", at + 1, 1) ELSE Turn("write", 1, 1)
                /\ UNCHANGED <<proofs, plans, shadow, outcome>>

\* Records carry their packet: each is weighed against the budgets before it counts.
RecordsNext ==
    /\ phase = "records"
    /\ LET Weigh(g, r) ==
              CASE g.reasons # <<>> -> g
                [] g.reasons = <<>> /\ g.bytes + r.cap > request.maxBytes -> [g EXCEPT !.reasons = <<"SOURCE_BYTE_LIMIT">>]
                [] g.reasons = <<>> /\ g.bytes + r.cap <= request.maxBytes /\ g.packets >= request.maxPackets ->
                      [g EXCEPT !.reasons = <<"SOURCE_PACKET_LIMIT">>]
                [] OTHER -> [g EXCEPT !.bytes = @ + r.cap, !.packets = @ + 1,
                                      !.records = IF Matches(r.packet, request.query, request.sensor) THEN Append(@, r) ELSE @]
       IN  gathered' = FoldLeft(Weigh, Nothing, request.flows)
    /\ Turn("write", 1, 1)
    /\ UNCHANGED <<proofs, plans, shadow, outcome>>

-----------------------------------------------------------------------------
(* The result.                                                             *)

\* Why an export is empty.
EmptyCode(matched, reasons, scanned) ==
    CASE matched > 0 -> "PCAP_OUTPUT_LIMIT_TOO_SMALL"
      [] matched = 0 /\ reasons # <<>> /\ scanned = 0 -> "PCAP_SOURCE_SCAN_LIMIT_TOO_SMALL"
      [] matched = 0 /\ reasons # <<>> /\ scanned > 0 -> "PCAP_SOURCE_SCAN_INCOMPLETE"
      [] OTHER -> IF request.captures # <<>> \/ scanned > 0 THEN "PCAP_NO_MATCH" ELSE "PCAP_SOURCE_UNAVAILABLE"

WriteExport ==
    /\ phase = "write"
    /\ LET built == BuildCapture(gathered.records, request.maxOutput)
           other == BuildCapture(shadow.records, request.maxOutput)
       IN  IF built.error # Absent THEN Fail("ERROR", built.error)
           ELSE /\ Turn("done", 1, 1)
                /\ outcome' = [outcome EXCEPT
                      !.status = IF built.exported > 0 THEN "COMPLETED" ELSE "FAILED",
                      !.code = IF built.exported > 0 THEN Absent
                               ELSE EmptyCode(Len(gathered.records), gathered.reasons, gathered.packets),
                      !.exported = built.exported, !.size = built.size,
                      !.parity = IF @ # "compare" THEN @
                                 ELSE IF shadow.records = gathered.records /\ built = other THEN "match" ELSE "mismatch"]
                /\ UNCHANGED <<proofs, plans, gathered, shadow>>

\* A cancellation, a deadline or a lost lease ends the work at any of its checkpoints.
Abort == phase \notin {"done"} /\ request.aborts /\ Fail("ABORTED", Absent)

ExecutorNext ==
    \/ SelectSource \/ Confirmed \/ PlanSource \/ PlanTotals \/ Fenced \/ FetchRange \/ FetchSource \/ Verified
    \/ Reread({"confirm"}, Len(request.captures)) \/ Reread({"plan", "fetch"}, 0)
    \/ Reread({"fence", "verify"}, Len(plans))
    \/ ScanNext \/ RecordsNext \/ WriteExport \/ Abort

-----------------------------------------------------------------------------
(* The sources change.  Index builds are numbered, and never reused.       *)

\* A change of a source that the executor began to rely on, until its last read.
Relied(i, row) ==
    /\ phase \in {"select", "confirm", "plan", "total", "fence", "fetch"}
    /\ phase = "select" => i < at \/ (i = at /\ look > row)

Meddle(i, row, entry) ==
    /\ meddles < MaxMeddles /\ phase \notin {"write", "done"}
    /\ sources' = [sources EXCEPT ![i] = entry]
    /\ meddles' = meddles + 1
    /\ drifted' = IF Relied(i, row) THEN drifted \cup {i} ELSE drifted
    /\ UNCHANGED <<request, workVars>>

Built(i) == sources[i].built + 1

\* Another capture under the same identity, which has no index yet; or none.
ReplaceSource(i) == sources[i].version # 0 /\ Meddle(i, 1, [version |-> 2, parent |-> 0, posting |-> 0, built |-> Built(i)])
DeleteSource(i) == sources[i].version # 0 /\ Meddle(i, 1, [version |-> 0, parent |-> 0, posting |-> 0, built |-> Built(i)])

\* A structural index built anew, without postings; and postings on the index there is.
RebuildIndex(i) ==
    sources[i].version # 0 /\ Meddle(i, 2, [sources[i] EXCEPT !.parent = Built(i), !.posting = 0, !.built = Built(i)])
RebuildPostings(i) ==
    sources[i].parent # 0 /\ Meddle(i, 3, [sources[i] EXCEPT !.posting = Built(i), !.built = Built(i)])

IndexedNext ==
    \/ ExecutorNext /\ UNCHANGED <<request, sources, meddles, drifted>>
    \/ \E i \in Manifest : ReplaceSource(i) \/ DeleteSource(i) \/ RebuildIndex(i) \/ RebuildPostings(i)

IndexedSpec == IndexedInit /\ [][IndexedNext]_indexedVars

-----------------------------------------------------------------------------

IndexedTypeOK ==
    /\ phase \in {"select", "confirm", "plan", "total", "fence", "fetch", "verify", "scan", "records", "write", "done"}
    /\ \A i \in Manifest : sources[i].version \in 0..2 /\ sources[i].parent \in Nat /\ sources[i].posting \in Nat
    /\ Len(plans) <= Len(request.captures) /\ meddles \in 0..MaxMeddles /\ drifted \subseteq Manifest
    /\ gathered.bytes \in 0..request.maxBytes /\ gathered.packets \in 0..request.maxPackets
    /\ outcome.status \in {"RUNNING", "COMPLETED", "FAILED", "ERROR", "ABORTED"}

\* The packets of the captures that come before the first one over a budget, counted
\* from the first source on: what an export may look at.
Before(i) == FoldLeft(LAMBDA n, c : n + CaptureBytes(c), 0, SubSeq(request.captures, 1, i - 1))
PacketsBefore(i) == FoldLeft(LAMBDA n, c : n + Len(PacketBlocks(c)), 0, SubSeq(request.captures, 1, i - 1))
WithinBudgets(i, o) ==
    LET p == StructuralPackets(request.captures[i])[o + 1]
    IN  Before(i) + p.record + p.framed <= request.maxBytes /\ PacketsBefore(i) + o < request.maxPackets
PacketsOf(i) == 0..(Len(StructuralPackets(request.captures[i])) - 1)
Asked(i, o) == LET p == StructuralPackets(request.captures[i])[o + 1].packet
                IN  p.supported /\ Matches(p, request.query, request.captures[i].sensor)

\* The batch of an export has, in the captures' order, exactly the packets that match and lie within
\* the byte and packet budgets of the scan, whether the indexes or the scan found them.
GathersTheMatchingPrefix ==
    phase = "write" /\ request.captures # <<>> =>
        LET r == gathered.records
        IN  /\ {<<r[n].source, r[n].ordinal>> : n \in DOMAIN r} =
                   UNION {{<<i, o>> : o \in {o \in PacketsOf(i) : WithinBudgets(i, o) /\ Asked(i, o)}} : i \in Manifest}
            /\ \A m, n \in DOMAIN r : m < n =>
                  r[m].source < r[n].source \/ (r[m].source = r[n].source /\ r[m].ordinal < r[n].ordinal)

\* What the scan alone would gather.
ScanOfAll ==
    FoldLeft(LAMBDA s, i : IF s.more THEN ScanSource(s.g, i) ELSE s,
             [error |-> Absent, more |-> TRUE, g |-> Nothing], [i \in Manifest |-> i])

\* A batch of the indexes that is accepted reports the packets, bytes, captures and
\* truncation that the scan of the same captures reports, where that scan succeeds; the
\* comparison in shadow mode never finds a difference.
IndexedMatchesScan ==
    /\ outcome.parity # "mismatch"
    /\ outcome.path = "indexed" /\ phase = "write" /\ ScanOfAll.error = Absent => gathered = ScanOfAll.g
    /\ outcome.parity = "compare" /\ ScanOfAll.error = Absent => shadow = ScanOfAll.g

\* The ranges of a plan hold the data of the selected packets and of no other, each
\* once, and stay within the ceilings.
RangesAreTight ==
    \A k \in DOMAIN plans :
        LET packets == StructuralPackets(request.captures[plans[k].source])
            r       == plans[k].ranges
            Covers(x, o) == /\ x.offset <= packets[o + 1].data
                            /\ packets[o + 1].data + packets[o + 1].cap <= x.offset + x.length
            Touches(x, o) == /\ packets[o + 1].data < x.offset + x.length
                             /\ x.offset < packets[o + 1].data + packets[o + 1].cap
        IN  /\ \A o \in plans[k].chosen : packets[o + 1].cap > 0 => \E n \in DOMAIN r : Covers(r[n], o) /\ o \in r[n].slices
            /\ \A o \in PacketsOf(plans[k].source) \ plans[k].chosen : packets[o + 1].cap > 0 => \A n \in DOMAIN r : ~Touches(r[n], o)
            /\ \A m, n \in DOMAIN r : m < n => r[m].offset + r[m].length <= r[n].offset
            /\ \A n \in DOMAIN r : r[n].length <= request.limits.range

\* A batch is accepted only if no planned source or index of one changed from the time it was
\* selected to the last range that was read of it.
FencedReads ==
    outcome.path = "indexed" \/ outcome.parity \in {"compare", "match", "mismatch"} =>
        drifted \cap {plans[k].source : k \in DOMAIN plans} = {}

\* What is read by the indexes is what was planned, of what was selected.
IndexedReadsAreExact == FencedReads /\ RangesAreTight

\* How long an artifact with the first n packets is.
ArtifactBytes(n) ==
    LET r         == gathered.records
        link(k)   == <<r[k].source, r[k].packet.link>>
        early     == {link(k) : k \in {k \in DOMAIN r : r[k].packet.time < 0}}
        links     == {link(k) : k \in 1..n}
        Sum(f(_)) == FoldLeft(LAMBDA a, k : a + f(k), 0, [k \in 1..n |-> k])
    IN  IF early = {} /\ Cardinality({link(k) : k \in DOMAIN r}) <= 1 THEN 24 + Sum(LAMBDA k : 16 + r[k].cap)
        ELSE 28 + 20 * Cardinality(links) + 16 * Cardinality(links \cap early) + Sum(LAMBDA k : 32 + ((r[k].cap + 3) \div 4) * 4)

\* An export that ends with "no match" has seen every packet of every capture.
NoMatchMeansNone ==
    outcome.code = "PCAP_NO_MATCH" => \A i \in Manifest : \A o \in PacketsOf(i) : ~Asked(i, o)

\* The artifact is the longest prefix of the matching packets, whole ones, within the
\* output limit; it is empty only if nothing matches.
OutputIsTheLongestPrefix ==
    /\ IndexedTypeOK /\ NoMatchMeansNone
    /\ outcome.status \in {"COMPLETED", "FAILED"} =>
        /\ outcome.exported = Cardinality({n \in DOMAIN gathered.records : ArtifactBytes(n) <= request.maxOutput})
        /\ outcome.size = ArtifactBytes(outcome.exported) /\ outcome.size <= request.maxOutput

\* An export is what was asked for: the matching packets within the budgets, and of
\* those as many as the output limit has room for.
ExportIsTheMatchingPrefix == GathersTheMatchingPrefix /\ OutputIsTheLongestPrefix
=============================================================================
