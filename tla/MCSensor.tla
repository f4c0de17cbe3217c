------------------------------ MODULE MCSensor -------------------------------
(***************************************************************************)
(* The sensor's components, checked in one run: a behaviour is about one   *)
(* of them, its focus, and the others stay as they begin.  Its cast says   *)
(* which actors take part and how often things go wrong; a component is    *)
(* explored with several small casts.                                      *)
(***************************************************************************)
EXTENDS SensorSpool, PcapArchive, CaptureSupervisor

CONSTANT Foci   \* the components to check

VARIABLES focus, cast

-----------------------------------------------------------------------------
(* The spool.                                                              *)

\* Three batches and one fault, crash or new configuration; two batches and both a
\* fault and one of the others.
SpoolCasts == {[batches |-> NumBatches, mishaps |-> 1], [batches |-> NumBatches - 1, mishaps |-> 2]}

SpoolCast == made' <= cast.batches /\ spoolFaults' + mishaps' <= cast.mishaps

-----------------------------------------------------------------------------
(* The PCAP archive.                                                       *)

\* Three packets on two interfaces and a mishap; two packets, another upload for the
\* job and a mishap; two packets and two mishaps.
ArchiveCasts == {[packets |-> NumPackets, peers |-> 0, mishaps |-> 1],
                 [packets |-> NumPackets - 1, peers |-> NumPeers, mishaps |-> 1],
                 [packets |-> NumPackets - 1, peers |-> 0, mishaps |-> 2]}

ArchiveCast ==
    /\ tally'.taken <= cast.packets /\ tally'.peers <= cast.peers
    /\ pcapFaults' + crashes' <= cast.mishaps

-----------------------------------------------------------------------------
(* The capture groups.                                                     *)

\* Two groups and a failure; a snapshot while one group makes way for the next; a
\* snapshot of one group whose readers fail or reach their limit.
CaptureCasts == {[snaps |-> FALSE, packets |-> TRUE, gens |-> MaxGens, upsets |-> 1],
                 [snaps |-> TRUE, packets |-> FALSE, gens |-> MaxGens, upsets |-> 0],
                 [snaps |-> TRUE, packets |-> TRUE, gens |-> 1, upsets |-> 1]}

CaptureCast ==
    /\ sup'.gen <= cast.gens /\ upsets' <= cast.upsets
    /\ cast.snaps \/ snap' = snap
    /\ cast.packets \/ budgets' = budgets
    /\ cast.gens = 1 => desired' = desired

-----------------------------------------------------------------------------
Casts == CASE focus = "spool" -> SpoolCasts
           [] focus = "pcap" -> ArchiveCasts
           [] focus = "capture" -> CaptureCasts

SensorInit ==
    /\ focus \in Foci
    /\ cast \in Casts
    /\ SpoolInit
    /\ focus # "spool" => /\ ~expiry /\ poison = CHOOSE S \in PoisonSets : TRUE
                         /\ largest = SpoolBytes
    /\ expiry => largest # SpoolBytes \/ MaxMishaps = 0
    /\ ArchiveInit
    /\ SupervisorInit

SensorNext ==
    /\ \/ focus = "spool" /\ SpoolNext /\ SpoolCast
       \/ focus = "pcap" /\ ArchiveNext /\ ArchiveCast
       \/ focus = "capture" /\ SupervisorNext /\ CaptureCast
    /\ focus # "spool" => UNCHANGED spoolVars
    /\ focus # "pcap" => UNCHANGED archiveVars
    /\ focus # "capture" => UNCHANGED supervisorVars
    /\ UNCHANGED <<focus, cast>>

sensorVars == <<focus, cast, spoolVars, archiveVars, supervisorVars>>

SensorSpec == SensorInit /\ [][SensorNext]_sensorVars
=============================================================================
