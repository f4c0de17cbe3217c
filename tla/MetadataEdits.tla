---------------------------- MODULE MetadataEdits ----------------------------
(***************************************************************************)
(* The analysis pipeline with the API request that edits a job's name and  *)
(* description (update_analysis_job).  The request reads the whole job     *)
(* document and later saves the whole document again, unconditionally.     *)
(***************************************************************************)
EXTENDS AnalysisPipeline

\* update_analysis_job reads the job in whatever state it is ...
PatchRead(a, j) ==
    /\ api[a].op = "none"
    /\ job[j].status \notin {"ABSENT", "DELETED"}
    /\ api' = [api EXCEPT ![a] = [op |-> "patch", job |-> j, doc |-> job[j]]]
    /\ UNCHANGED <<job, flows, cands, jq, dedupe, rq, ctl, wkr, minted, faults>>

\* ... and save_job_metadata upserts the document with the edited fields.
PatchWrite(a) ==
    /\ api[a].op = "patch"
    /\ job' = [job EXCEPT ![api[a].job] = api[a].doc]
    /\ api' = [api EXCEPT ![a] = IdleClient]
    /\ UNCHANGED <<flows, cands, jq, dedupe, rq, ctl, wkr, minted, faults>>

EditNext ==
    \/ Next
    \/ \E a \in Clients : \E j \in Jobs : PatchRead(a, j)
    \/ \E a \in Clients : PatchWrite(a)

EditSpec == Init /\ [][EditNext]_vars
=============================================================================
