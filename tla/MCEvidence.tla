----------------------------- MODULE MCEvidence -----------------------------
(* Instances of Evidence for TLC. *)
EXTENDS Evidence

CONSTANTS o1, d1

\* Uploads fail in every way while the collector does its work: three uploads and a deletion, or
\* two uploads and two deletions; or the collector and commits fail; or only the store fails, with
\* two uploads and two deletions.
UploadFaults == {"refusal", "commit", "ambiguous", "abort"}
CollectorFaults == {"storage", "crash", "commit", "ambiguous"}
mcModes ==
    {[faults |-> UploadFaults, uploads |-> 3, rows |-> 4],
     [faults |-> UploadFaults, uploads |-> 2, rows |-> 4],
     [faults |-> CollectorFaults, uploads |-> 3, rows |-> 4],
     [faults |-> {"storage"}, uploads |-> 2, rows |-> 4]}
mcDiscardModes == {[faults |-> {}, uploads |-> 3, rows |-> 4]}

mcOrgOf == [d \in Docs |-> o1]
=============================================================================
