---------------------------- MODULE MCRecordScan ----------------------------
(***************************************************************************)
(* A small instance of RecordScan.  A scan looks at the bitmaps only, so   *)
(* one content of records and no drifted count are enough from the moment  *)
(* there is a scan.  The file without a scan is checked with all of them.  *)
(***************************************************************************)
EXTENDS RecordScan

CONSTANTS
  ScanContent   \* bound: content of the records of a file that is scanned

ScanBound ==
  scan.state # "off" =>
    old = 0 /\ put = 0 /\ \A r \in Rids : Records[r] \in {Free, ScanContent}

MCSpec ==
  /\ ScanInit
  /\ [][(ScanStep \/ WriterStep) /\ ScanBound']_svars
  /\ WF_svars(WriterStep /\ walk # Idle)
=============================================================================
