-------------------------------- MODULE MCLive --------------------------------
(* What must end: the statements of the postings of Ledger, and the export  *)
(* jobs.  The two share nothing, so TLC checks their sum; the part that     *)
(* does not run stays at its start, where its fairness asks for nothing.    *)
EXTENDS Ledger

CONSTANTS Job, Worker, MaxRetries, MaxTimeouts, NoJob

VARIABLES
    part,
    jobs, stored, workers, abandoned, sweeps, timeouts, attempts, late, orphaned

Exports == INSTANCE ReportExports

ASSUME MCLiveAssumption == Exports!ReportExportsAssumption

LiveOpening == [a \in Account |-> 2]

exportVars == <<jobs, stored, workers, abandoned, sweeps, timeouts, attempts, late, orphaned>>

LiveInit == part \in {"exports", "postings"} /\ Init /\ Exports!Init

LiveNext ==
    /\ UNCHANGED part
    /\ \/ part = "exports" /\ Exports!Next /\ UNCHANGED vars
       \/ part = "postings" /\ Next /\ UNCHANGED exportVars

LiveSpec ==
    LiveInit /\ [][LiveNext]_<<part, vars, exportVars>> /\ Fairness /\ Exports!Fairness

EveryExportEnds == Exports!EveryExportEnds

\* What the queue of exports says, with the workers failing, dying and timing out: the rows
\* keep to their values, a job is one worker's at a time, a completed one can be
\* downloaded, and one whose attempts ended by themselves has the outcome of the last.
ExportsHold ==
    /\ Exports!TypeOK /\ Exports!OneOwner
    /\ Exports!CompletedIsStored /\ Exports!SerialExport
=============================================================================
