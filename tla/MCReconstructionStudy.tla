------------------------ MODULE MCReconstructionStudy ------------------------
(* Bounds for ReconstructionStudy. *)
EXTENDS ReconstructionStudy

MCSymmetry == Permutations(Levels)

\* Only what the next steps and the properties tell apart: how long ago a row was
\* written (up to the buffer, for one that is applied), whether a connection is the
\* present one, and one state for all ends.
Waiting(row) == <<row.first, row.final, clock - row.at>>
Done(row) == <<row.first, row.final, Min({Buffer, study.latest - row.at})>>
StudyView ==
    IF study.over THEN <<>>
    ELSE <<changed, sent, traded, faults,
           [s \in Scopes |-> <<task[s].at, task[s].tracked>>],
           study.conn = 0, study.conn = task["public"].conn, study.active, study.last, study.book,
           [i \in DOMAIN study.applied |-> Done(study.applied[i])],
           [i \in DOMAIN study.pending |-> Waiting(study.pending[i])],
           study.previous, study.trades, study.lastTrade, clock - study.latest>>
==============================================================================
