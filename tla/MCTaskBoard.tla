----------------------------- MODULE MCTaskBoard -----------------------------
EXTENDS TaskBoard, TLC

CONSTANTS t1, poster, worker, treasury, i1, i2

MCTasks == {t1}
MCParticipants == {poster, worker, treasury}
\* The poster is the human who referred the worker.
MCReferredBy == [p \in MCParticipants |-> IF p = worker THEN poster ELSE None]
MCStart == (poster :> 20) @@ (worker :> 1) @@ (treasury :> 0)
MCInvocations == {i1, i2}
MCMaxWrites == [claim |-> 2, pay |-> 1, refund |-> 1]
MCTwoRefunds == [claim |-> 1, pay |-> 1, refund |-> 2]

Symmetry == Permutations(MCInvocations)
=============================================================================
