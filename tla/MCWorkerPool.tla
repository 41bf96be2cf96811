---------------------------- MODULE MCWorkerPool -----------------------------
(* Small instances of the pool: t1 and t2 share a session, t1 and t3 share  *)
(* an owner.                                                                *)
EXTENDS WorkerPool

CONSTANTS t1, t2, t3, s1, s2, o1, o2

MCSessionOf == [t \in Tasks |-> IF t = t3 THEN s2 ELSE s1]
MCOwnerOf == [t \in Tasks |-> IF t = t2 THEN o2 ELSE o1]
==============================================================================
