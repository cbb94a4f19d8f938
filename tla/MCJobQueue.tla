----------------------------- MODULE MCJobQueue -----------------------------
(* Constant values for checking JobQueue on small instances.               *)
EXTENDS JobQueue, TLC

CONSTANTS j1, j2, j3, w1, w2, r1, k1, key1

TwoJobs == {j1, j2}
ThreeJobs == {j1, j2, j3}
TwoWorkers == {w1, w2}
OneWorker == {w1}

OnePool == [x \in TwoJobs \cup TwoWorkers |-> "prism"]
NoPriority == [j \in TwoJobs |-> 100]
NoKeys == [j \in TwoJobs |-> NoKey]
NeedTwoAndOne == [j \in TwoJobs |-> [r \in {r1} |-> IF j = j1 THEN 2 ELSE 1]]
BothRead == [j \in TwoJobs |-> [k \in {k1} |-> "read"]]
TwoAttempts == [j \in TwoJobs |-> 2]
MoreCapacities == {[r \in {r1} |-> 2], [r \in {r1} |-> 3]}
CapacityOne == {[r \in {r1} |-> 1]}
CapacityTwo == {[r \in {r1} |-> 2]}

\* Three jobs beside each other; j3 may be a row from before leases.
OldRow == {j3}
OnePoolOneWorker == [x \in ThreeJobs \cup OneWorker |-> "prism"]
Priority3 == [j \in ThreeJobs |-> IF j = j2 THEN 50 ELSE 100]
FenceTwo3 == [j \in ThreeJobs |-> 2]

\* j1 and j2 share an artifact key, nobody needs a slot or a lock.
SameKey3 == [j \in ThreeJobs |-> IF j = j3 THEN NoKey ELSE key1]
NeedNone3 == [j \in ThreeJobs |-> [r \in {r1} |-> 0]]
NoLocks3 == [j \in ThreeJobs |-> [k \in {k1} |-> "none"]]
Attempts3 == [j \in ThreeJobs |-> IF j = j2 THEN 2 ELSE 1]

\* j1 reads what j2 writes and takes the only slot; j3 needs nothing.
NoKeys3 == [j \in ThreeJobs |-> NoKey]
NeedFirst3 == [j \in ThreeJobs |-> [r \in {r1} |-> IF j = j1 THEN 1 ELSE 0]]
ReadAndWrite3 == [j \in ThreeJobs |-> [k \in {k1} |->
                    IF j = j1 THEN "read" ELSE IF j = j2 THEN "write" ELSE "none"]]
TwoAttempts3 == [j \in ThreeJobs |-> 2]
FenceOneLast3 == [j \in ThreeJobs |-> IF j = j3 THEN 1 ELSE 2]

FenceTwo == [j \in TwoJobs |-> 2]
WorkerSymmetry == Permutations(TwoWorkers)
=============================================================================
