------------------------------ MODULE JobLease ------------------------------
(***************************************************************************)
(* What the coordinator promises about handing out jobs, without tables,   *)
(* snapshots, requests or clocks: the right to hand out a job is in one    *)
(* place at a time.  It waits until the auction turns it into a lease of   *)
(* one provider; a lost lease may be reclaimed by the watcher, which puts  *)
(* the job back a bounded number of times; a right that is spent never     *)
(* comes back.  The job's state, which requests rewrite in any order, is   *)
(* no part of it.  Module Coordinator is shown to implement it.            *)
(***************************************************************************)
EXTENDS Integers

CONSTANTS Jobs, Providers, MaxRestoreAttempts

VARIABLES
  lease,       \* per job: where the right is, and who holds a lease
  dispatches   \* per job: how often it was handed out

Unleased(at) == [at |-> at, to |-> {}]
LeasedTo(p)  == [at |-> "leased", to |-> {p}]

Init ==
  /\ lease = [j \in Jobs |-> Unleased("waiting")]
  /\ dispatches = [j \in Jobs |-> 0]

HandOut(j) ==
  /\ lease[j] = Unleased("waiting")
  /\ \E p \in Providers : lease'[j] = LeasedTo(p)
  /\ dispatches'[j] = dispatches[j] + 1

\* The provider stops, becomes free or is not heard of.
Lose(j) ==
  /\ lease[j] \in {LeasedTo(p) : p \in Providers}
  /\ lease'[j] \in {Unleased("reclaimed"), Unleased("spent")}
  /\ dispatches'[j] = dispatches[j]

PutBack(j) ==
  /\ lease[j] = Unleased("reclaimed") /\ dispatches[j] <= MaxRestoreAttempts
  /\ lease'[j] = Unleased("waiting")
  /\ dispatches'[j] = dispatches[j]

\* The job ends before it is handed out, or may not be restored again.
GiveUp(j) ==
  /\ lease[j] \in {Unleased("waiting"), Unleased("reclaimed")}
  /\ lease'[j] = Unleased("spent")
  /\ dispatches'[j] = dispatches[j]

Keep(j) == lease'[j] = lease[j] /\ dispatches'[j] = dispatches[j]

\* One statement, such as an eviction, may concern several jobs.
Next == \A j \in Jobs : Keep(j) \/ HandOut(j) \/ Lose(j) \/ PutBack(j) \/ GiveUp(j)

Spec == Init /\ [][Next]_<<lease, dispatches>>
=============================================================================
