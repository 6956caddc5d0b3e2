-------------------------- MODULE MilestoneRewards --------------------------
(***************************************************************************)
(* The GPU-hour milestone rewards of the coordinator's gRPC handler        *)
(* report_completion: every 8 hours a provider has contributed earn it one *)
(* reward, paid by a deposit request to the ledger service and recorded in *)
(* the table milestone_rewards.  Each SQL statement and each request is a  *)
(* step; several reports are handled at the same time.                     *)
(***************************************************************************)
EXTENDS Integers, FiniteSets

CONSTANTS
  Providers,
  Slots,      \* reports handled at the same time
  NoOne,      \* provider of an idle slot
  JobHours,   \* runtimes of completed jobs, in hours
  MaxHours,   \* bound on the hours a provider contributes
  Dropped,    \* providers whose reports may be dropped
  Failing,    \* providers for whose reports a statement may fail
  Lossy       \* providers whose deposit requests may get lost

ASSUME MilestoneAssumption ==
  /\ NoOne \notin Providers
  /\ JobHours \subseteq Nat \ {0}
  /\ MaxHours \in Nat
  /\ Dropped \cup Failing \cup Lossy \subseteq Providers

MILESTONE_HOURS == 8
Milestones == 1 .. (MaxHours \div MILESTONE_HOURS)

VARIABLES
  hours,     \* providers.total_gpu_hours_contributed
  rewards,   \* table milestone_rewards: rewards[p] is the set of its milestone numbers
  call,      \* reports under way
  paid,      \* history: deposits the ledger made for a milestone
  dropped    \* history: providers that had a report dropped

vars == <<hours, rewards, call, paid, dropped>>

Idle == [pc |-> "idle", prov |-> NoOne, earned |-> 0, next |-> 0]

TypeOK ==
  /\ hours \in [Providers -> 0 .. MaxHours]
  /\ rewards \in [Providers -> SUBSET Milestones]
  /\ call \in [Slots -> [pc : {"idle", "count", "pay", "record"}, prov : Providers \cup {NoOne},
                         earned : Nat, next : Nat]]
  /\ paid \in [Providers -> [Milestones -> Nat]]
  /\ dropped \subseteq Providers

Init ==
  /\ hours = [p \in Providers |-> 0]
  /\ rewards = [p \in Providers |-> {}]
  /\ call = [s \in Slots |-> Idle]
  /\ paid = [p \in Providers |-> [m \in Milestones |-> 0]]
  /\ dropped = {}

\* Mutant: .. for ..=, the last milestone is left out.
Loop_exclusive(s, n) ==
  call' = [call EXCEPT ![s] = IF n < call[s].earned
                              THEN [pc |-> "pay", prov |-> call[s].prov,
                                    earned |-> call[s].earned, next |-> n]
                              ELSE Idle]

\* The loop over (claimed + 1)..=(milestones_earned) at milestone n.
Loop(s, n) ==
  call' = [call EXCEPT ![s] = IF n <= call[s].earned
                              THEN [pc |-> "pay", prov |-> call[s].prov,
                                    earned |-> call[s].earned, next |-> n]
                              ELSE Idle]

-----------------------------------------------------------------------------
\* Mutant: hours are rounded up to the next milestone.
add_hours_ceil(s, p, h) ==
  /\ call[s].pc = "idle"
  /\ hours[p] + h <= MaxHours
  /\ hours' = [hours EXCEPT ![p] = @ + h]
  /\ call' = [call EXCEPT ![s] = [pc |-> "count", prov |-> p,
                                  earned |-> (hours[p] + h) \div MILESTONE_HOURS + 1, next |-> 0]]
  /\ UNCHANGED <<rewards, paid, dropped>>

\* UPDATE providers SET total_gpu_hours_contributed = ... RETURNING ...
add_hours(s, p, h) ==
  /\ call[s].pc = "idle"
  /\ hours[p] + h <= MaxHours
  /\ hours' = [hours EXCEPT ![p] = @ + h]
  /\ call' = [call EXCEPT ![s] = [pc |-> "count", prov |-> p,
                                  earned |-> (hours[p] + h) \div MILESTONE_HOURS, next |-> 0]]
  /\ UNCHANGED <<rewards, paid, dropped>>

\* Mutant: the loop starts at the last claimed milestone plus two.
count_claimed_skip(s) ==
  /\ call[s].pc = "count"
  /\ Loop(s, Cardinality(rewards[call[s].prov]) + 2)
  /\ UNCHANGED <<hours, rewards, paid, dropped>>

\* SELECT COUNT(*) FROM milestone_rewards; a failing query counts as zero.
count_claimed(s) ==
  /\ call[s].pc = "count"
  /\ \/ Loop(s, Cardinality(rewards[call[s].prov]) + 1)
     \/ call[s].prov \in Failing /\ Loop(s, 1)
  /\ UNCHANGED <<hours, rewards, paid, dropped>>

\* Mutant: the deposit is not awaited.
pay_reward_spawn(s) ==
  /\ call[s].pc = "pay"
  /\ call' = [call EXCEPT ![s].pc = "record"]
  /\ UNCHANGED <<hours, rewards, paid, dropped>>

\* POST to the ledger's deposit.  The request or its effect may be lost; the
\* handler goes on either way.
pay_reward(s) ==
  /\ call[s].pc = "pay"
  /\ call' = [call EXCEPT ![s].pc = "record"]
  /\ \/ paid' = [paid EXCEPT ![call[s].prov][call[s].next] = @ + 1]
     \/ call[s].prov \in Lossy /\ UNCHANGED paid
  /\ UNCHANGED <<hours, rewards, dropped>>

\* INSERT ... ON CONFLICT DO NOTHING; its error is ignored.
record_reward(s) ==
  /\ call[s].pc = "record"
  /\ \/ rewards' = [rewards EXCEPT ![call[s].prov] = @ \cup {call[s].next}]
     \/ call[s].prov \in Failing /\ UNCHANGED rewards
  /\ Loop(s, call[s].next + 1)
  /\ UNCHANGED <<hours, paid, dropped>>

\* The client disconnects and the handler is dropped at an await.
abort_report(s) ==
  /\ call[s].pc # "idle" /\ call[s].prov \in Dropped
  /\ call' = [call EXCEPT ![s] = Idle]
  /\ dropped' = dropped \cup {call[s].prov}
  /\ UNCHANGED <<hours, rewards, paid>>

Next ==
  \E s \in Slots :
    \/ \E p \in Providers, h \in JobHours : add_hours(s, p, h)
    \/ count_claimed(s) \/ pay_reward(s) \/ record_reward(s) \/ abort_report(s)

Spec == Init /\ [][Next]_vars

\* A report that is not dropped is handled to its end.
FairSpec ==
  Spec /\ \A s \in Slots : WF_vars(count_claimed(s) \/ pay_reward(s) \/ record_reward(s))

-----------------------------------------------------------------------------
(* Properties *)

\* The table holds the milestones 1 .. k of a provider without a gap, however
\* many reports are handled at once and wherever they are dropped, as long as
\* no statement fails: only then is COUNT(*) the last claimed milestone.
RewardsContiguous ==
  \A p \in Providers \ Failing : \E k \in 0 .. (MaxHours \div MILESTONE_HOURS) : rewards[p] = 1 .. k

\* No milestone is paid or recorded before its hours were contributed,
\* whatever fails, gets lost or is dropped.
PaidWhenEarned ==
  \A p \in Providers, m \in Milestones :
    paid[p][m] > 0 \/ m \in rewards[p] => m * MILESTONE_HOURS <= hours[p]

\* A recorded milestone was paid ("Track which milestone rewards have been
\* issued", migrations/005_gpu_hours.sql:7), if the ledger was reached: it
\* will not be tried again.
RecordedIsPaid == \A p \in Providers \ Lossy : \A m \in rewards[p] : paid[p][m] >= 1

\* "ON CONFLICT DO NOTHING prevents double-paying" (grpc.rs report_completion).
PaidOnce == \A p \in Providers, m \in Milestones : paid[p][m] <= 1

\* Every milestone whose hours were contributed is paid in the end, also when
\* several reports cross it at the same time, if no statement fails, the
\* ledger is reached and no report was dropped.
EarnedIsPaid ==
  \A p \in Providers \ (Failing \cup Lossy), m \in Milestones :
    (hours[p] >= m * MILESTONE_HOURS) ~> (paid[p][m] >= 1 \/ p \in dropped)

-----------------------------------------------------------------------------
(* What holds for a report under way *)

\* The handler works on milestones that are earned.
CallsEarned ==
  \A s \in Slots :
    /\ call[s].pc # "idle" => /\ call[s].prov \in Providers
                              /\ call[s].earned * MILESTONE_HOURS <= hours[call[s].prov]
    /\ call[s].pc \in {"pay", "record"} => call[s].next \in 1 .. call[s].earned

\* Everything before the milestone in hand is recorded.
CallsContiguous ==
  \A s \in Slots :
    call[s].pc \in {"pay", "record"} /\ call[s].prov \notin Failing =>
      \A m \in 1 .. (call[s].next - 1) : m \in rewards[call[s].prov]

\* The milestone about to be recorded was paid.
CallsPaid ==
  \A s \in Slots : call[s].pc = "record" /\ call[s].prov \notin Lossy => paid[call[s].prov][call[s].next] >= 1
=============================================================================
