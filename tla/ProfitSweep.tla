---------------------------- MODULE ProfitSweep ----------------------------
(***************************************************************************)
(* Profit Sweep in Live mode for one account: the durable store of policy, *)
(* accounting and intents (profit_sweep.py), the lifecycle that the API    *)
(* process runs over it (api/profit_sweep.py) and the exchange adapters it *)
(* submits to and reads back (profit_sweep_transfers.py).                  *)
(*                                                                         *)
(* An intent is written before the exchange is called and claimed before   *)
(* it is submitted.  The answer may be lost, the API process may die       *)
(* between any two writes, and what became of the transfer is then read    *)
(* from the exchange's history.  A Vault sweep to Main Spot takes two      *)
(* transfers: leg 1 to Main Perps, which settles nothing, and leg 2, which *)
(* forwards what leg 1 received and settles that.                          *)
(*                                                                         *)
(* A write is one SQLite transaction.  One owned thread at a time holds    *)
(* the account lock; a cancelled request does not stop its thread.         *)
(***************************************************************************)
EXTENDS Integers, FiniteSets

CONSTANTS
    MaxOps,         \* bound: transfers ever prepared
    MaxPnl,         \* bound: the account's cumulative net PnL
    MaxDay,         \* bound: UTC days
    MaxCrashes,     \* bound: deaths of the API process
    MaxChanges,     \* bound: policy changes made by the user
    Routes,         \* the routes a sweep of this account can take
    Rooms,          \* what the account can transfer above its reserve
    Share,          \* amount due per unit of new peak profit
    Trigger, Step, Minimum, SingleLimit, DailyLimit, CatchUp,
    None

Ops == 1..MaxOps

ASSUME SweepAssumption ==
    /\ {MaxOps, MaxPnl, MaxDay, MaxCrashes, MaxChanges} \subseteq Nat
    /\ {Share, Trigger, SingleLimit, DailyLimit, CatchUp} \subseteq Nat
    /\ {Step, Minimum} \subseteq Nat \ {0}
    /\ Rooms \subseteq Nat
    /\ Routes \subseteq {"spot", "perps", "forward"}
    /\ None \notin Ops

VARIABLES
    mode,       \* operating_mode of the policy, "none" without one
    live,       \* the live_state row
    dryBase,    \* the baseline of the Dry generation
    intent,     \* intent[o]: the live_intents row of operation o
    prepared,   \* operations ever prepared
    job,        \* the thread that holds the account lock
    api,        \* the API process: down, started, or recovered
    world,      \* world[o]: what the exchange made of operation o
    posts,      \* posts[o]: requests sent for operation o
    pnl, day,   \* the account's cumulative net PnL, the UTC day
    taken,      \* received out of the account under this live_state
    carried,    \* leg 1 intents not forwarded when this live_state began
    wanted,     \* whether the user's last choice was Live
    crashes, changes

vars == <<mode, live, dryBase, intent, prepared, job, api, world, posts,
          pnl, day, taken, carried, wanted, crashes, changes>>
store == <<mode, live, dryBase, intent, prepared>>
outside == <<world, posts, pnl, day, taken, carried>>
user == <<wanted, changes>>

\* got is the received_amount of the reconciliation kept with the submission.
NoIntent == [state |-> "none", route |-> "spot", parent |-> None, amount |-> 0,
             sub |-> "none", got |-> 0]
Intent == [state : {"none", "prepared", "submitting", "unknown", "confirmed", "failed"},
           route : {"spot", "perps", "forward", "leg2"}, parent : Ops \cup {None},
           amount : Nat, sub : {"none", "submitting", "submitted", "failed", "unknown"},
           got : Nat]

NewLive(base) == [base |-> base, hwm |-> 0, due |-> 0, confirmed |-> 0,
                  day |-> 0, daily |-> 0]
Live == [base : Int, hwm : Nat, due : Nat, confirmed : Nat, day : Nat, daily : Nat]

\* boot: no, or which of recovery's two loops the thread is in.
Free == [at |-> "free", op |-> None, boot |-> "no", todo |-> {},
         route |-> "spot", amount |-> 0, due |-> 0, result |-> "unknown"]
Job == [at : {"free", "create", "claim", "post", "answer", "poll", "resolve",
              "forward", "scan", "next"},
        op : Ops \cup {None}, boot : {"no", "intents", "forwards"}, todo : SUBSET Ops,
        route : Routes \cup {"spot"}, amount : Nat, due : Nat,
        result : {"unknown", "confirmed", "failed"}]

Unsent == [state |-> "idle", net |-> 0]
World == [state : {"idle", "sent", "done", "odd", "refused"}, net : Nat]

Init ==
    /\ mode = "disabled" /\ live = NewLive(0) /\ dryBase = 0
    /\ intent = [o \in Ops |-> NoIntent] /\ prepared = 0
    /\ job = Free /\ api = "recovered"
    /\ world = [o \in Ops |-> Unsent] /\ posts = [o \in Ops |-> 0]
    /\ pnl = 0 /\ day = 0 /\ taken = 0 /\ carried = {} /\ wanted = FALSE
    /\ crashes = 0 /\ changes = 0

-----------------------------------------------------------------------------
(* The store.                                                               *)

Larger(a, b) == IF a >= b THEN a ELSE b
Smaller(a, b) == IF a <= b THEN a ELSE b
Oldest(o, S) == o \in S /\ \A p \in S : o <= p

\* The rows of live_intents_one_unresolved.
Unresolved == {o \in Ops : intent[o].state \in {"prepared", "submitting", "unknown"}}

\* Leg 2 intents of leg 1 p that did not fail.
ActiveForwards(p) ==
    {o \in Ops : intent[o].route = "leg2" /\ intent[o].parent = p /\ intent[o].state # "failed"}

\* Confirmed leg 1 intents whose funds still wait in Main Perps.
Unforwarded ==
    {o \in Ops : /\ intent[o].route = "forward" /\ intent[o].state = "confirmed"
                 /\ ActiveForwards(o) = {}}

RoundDown(x) == x - (x % Step)
UsedToday == IF live.day = day THEN live.daily ELSE 0

\* Mutant: the watermark stays where it was.
EvaluatedAgain ==
    LET net == pnl - live.base
    IN [live EXCEPT !.due = @ + Share * Larger(0, net - live.hwm),
                    !.day = day, !.daily = UsedToday]

\* calculate_sweep and evaluate_live with room to transfer: the new live_state
\* row and the amount to sweep, 0 for none.
Evaluated ==
    LET net == pnl - live.base
        hwm == IF net >= Trigger THEN Larger(live.hwm, net) ELSE live.hwm
    IN [live EXCEPT !.hwm = hwm, !.due = @ + Share * (hwm - live.hwm),
                    !.day = day, !.daily = UsedToday]

AtLeastMinimum(x) == IF x < Minimum THEN 0 ELSE x

\* Mutant: the daily limit is one for each transfer.
SweepAmountEachDay(room) ==
    LET net == pnl - live.base
        first == IF net < Trigger \/ net < Evaluated.hwm THEN 0
                 ELSE RoundDown(Smaller(Smaller(Evaluated.due, room), Smaller(SingleLimit, DailyLimit)))
    IN AtLeastMinimum(first)

SweepAmount(room) ==
    LET net == pnl - live.base
        limit == Smaller(Smaller(Evaluated.due, room),
                         Smaller(SingleLimit, Larger(0, DailyLimit - UsedToday)))
        first == IF net < Trigger \/ net < Evaluated.hwm THEN 0
                 ELSE AtLeastMinimum(RoundDown(limit))
        capped == IF live.confirmed = 0 THEN Smaller(first, CatchUp) ELSE first
    IN AtLeastMinimum(RoundDown(capped))

\* create_live_intent inserts the row of a new operation.
NewOp == prepared + 1
Insert(route, parent, amount) ==
    /\ intent' = [intent EXCEPT ![NewOp] =
                    [NoIntent EXCEPT !.state = "prepared", !.route = route,
                                     !.parent = parent, !.amount = amount]]
    /\ prepared' = NewOp

\* What is settled when operation o is confirmed; leg 1 of a forwarding
\* sweep settles nothing.
Settled(o) == IF intent[o].route = "forward" THEN 0 ELSE intent[o].got

\* Mutant: every failure pauses.
ResolvedModePaused(o, target) ==
    IF target # "confirmed" THEN "paused_unknown"
    ELSE IF mode = "paused_unknown" THEN "live" ELSE mode

\* The mode after reconcile_live_intent brought operation o to state target.
ResolvedMode(o, target) ==
    CASE target = "unknown" \/ (target = "failed" /\ intent[o].route = "leg2") -> "paused_unknown"
      [] OTHER -> IF mode = "paused_unknown" THEN "live" ELSE mode

-----------------------------------------------------------------------------
(* The scheduler.                                                           *)

Up == api # "down"

\* What the thread does when it is through with an operation: in recovery it
\* goes on with the next loop or the next operation.
Finished(j) ==
    CASE j.boot = "no" -> Free
      [] j.boot = "intents" -> [Free EXCEPT !.at = "scan", !.boot = "intents"]
      [] j.boot = "forwards" -> [Free EXCEPT !.at = "next", !.boot = "forwards", !.todo = j.todo]

\* _evaluate_live_sync up to the reservation.  The scheduler evaluates only
\* after recovery.
Evaluate(room, route) ==
    /\ api = "recovered" /\ job = Free
    /\ mode = "live" /\ Unresolved = {}
    /\ prepared < MaxOps
    /\ live' = Evaluated
    /\ job' = IF SweepAmount(room) = 0 THEN Free
              ELSE [Free EXCEPT !.at = "create", !.route = route, !.due = Evaluated.due,
                                !.amount = SweepAmount(room)]
    /\ UNCHANGED <<mode, dryBase, intent, prepared, api, outside, user, crashes>>

\* _prepare_persisted_intent for a sweep: the descriptor is refused, or the
\* intent is created.  The code compares the whole evaluated row with the
\* current one, here its due amount: nobody can have written it, as only the
\* holder of the account lock changes the mode and a baseline is not reset
\* while it is Live.
Reserve ==
    /\ job.at = "create"
    /\ \/ /\ mode = "live" /\ Unresolved = {}
          /\ job.due = live.due /\ job.amount <= live.due
          /\ Insert(job.route, NewOp, job.amount)
          /\ job' = [job EXCEPT !.at = "claim", !.op = NewOp]
       \/ job' = Free /\ UNCHANGED <<intent, prepared>>
    /\ UNCHANGED <<mode, live, dryBase, api, outside, user, crashes>>

-----------------------------------------------------------------------------
(* _execute_prepared_intent: claim, submit once, record, reconcile.         *)

Claim ==
    /\ job.at = "claim"
    /\ IF intent[job.op].state = "prepared"
       THEN /\ intent' = [intent EXCEPT ![job.op].state = "submitting",
                                        ![job.op].sub = "submitting"]
            /\ job' = [job EXCEPT !.at = "post"]
       ELSE job' = Finished(job) /\ UNCHANGED intent
    /\ UNCHANGED <<mode, live, dryBase, prepared, api, outside, user, crashes>>

\* submit_transfer sends the request.
Post ==
    /\ job.at = "post"
    /\ world' = [world EXCEPT ![job.op].state = "sent"]
    /\ posts' = [posts EXCEPT ![job.op] = @ + 1]
    /\ job' = [job EXCEPT !.at = "answer"]
    /\ UNCHANGED <<store, api, pnl, day, taken, carried, user, crashes>>

\* submit_transfer fails before it sends anything, which is a failed
\* submission, or its descriptor no longer fits the account and it raises.
NotPosted ==
    /\ job.at = "post"
    /\ \/ /\ intent' = [intent EXCEPT ![job.op].sub = "failed"]
          /\ job' = [job EXCEPT !.at = "poll"]
       \/ job' = Finished(job) /\ UNCHANGED intent
    /\ UNCHANGED <<mode, live, dryBase, prepared, api, outside, user, crashes>>

\* Mutant: any error is a refusal.
AnswersGuessed(o) ==
    CASE world[o].state = "sent" -> {"failed"}
      [] world[o].state \in {"done", "odd"} -> {"submitted", "failed"}
      [] world[o].state = "refused" -> {"failed"}
      [] OTHER -> {}

\* _response_status and the exceptions of submit_transfer.  Only the exchange's
\* own refusal is a failure; a lost or unclear answer is unknown.
Answers(o) ==
    CASE world[o].state = "sent" -> {"unknown"}
      [] world[o].state \in {"done", "odd"} -> {"submitted", "unknown"}
      [] world[o].state = "refused" -> {"failed", "unknown"}
      [] OTHER -> {}

Answered ==
    /\ job.at = "answer"
    /\ \E s \in Answers(job.op) : intent' = [intent EXCEPT ![job.op].sub = s]
    /\ job' = [job EXCEPT !.at = "poll"]
    /\ UNCHANGED <<mode, live, dryBase, prepared, api, outside, user, crashes>>

\* reconcile_transfer.  History that shows nothing yet, shows several matching
\* records or cannot be read leaves the outcome unknown, and so does a Vault
\* record without a received amount or with a closing cost.
Readings(o) ==
    IF intent[o].sub = "failed" THEN {"failed"}
    ELSE {"unknown"}
         \cup (IF world[o].state = "done" THEN {"confirmed"} ELSE {})
         \cup (IF world[o].state = "refused" THEN {"failed"} ELSE {})

\* The reconciliation is stored with the submission before it is applied.
Poll ==
    /\ job.at = "poll"
    /\ \E r \in Readings(job.op) :
         /\ intent' = [intent EXCEPT ![job.op].got =
                         IF r = "confirmed" THEN world[job.op].net ELSE 0]
         /\ job' = [job EXCEPT !.at = "resolve", !.result = r]
    /\ UNCHANGED <<mode, live, dryBase, prepared, api, outside, user, crashes>>

\* reconcile_live_intent, and on to leg 2 after a confirmed leg 1.
Resolve ==
    /\ job.at = "resolve"
    /\ LET o == job.op
           amount == IF job.result = "confirmed" THEN Settled(o) ELSE 0
       IN /\ intent' = [intent EXCEPT ![o].state = job.result]
          /\ live' = IF amount = 0 THEN live
                     ELSE [live EXCEPT !.due = Larger(0, @ - amount),
                                       !.confirmed = @ + amount,
                                       !.day = day, !.daily = UsedToday + amount]
          /\ mode' = ResolvedMode(o, job.result)
          /\ job' = IF job.result = "confirmed" /\ intent[o].route = "forward"
                    THEN [job EXCEPT !.at = "forward"] ELSE Finished(job)
    /\ UNCHANGED <<dryBase, prepared, api, outside, user, crashes>>

-----------------------------------------------------------------------------
(* _create_vault_leg_two.                                                   *)

\* create_live_intent accepts leg 2 of leg 1 p (below the bound on operations).
MayForward(p) ==
    /\ mode \in {"live", "paused_unknown"}
    /\ intent[p].state = "confirmed" /\ intent[p].got > 0
    /\ Unresolved = {}
    /\ intent[p].got <= live.due
    /\ prepared < MaxOps

Forward ==
    /\ job.at = "forward"
    /\ LET p == job.op
       IN \/ ActiveForwards(p) # {} /\ job' = Finished(job) /\ UNCHANGED <<intent, prepared>>
          \/ /\ ActiveForwards(p) = {} /\ MayForward(p)
             /\ Insert("leg2", p, intent[p].got)
             /\ job' = [job EXCEPT !.at = "claim", !.op = NewOp]
    /\ UNCHANGED <<mode, live, dryBase, api, outside, user, crashes>>

\* Mutant: the policy stays Live.
ForwardRefusedQuietly ==
    /\ job.at = "forward" /\ ActiveForwards(job.op) = {}
    /\ job' = Finished(job)
    /\ UNCHANGED <<store, api, outside, user, crashes>>

\* Leg 2 cannot be created: the account is not readable, or it is refused.
\* Without an unresolved intent the policy is paused.
ForwardRefused ==
    /\ job.at = "forward" /\ ActiveForwards(job.op) = {}
    /\ mode' = IF Unresolved = {} /\ mode # "none" THEN "paused_unknown" ELSE mode
    /\ job' = Finished(job)
    /\ UNCHANGED <<live, dryBase, intent, prepared, api, outside, user, crashes>>

-----------------------------------------------------------------------------
(* Recovery and Reconcile.                                                  *)

\* Mutants: what was claimed is submitted again; it is left alone.
ResumeAgain(o, boot) ==
    LET j == [Free EXCEPT !.op = o, !.boot = boot]
    IN CASE intent[o].state = "prepared" -> [j EXCEPT !.at = "claim"]
         [] intent[o].state = "submitting" -> [j EXCEPT !.at = "post"]
         [] intent[o].state = "unknown" -> [j EXCEPT !.at = "poll"]
         [] intent[o].state = "confirmed" /\ intent[o].route = "forward" -> [j EXCEPT !.at = "forward"]
         [] OTHER -> Finished(j)

ResumeUnclaimed(o, boot) ==
    LET j == [Free EXCEPT !.op = o, !.boot = boot]
    IN CASE intent[o].state = "prepared" -> [j EXCEPT !.at = "claim"]
         [] intent[o].state = "unknown" -> [j EXCEPT !.at = "poll"]
         [] intent[o].state = "confirmed" /\ intent[o].route = "forward" -> [j EXCEPT !.at = "forward"]
         [] OTHER -> Finished(j)

\* _reconcile_operation_sync: a prepared intent is executed, a submitted one
\* only looked up, a confirmed leg 1 forwarded.
Resume(o, boot) ==
    LET j == [Free EXCEPT !.op = o, !.boot = boot]
    IN CASE intent[o].state = "prepared" -> [j EXCEPT !.at = "claim"]
         [] intent[o].state \in {"submitting", "unknown"} -> [j EXCEPT !.at = "poll"]
         [] intent[o].state = "confirmed" /\ intent[o].route = "forward" -> [j EXCEPT !.at = "forward"]
         [] OTHER -> Finished(j)

\* The user asks for operation o.
Reconcile(o) ==
    /\ Up /\ job = Free
    /\ intent[o].state # "none"
    /\ job' = Resume(o, "no")
    /\ UNCHANGED <<store, api, outside, user, crashes>>

\* _reconcile_unresolved_sync, first loop: the unresolved intent, if any.
Recover ==
    /\ api = "started" /\ job = Free
    /\ \/ Unresolved = {} /\ job' = [Free EXCEPT !.at = "scan", !.boot = "intents"]
       \/ \E o \in Unresolved : job' = Resume(o, "intents")
    /\ UNCHANGED <<store, api, outside, user, crashes>>

\* Second loop: the leg 1 intents that were not forwarded when it starts.
ScanForwards ==
    /\ job.at = "scan"
    /\ job' = [Free EXCEPT !.at = "next", !.boot = "forwards", !.todo = Unforwarded]
    /\ UNCHANGED <<store, api, outside, user, crashes>>

NextForward ==
    /\ job.at = "next"
    /\ \/ job.todo = {} /\ job' = Free /\ api' = "recovered"
       \/ \E o \in Ops :
            /\ Oldest(o, job.todo)
            /\ job' = [job EXCEPT !.at = "forward", !.op = o, !.todo = @ \ {o}]
            /\ UNCHANGED api
    /\ UNCHANGED <<store, outside, user, crashes>>

Crash ==
    /\ Up /\ crashes < MaxCrashes
    /\ api' = "down" /\ job' = Free /\ crashes' = crashes + 1
    /\ UNCHANGED <<store, outside, user>>

Restart ==
    /\ api = "down" /\ api' = "started"
    /\ UNCHANGED <<store, job, outside, user, crashes>>

-----------------------------------------------------------------------------
(* The user's changes of the policy.                                        *)

Change == Up /\ changes < MaxChanges /\ changes' = changes + 1

\* A live_state row that starts over.
StartOver(base) == live' = NewLive(base) /\ taken' = 0 /\ carried' = Unforwarded

\* _save_policy_sync: Disable, or Dry.
SavePolicy(m) ==
    /\ Change /\ job = Free
    /\ mode \notin {"none", m} /\ Unresolved = {}
    /\ mode' = m /\ wanted' = FALSE
    /\ UNCHANGED <<live, dryBase, intent, prepared, job, api, outside, crashes>>

\* activate_live with the baseline Fresh or Include Dry Period.
ActivateLive(base) ==
    /\ Change /\ job = Free
    /\ mode \in {"disabled", "dry"} /\ Unresolved = {}
    /\ StartOver(base)
    /\ mode' = "live" /\ wanted' = TRUE
    /\ UNCHANGED <<dryBase, intent, prepared, job, api, world, posts, pnl, day, crashes>>

\* rebaseline_live, before any confirmed Live transfer.
RebaselineLive(base) ==
    /\ Change /\ job = Free
    /\ mode = "live" /\ Unresolved = {}
    /\ live.confirmed = 0 /\ \A o \in Ops : intent[o].state # "confirmed"
    /\ StartOver(base)
    /\ UNCHANGED <<mode, dryBase, intent, prepared, job, api, world, posts, pnl, day,
                   wanted, crashes>>

\* reset_baseline, which does not take the account lock.  Saving another asset
\* or baseline setting does the same.
ResetBaseline(base) ==
    /\ Change
    /\ mode \in {"disabled", "dry"} /\ Unresolved = {}
    /\ StartOver(base) /\ dryBase' = base
    /\ UNCHANGED <<mode, intent, prepared, job, api, world, posts, pnl, day, wanted, crashes>>

\* delete_policy, without the account lock; its rows go with the policy.
DeletePolicy ==
    /\ Change
    /\ mode \in {"disabled", "dry"} /\ Unresolved = {}
    /\ mode' = "none" /\ intent' = [o \in Ops |-> NoIntent]
    /\ live' = NewLive(0) /\ dryBase' = 0 /\ taken' = 0 /\ carried' = {}
    /\ UNCHANGED <<prepared, job, api, world, posts, pnl, day, wanted, crashes>>

CreatePolicy ==
    /\ Change /\ job = Free
    /\ mode = "none" /\ mode' = "disabled"
    /\ StartOver(0) /\ dryBase' = 0
    /\ UNCHANGED <<intent, prepared, job, api, world, posts, pnl, day, wanted, crashes>>

-----------------------------------------------------------------------------
(* The account and the exchange.                                            *)

Trade(p) ==
    /\ p \in 0..MaxPnl /\ p # pnl /\ pnl' = p
    /\ UNCHANGED <<store, job, api, world, posts, day, taken, carried, user, crashes>>

Midnight ==
    /\ day < MaxDay /\ day' = day + 1
    /\ UNCHANGED <<store, job, api, world, posts, pnl, taken, carried, user, crashes>>

\* A request that arrived is executed, in full or, for a Vault withdrawal,
\* net of costs, executed with a record that does not settle it, or refused.
Exchange(o) ==
    /\ world[o].state = "sent"
    /\ \/ \E n \in 1..intent[o].amount, s \in {"done", "odd"} :
            /\ intent[o].route \in {"spot", "leg2"} => n = intent[o].amount /\ s = "done"
            /\ world' = [world EXCEPT ![o] = [state |-> s, net |-> n]]
            /\ taken' = IF intent[o].route = "leg2" THEN taken ELSE taken + n
       \/ /\ world' = [world EXCEPT ![o].state = "refused"]
          /\ UNCHANGED taken
    /\ UNCHANGED <<store, job, api, posts, pnl, day, carried, user, crashes>>

-----------------------------------------------------------------------------
(* The specification.                                                       *)

JobStep ==
    \/ Reserve \/ Claim \/ Post \/ NotPosted \/ Answered \/ Poll \/ Resolve
    \/ Forward \/ ForwardRefused \/ ScanForwards \/ NextForward

Policy ==
    \/ \E m \in {"disabled", "dry"} : SavePolicy(m)
    \/ \E b \in {pnl, dryBase} : ActivateLive(b) \/ RebaselineLive(b)
    \/ \E b \in {pnl, 0} : ResetBaseline(b)
    \/ DeletePolicy \/ CreatePolicy

Next ==
    \/ \E room \in Rooms, route \in Routes : Evaluate(room, route)
    \/ JobStep
    \/ \E o \in Ops : Reconcile(o)
    \/ Recover \/ Crash \/ Restart
    \/ Policy
    \/ \E p \in 0..MaxPnl : Trade(p)
    \/ Midnight
    \/ \E o \in Ops : Exchange(o)

Spec == Init /\ [][Next]_vars

\* Reconcile of an intent that may be anywhere on the exchange; its history,
\* asked again and again, in the end shows what happened.
ReconcilePending == \E o \in Unresolved : Reconcile(o)
ReadOutcome == Poll /\ job'.result # "unknown"

Fairness ==
    /\ WF_vars(JobStep) /\ WF_vars(Restart) /\ WF_vars(Recover)
    /\ SF_vars(ReconcilePending) /\ SF_vars(ReadOutcome)

LiveSpec == Spec /\ Fairness

-----------------------------------------------------------------------------
(* Properties.                                                              *)

TypeOK ==
    /\ mode \in {"none", "disabled", "dry", "live", "paused_unknown"}
    /\ live \in Live /\ dryBase \in Nat
    /\ intent \in [Ops -> Intent] /\ prepared \in 0..MaxOps
    /\ job \in Job /\ api \in {"down", "started", "recovered"}
    /\ world \in [Ops -> World] /\ posts \in [Ops -> Nat]
    /\ pnl \in 0..MaxPnl /\ day \in 0..MaxDay
    /\ taken \in Nat /\ carried \subseteq Ops /\ wanted \in BOOLEAN
    /\ crashes \in 0..MaxCrashes /\ changes \in 0..MaxChanges

\* The exchange is asked for a transfer at most once, whatever dies and is
\* recovered or reconciled when (_execute_prepared_intent, "Submit a prepared
\* intent once").
PostedOnce == \A o \in Ops : posts[o] <= 1

\* An intent that is recorded as failed moved nothing and never will; one that
\* is recorded as confirmed was executed (reconcile_live_intent).
OutcomeTrue ==
    \A o \in Ops :
        /\ intent[o].state = "failed" => world[o].state \in {"idle", "refused"}
        /\ intent[o].state = "confirmed" => world[o].state = "done"

\* What is due and what was swept add up to the entitlement of the high
\* watermark: no confirmed transfer is settled twice or not at all, and no
\* settlement is cut off at zero (evaluate_live, reconcile_live_intent).
BooksBalance == live.due + live.confirmed = Share * live.hwm

\* No more is taken out of the account than its profit entitles to, though leg
\* 1 moves funds without settling them and leg 2 may fail, be lost or be
\* retried, provided no withdrawal was left over when Live was activated.
TakenWithinEntitlement == carried = {} => taken <= Share * live.hwm

\* The transfers settled on one UTC day stay within the daily limit, midnight
\* passing between reservation and settlement included.
DailyLimitKept == carried = {} => live.daily <= DailyLimit

\* A policy that is paused always shows the user why: an operation is
\* unresolved, or a withdrawal waits in Main Perps to be forwarded.  Reconciling
\* it ends the pause unless, after Live was activated again, the withdrawal is
\* larger than what is due (_create_vault_leg_two, reconcile_live_intent).
PauseExplained ==
    mode = "paused_unknown" /\ job = Free => Unresolved \cup Unforwarded # {}

\* A transfer that the exchange executed with a clear record is in the end
\* confirmed, if the user keeps reconciling what is unresolved.
Settles ==
    \A o \in Ops : (world[o].state = "done") ~> (intent[o].state \in {"confirmed", "none"})

\* "Disable prevents future scheduled submissions": a policy is Live only by
\* the user's last choice, whatever pauses, reconciliations and restarts come
\* after it (_create_vault_leg_two, reconcile_live_intent).
LiveAsChosen == mode = "live" => wanted

\* A leg 2 that is refused leaves a policy alone that the user has switched off.
RefusalKeepsOff == ForwardRefused /\ mode \in {"disabled", "dry"} => mode' = mode

=============================================================================
