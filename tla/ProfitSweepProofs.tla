------------------------- MODULE ProfitSweepProofs -------------------------
(***************************************************************************)
(* Proofs about Profit Sweep for any bounds, limits, routes and amounts.    *)
(***************************************************************************)
EXTENDS ProfitSweep, TLAPS

USE SweepAssumption

-----------------------------------------------------------------------------
(* The inductive invariant.                                                 *)

Executed(o) == world[o].state \in {"done", "odd"}

\* How the store and the exchange see one operation.
OpInv(o) ==
    /\ intent[o].state = "none" => intent[o] = NoIntent
    /\ o > prepared => intent[o].state = "none" /\ world[o].state = "idle"
    /\ posts[o] = IF world[o].state = "idle" THEN 0 ELSE 1
    /\ intent[o].state = "prepared" => world[o].state = "idle"
    /\ world[o].state = "sent" => intent[o].state \in {"submitting", "unknown"}
    /\ intent[o].sub = "failed" \/ intent[o].state = "failed"
         => world[o].state \in {"idle", "refused"}
    /\ intent[o].state = "confirmed" =>
         world[o].state = "done" /\ intent[o].got = world[o].net
    /\ IF Executed(o) THEN world[o].net > 0 ELSE world[o].net = 0
    /\ intent[o].state # "none" => world[o].net <= intent[o].amount
    /\ intent[o].state # "none" /\ intent[o].route \in {"spot", "leg2"} /\ Executed(o)
         => world[o].net = intent[o].amount

\* Where the thread is in the life of its operation.
JobInv ==
    /\ job.at \in {"claim", "post", "answer", "poll", "resolve", "forward"} => job.op \in Ops
    /\ job.at \in {"post", "answer", "poll", "resolve"}
         => intent[job.op].state \in {"submitting", "unknown"}
    /\ job.at = "post" => world[job.op].state = "idle" /\ intent[job.op].sub # "failed"
    /\ job.at = "answer" => world[job.op].state # "idle"
    /\ job.at = "resolve" /\ job.result = "failed" => world[job.op].state \in {"idle", "refused"}
    /\ job.at = "resolve" /\ job.result = "confirmed"
         => world[job.op].state = "done" /\ intent[job.op].got = world[job.op].net
    /\ job.at = "create" => /\ api = "recovered" /\ mode = "live" /\ Unresolved = {}
                            /\ live.daily + job.amount <= DailyLimit /\ prepared < MaxOps
    /\ mode # "none" => \A o \in job.todo \cup (IF job.at = "forward" THEN {job.op} ELSE {}) :
                          intent[o].route = "forward" /\ intent[o].state = "confirmed"
    /\ job.at = "scan" => job.boot = "intents"
    /\ job.at = "next" => job.boot = "forwards"
    /\ api = "down" => job = Free

\* Leg 2 forwards what a confirmed leg 1 received, once unless it fails.
LegsInv ==
    /\ \A o \in Ops : intent[o].route = "leg2" =>
         /\ intent[o].parent \in Ops
         /\ intent[intent[o].parent].route = "forward"
         /\ intent[intent[o].parent].state = "confirmed"
         /\ intent[intent[o].parent].got = intent[o].amount
    /\ \A p \in Ops : \A a, b \in ActiveForwards(p) : a = b

\* One reservation at a time, covered by what is due.
BooksInv ==
    /\ BooksBalance
    /\ \A a, b \in Unresolved : a = b
    /\ \A o \in Unresolved :
         /\ intent[o].amount <= live.due
         /\ intent[o].route # "leg2" => live.daily + intent[o].amount <= DailyLimit

\* What was taken but is not settled belongs to the one unresolved transfer or
\* to the one leg 1 that waits to be forwarded, and while that one waits no
\* evaluation can start.
TakenInv ==
    carried = {} =>
        /\ \A p, q \in Unforwarded : p = q
        /\ Unforwarded # {} => Unresolved = {}
        /\ \A p \in Unforwarded :
             /\ taken = live.confirmed + intent[p].got
             /\ intent[p].got <= live.due
             /\ live.daily + intent[p].got <= DailyLimit
        /\ \A o \in Unresolved :
             /\ taken = live.confirmed + (IF intent[o].route = "leg2" THEN intent[o].amount
                                          ELSE world[o].net)
             /\ live.daily + intent[o].amount <= DailyLimit
        /\ Unresolved = {} /\ Unforwarded = {} => taken = live.confirmed
        /\ live.daily <= DailyLimit

WaitInv ==
    carried = {} /\ Unforwarded # {} =>
        \/ mode # "live"
        \/ api = "down"
        \/ job.at = "forward" /\ job.op \in Unforwarded
        \/ api = "started" /\ (job.boot # "forwards" \/ job.todo \cap Unforwarded # {})

\* A pause has its reason, and intents go with their policy.
PauseInv ==
    /\ mode = "paused_unknown" => Unresolved \cup Unforwarded # {}
    /\ mode = "none" => \A o \in Ops : intent[o].state = "none"

IInv ==
    /\ TypeOK /\ (\A o \in Ops : OpInv(o)) /\ JobInv /\ LegsInv /\ BooksInv
    /\ TakenInv /\ WaitInv /\ PauseInv
-----------------------------------------------------------------------------
(* The arithmetic of an evaluation.                                         *)

\* Rounding to the transfer step never rounds up.
LEMMA RoundDownFact ==
    ASSUME NEW x \in Nat
    PROVE  RoundDown(x) \in Nat /\ RoundDown(x) <= x
<1>1. x % Step \in Nat /\ x % Step <= x
  <2>1. Step \in Nat \ {0}
    OBVIOUS
  <2>2. CASE x < Step
    BY <2>1, <2>2, x % Step = x
  <2>3. CASE x >= Step
    BY <2>1, <2>3, x % Step \in 0..(Step - 1)
  <2> QED
    BY <2>1, <2>2, <2>3
<1> QED
  BY <1>1 DEF RoundDown

\* New peak profit adds its share to what is due.
LEMMA PeakFact ==
    ASSUME NEW c \in Nat, NEW a \in Nat, NEW b \in Nat, a >= b
    PROVE  c * (a - b) \in Nat /\ c * a = c * b + c * (a - b)
OBVIOUS

\* An evaluation keeps the books balanced.
LEMMA EvaluatedFact ==
    ASSUME TypeOK, BooksBalance
    PROVE  /\ Evaluated \in Live
           /\ Evaluated.due + Evaluated.confirmed = Share * Evaluated.hwm
           /\ Evaluated.confirmed = live.confirmed
           /\ Evaluated.daily = UsedToday /\ UsedToday \in Nat /\ UsedToday <= live.daily
<1> DEFINE net == pnl - live.base
           hwm == IF net >= Trigger THEN Larger(live.hwm, net) ELSE live.hwm
<1>1. live \in Live /\ pnl \in Nat /\ day \in Nat /\ net \in Int
  BY DEF TypeOK, Live
<1>2. hwm \in Nat /\ hwm >= live.hwm
  BY <1>1 DEF Larger, Live
<1>3. Share * (hwm - live.hwm) \in Nat /\ Share * hwm = Share * live.hwm + Share * (hwm - live.hwm)
  BY <1>1, <1>2, PeakFact DEF Live
<1>4. UsedToday \in Nat /\ UsedToday <= live.daily
  BY <1>1 DEF UsedToday, Live
<1>5. Evaluated = [live EXCEPT !.hwm = hwm, !.due = @ + Share * (hwm - live.hwm),
                               !.day = day, !.daily = UsedToday]
  BY DEF Evaluated
<1>6. /\ Evaluated.due = live.due + Share * (hwm - live.hwm) /\ Evaluated.confirmed = live.confirmed
      /\ Evaluated.hwm = hwm /\ Evaluated.daily = UsedToday
  BY <1>1, <1>5 DEF Live
<1> DEFINE peak == Share * (hwm - live.hwm)
<1> HIDE DEF hwm, net, peak
<1>7. Evaluated \in Live
  <2>1. live.due + peak \in Nat
    BY <1>1, <1>3 DEF Live, peak
  <2>2. Evaluated = [live EXCEPT !.hwm = hwm, !.due = live.due + peak,
                                 !.day = day, !.daily = UsedToday]
    BY <1>5 DEF peak
  <2> QED
    BY <1>1, <1>2, <1>4, <2>1, <2>2 DEF Live
<1>8. Evaluated.due + Evaluated.confirmed = Share * Evaluated.hwm
  <2>1. live.due + live.confirmed = Share * live.hwm
    BY DEF BooksBalance
  <2>2. live.due \in Nat /\ live.confirmed \in Nat /\ Share * live.hwm \in Nat
    BY <1>1 DEF Live
  <2> QED
    BY <1>2, <1>3, <1>6, <2>1, <2>2
<1> QED
  BY <1>4, <1>6, <1>7, <1>8

\* The amount of a sweep is covered by what is due and by what the day has left.
LEMMA AmountFact ==
    ASSUME TypeOK, BooksBalance, NEW room \in Nat
    PROVE  /\ SweepAmount(room) \in Nat
           /\ SweepAmount(room) # 0 => UsedToday + SweepAmount(room) <= DailyLimit
<1> DEFINE limit == Smaller(Smaller(Evaluated.due, room),
                            Smaller(SingleLimit, Larger(0, DailyLimit - UsedToday)))
           first == IF pnl - live.base < Trigger \/ pnl - live.base < Evaluated.hwm THEN 0
                    ELSE AtLeastMinimum(RoundDown(limit))
           capped == IF live.confirmed = 0 THEN Smaller(first, CatchUp) ELSE first
<1>1. Evaluated.due \in Nat /\ UsedToday \in Nat
  BY EvaluatedFact DEF Live
<1>2. limit \in Nat /\ limit <= Larger(0, DailyLimit - UsedToday)
  BY <1>1 DEF Smaller, Larger
<1>3. first \in Nat /\ first <= limit
  BY <1>2, RoundDownFact DEF AtLeastMinimum
<1>4. capped \in Nat /\ capped <= first
  BY <1>3 DEF Smaller
<1>5. SweepAmount(room) = AtLeastMinimum(RoundDown(capped))
  BY DEF SweepAmount
<1> HIDE DEF limit, first, capped
<1>6. SweepAmount(room) \in Nat /\ SweepAmount(room) <= capped
  BY <1>4, <1>5, RoundDownFact DEF AtLeastMinimum
<1>7. SweepAmount(room) <= Larger(0, DailyLimit - UsedToday)
  BY <1>1, <1>2, <1>3, <1>4, <1>6 DEF Larger
<1> QED
  BY <1>1, <1>6, <1>7 DEF Larger

-----------------------------------------------------------------------------
(* Frames: what does not read a variable does not change with it.           *)

\* The sets of unresolved and unforwarded operations depend on the intents only.
LEMMA SetsFrame ==
    ASSUME intent' = intent
    PROVE  /\ Unresolved' = Unresolved /\ Unforwarded' = Unforwarded
           /\ \A p \in Ops : ActiveForwards(p)' = ActiveForwards(p)
BY DEF Unresolved, Unforwarded, ActiveForwards

\* Intents, accounting and exchange untouched.
LEMMA StoreFrame ==
    ASSUME IInv, UNCHANGED <<live, intent, prepared, world, posts, taken, carried>>
    PROVE  (\A o \in Ops : OpInv(o))' /\ LegsInv' /\ BooksInv' /\ TakenInv'
<1>1. Unresolved' = Unresolved /\ Unforwarded' = Unforwarded
  BY SetsFrame
<1>2. (\A o \in Ops : OpInv(o))'
  BY DEF IInv, OpInv, Executed
<1>3. LegsInv'
  BY SetsFrame DEF IInv, LegsInv
<1>4. BooksInv'
  BY <1>1 DEF IInv, BooksInv, BooksBalance
<1>5. TakenInv'
  BY <1>1 DEF IInv, TakenInv
<1> QED
  BY <1>2, <1>3, <1>4, <1>5

\* An intent that is unresolved before and after a change of its submission,
\* its received amount or its state is neither a new nor a lost reservation.
LEMMA EditFrame ==
    ASSUME TypeOK, NEW o \in Ops, NEW r \in Intent,
           intent[o].state \in {"prepared", "submitting", "unknown"},
           r.state \in {"prepared", "submitting", "unknown"},
           r.route = intent[o].route, r.parent = intent[o].parent,
           intent' = [intent EXCEPT ![o] = r]
    PROVE  /\ Unresolved' = Unresolved /\ Unforwarded' = Unforwarded
           /\ \A p \in Ops : ActiveForwards(p)' = ActiveForwards(p)
<1>1. /\ intent'[o] = r /\ \A q \in Ops \ {o} : intent'[q] = intent[q]
      /\ intent \in [Ops -> Intent]
  BY DEF TypeOK
<1>2. \A p \in Ops : ActiveForwards(p)' = ActiveForwards(p)
  BY <1>1 DEF ActiveForwards
<1>3. Unresolved' = Unresolved
  BY <1>1 DEF Unresolved
<1>4. Unforwarded' = Unforwarded
  BY <1>1, <1>2 DEF Unforwarded
<1> QED
  BY <1>2, <1>3, <1>4

\* Such a change, when it leaves the amount and does not contradict the
\* exchange, keeps everything but the thread's own place.
LEMMA EditKeeps ==
    ASSUME IInv, NEW o \in Ops, NEW r \in Intent,
           intent[o].state \in {"prepared", "submitting", "unknown"},
           r.state \in {"submitting", "unknown"},
           r.route = intent[o].route, r.parent = intent[o].parent,
           r.amount = intent[o].amount,
           r.sub = "failed" => world[o].state \in {"idle", "refused"},
           intent' = [intent EXCEPT ![o] = r],
           mode' \in {mode, "paused_unknown"},
           UNCHANGED <<live, prepared, world, posts, taken, carried>>
    PROVE  /\ (\A q \in Ops : OpInv(q))' /\ LegsInv' /\ BooksInv' /\ TakenInv' /\ PauseInv'
           /\ Unresolved' = Unresolved /\ Unforwarded' = Unforwarded
<1>1. /\ intent'[o] = r /\ \A q \in Ops \ {o} : intent'[q] = intent[q]
      /\ intent \in [Ops -> Intent]
  BY DEF IInv, TypeOK
<1>2. /\ Unresolved' = Unresolved /\ Unforwarded' = Unforwarded
      /\ \A p \in Ops : ActiveForwards(p)' = ActiveForwards(p)
  BY EditFrame DEF IInv
<1>3. (\A q \in Ops : OpInv(q))'
  <2> SUFFICES ASSUME NEW q \in Ops PROVE OpInv(q)'
    OBVIOUS
  <2>1. CASE q = o
    BY <1>1, <2>1 DEF IInv, OpInv, Executed
  <2>2. CASE q # o
    BY <1>1, <2>2 DEF IInv, OpInv, Executed
  <2> QED
    BY <2>1, <2>2
<1>4. LegsInv'
  BY <1>1, <1>2 DEF IInv, LegsInv
<1>5. \A q \in Ops : intent'[q].amount = intent[q].amount /\ intent'[q].route = intent[q].route
  BY <1>1
<1>6. BooksInv'
  BY <1>2, <1>5 DEF IInv, BooksInv, BooksBalance, Unresolved
<1>7. \A p \in Unforwarded : intent'[p].got = intent[p].got
  BY <1>1 DEF Unforwarded
<1>8. TakenInv'
  BY <1>2, <1>5, <1>7 DEF IInv, TakenInv, Unresolved, Unforwarded
<1>9. PauseInv'
  <2>1. mode' # "none" /\ o \in Unresolved
    BY <1>1 DEF IInv, PauseInv, Unresolved
  <2> QED
    BY <1>2, <2>1 DEF PauseInv
<1> QED
  BY <1>2, <1>3, <1>4, <1>6, <1>8, <1>9

-----------------------------------------------------------------------------
(* Steps that only move the thread or the clock.                            *)

\* The store and the exchange untouched.
LEMMA QuietFrame ==
    ASSUME IInv, UNCHANGED <<mode, live, intent, prepared, world, posts, taken, carried>>
    PROVE  /\ (\A o \in Ops : OpInv(o))' /\ LegsInv' /\ BooksInv' /\ TakenInv' /\ PauseInv'
           /\ Unresolved' = Unresolved /\ Unforwarded' = Unforwarded
<1>1. Unresolved' = Unresolved /\ Unforwarded' = Unforwarded
  BY SetsFrame
<1>2. PauseInv'
  BY <1>1 DEF IInv, PauseInv
<1> QED
  BY <1>1, <1>2, StoreFrame

LEMMA FinishedFact ==
    ASSUME NEW j \in Job
    PROVE  /\ Finished(j) \in Job /\ Finished(j).boot = j.boot
           /\ Finished(j).at = CASE j.boot = "no" -> "free" [] j.boot = "intents" -> "scan"
                                 [] j.boot = "forwards" -> "next"
           /\ Finished(j).todo = IF j.boot = "forwards" THEN j.todo ELSE {}
           /\ j.boot = "no" => Finished(j) = Free
<1>1. Free \in Job
  BY DEF Free, Job
<1>2. j.boot \in {"no", "intents", "forwards"} /\ j.todo \in SUBSET Ops
  BY DEF Job
<1>3. CASE j.boot = "no"
  BY <1>1, <1>3 DEF Finished, Free
<1>4. CASE j.boot = "intents"
  BY <1>1, <1>4 DEF Finished, Free, Job
<1>5. CASE j.boot = "forwards"
  BY <1>1, <1>2, <1>5 DEF Finished, Free, Job
<1> QED
  BY <1>2, <1>3, <1>4, <1>5

\* Where a resumed operation is taken up.
LEMMA ResumeFact ==
    ASSUME NEW o \in Ops, NEW boot \in {"no", "intents"}, NEW j, j = Resume(o, boot)
    PROVE  /\ j \in Job /\ j.boot = boot /\ j.todo = {}
           /\ j.at \in {"claim", "poll", "forward", "free", "scan"}
           /\ j.at \in {"claim", "poll", "forward"} => j.op = o
           /\ j.at = "poll" => intent[o].state \in {"submitting", "unknown"}
           /\ j.at = "forward" => intent[o].state = "confirmed" /\ intent[o].route = "forward"
           /\ j.at = "scan" => boot = "intents"
<1> DEFINE k == [Free EXCEPT !.op = o, !.boot = boot]
<1>1. /\ k \in Job /\ k.boot = boot /\ k.todo = {} /\ k.op = o
      /\ \A a \in {"claim", "poll", "forward"} :
           /\ [k EXCEPT !.at = a] \in Job /\ [k EXCEPT !.at = a].boot = boot
           /\ [k EXCEPT !.at = a].todo = {} /\ [k EXCEPT !.at = a].op = o
           /\ [k EXCEPT !.at = a].at = a
  BY DEF Free, Job
<1>2. j = CASE intent[o].state = "prepared" -> [k EXCEPT !.at = "claim"]
            [] intent[o].state \in {"submitting", "unknown"} -> [k EXCEPT !.at = "poll"]
            [] intent[o].state = "confirmed" /\ intent[o].route = "forward" -> [k EXCEPT !.at = "forward"]
            [] OTHER -> Finished(k)
  BY DEF Resume
<1>3. /\ Finished(k) \in Job /\ Finished(k).boot = boot /\ Finished(k).todo = {}
      /\ Finished(k).at \in {"free", "scan"} /\ (Finished(k).at = "scan" => boot = "intents")
  BY <1>1, FinishedFact
<1> HIDE DEF k
<1>4. CASE intent[o].state = "prepared"
  BY <1>1, <1>2, <1>4
<1>5. CASE intent[o].state \in {"submitting", "unknown"}
  BY <1>1, <1>2, <1>5
<1>6. CASE intent[o].state = "confirmed" /\ intent[o].route = "forward"
  BY <1>1, <1>2, <1>6
<1>7. CASE /\ intent[o].state \notin {"prepared", "submitting", "unknown"}
           /\ ~ (intent[o].state = "confirmed" /\ intent[o].route = "forward")
  BY <1>2, <1>3, <1>7
<1> QED
  BY <1>4, <1>5, <1>6, <1>7

\* A thread that takes up operation o where it stands.
LEMMA ResumeKeeps ==
    ASSUME IInv, NEW o \in Ops, NEW boot \in {"no", "intents"}, job = Free, Up,
           boot = "intents" => api = "started",
           job' = Resume(o, boot), UNCHANGED <<store, api, outside, user, crashes>>
    PROVE  IInv'
<1>1. /\ (\A q \in Ops : OpInv(q))' /\ LegsInv' /\ BooksInv' /\ TakenInv' /\ PauseInv'
      /\ Unresolved' = Unresolved /\ Unforwarded' = Unforwarded
  BY QuietFrame DEF store, outside
<1>2. TypeOK'
  BY ResumeFact DEF IInv, TypeOK, store, outside, user
<1>3. JobInv'
  BY ResumeFact DEF IInv, JobInv, store, outside, Up
<1>4. WaitInv'
  BY <1>1, ResumeFact DEF IInv, WaitInv, store, outside, Up, Free
<1> QED
  BY <1>1, <1>2, <1>3, <1>4 DEF IInv

LEMMA ReconcileKeeps ==
    ASSUME IInv, NEW o \in Ops, Reconcile(o)
    PROVE  IInv'
BY ResumeKeeps DEF Reconcile

LEMMA RecoverKeeps ==
    ASSUME IInv, Recover
    PROVE  IInv'
<1>1. CASE \E o \in Unresolved : job' = Resume(o, "intents")
  <2>1. PICK o \in Ops : job' = Resume(o, "intents")
    BY <1>1 DEF Unresolved
  <2> QED
    BY <2>1, ResumeKeeps DEF Recover, Up
<1>2. CASE job' = [Free EXCEPT !.at = "scan", !.boot = "intents"]
  <2>1. /\ (\A q \in Ops : OpInv(q))' /\ LegsInv' /\ BooksInv' /\ TakenInv' /\ PauseInv'
        /\ Unresolved' = Unresolved /\ Unforwarded' = Unforwarded
    BY QuietFrame DEF Recover, store, outside
  <2>2. job' \in Job /\ job'.at = "scan" /\ job'.boot = "intents" /\ job'.todo = {}
    BY <1>2 DEF Free, Job
  <2>3. TypeOK'
    BY <2>2 DEF IInv, TypeOK, Recover, store, outside, user
  <2>4. JobInv'
    BY <2>2 DEF IInv, JobInv, Recover, store, outside
  <2>5. WaitInv'
    BY <2>1, <2>2 DEF IInv, WaitInv, Recover, store, outside, Free
  <2> QED
    BY <2>1, <2>3, <2>4, <2>5 DEF IInv
<1> QED
  BY <1>1, <1>2 DEF Recover

LEMMA ScanForwardsKeeps ==
    ASSUME IInv, ScanForwards
    PROVE  IInv'
<1>1. /\ (\A q \in Ops : OpInv(q))' /\ LegsInv' /\ BooksInv' /\ TakenInv' /\ PauseInv'
      /\ Unresolved' = Unresolved /\ Unforwarded' = Unforwarded
  BY QuietFrame DEF ScanForwards, store, outside
<1>2. Unforwarded \in SUBSET Ops
  BY DEF Unforwarded
<1>3. job' \in Job /\ job'.at = "next" /\ job'.boot = "forwards" /\ job'.todo = Unforwarded
  BY <1>2 DEF ScanForwards, Free, Job
<1>4. TypeOK'
  BY <1>3 DEF IInv, TypeOK, ScanForwards, store, outside, user
<1>5. JobInv'
  <2>1. \A o \in Unforwarded : intent[o].route = "forward" /\ intent[o].state = "confirmed"
    BY DEF Unforwarded
  <2>2. api # "down"
    BY DEF IInv, JobInv, ScanForwards, Free
  <2> QED
    BY <1>3, <2>1, <2>2 DEF IInv, JobInv, ScanForwards, store, outside
<1>6. WaitInv'
  BY <1>1, <1>3 DEF IInv, WaitInv, JobInv, ScanForwards, store, outside
<1> QED
  BY <1>1, <1>4, <1>5, <1>6 DEF IInv

LEMMA NextForwardKeeps ==
    ASSUME IInv, NextForward
    PROVE  IInv'
<1>1. /\ (\A q \in Ops : OpInv(q))' /\ LegsInv' /\ BooksInv' /\ TakenInv' /\ PauseInv'
      /\ Unresolved' = Unresolved /\ Unforwarded' = Unforwarded
  BY QuietFrame DEF NextForward, store, outside
<1>0. /\ job.at = "next"
      /\ UNCHANGED <<mode, live, dryBase, intent, prepared, world, posts, pnl, day, taken,
                     carried, wanted, changes, crashes>>
  BY DEF NextForward, store, outside, user
<1>2. job \in Job /\ job.boot = "forwards" /\ api # "down"
  BY <1>0 DEF IInv, TypeOK, JobInv, Free
<1>3. CASE job.todo = {} /\ job' = Free /\ api' = "recovered"
  <2>1. Free \in Job /\ Free.at = "free" /\ Free.todo = {}
    BY DEF Free, Job
  <2>2. TypeOK'
    BY <1>0, <1>3, <2>1 DEF IInv, TypeOK
  <2>3. JobInv'
    BY <1>0, <1>3, <2>1 DEF IInv, JobInv
  <2>4. WaitInv'
    BY <1>0, <1>1, <1>2, <1>3 DEF IInv, WaitInv
  <2> QED
    BY <1>1, <2>2, <2>3, <2>4 DEF IInv
<1>4. ASSUME NEW o \in job.todo, job' = [job EXCEPT !.at = "forward", !.op = o, !.todo = @ \ {o}],
             UNCHANGED api
      PROVE  IInv'
  <2>1. o \in Ops
    BY <1>2 DEF Job
  <2>2. /\ job' \in Job /\ job'.at = "forward" /\ job'.op = o /\ job'.boot = "forwards"
        /\ job'.todo = job.todo \ {o}
    BY <1>2, <1>4, <2>1 DEF Job
  <2>3. TypeOK'
    BY <1>0, <1>4, <2>2 DEF IInv, TypeOK
  <2>4. JobInv'
    BY <1>0, <1>2, <1>4, <2>1, <2>2 DEF IInv, JobInv
  <2>5. WaitInv'
    BY <1>0, <1>1, <1>2, <1>4, <2>2 DEF IInv, WaitInv
  <2> QED
    BY <1>1, <2>3, <2>4, <2>5 DEF IInv
<1> QED
  BY <1>3, <1>4 DEF NextForward, Oldest

LEMMA CrashKeeps ==
    ASSUME IInv, Crash
    PROVE  IInv'
<1>1. /\ (\A q \in Ops : OpInv(q))' /\ LegsInv' /\ BooksInv' /\ TakenInv' /\ PauseInv'
      /\ Unresolved' = Unresolved /\ Unforwarded' = Unforwarded
  BY QuietFrame DEF Crash, store, outside
<1>2. Free \in Job /\ Free.at = "free" /\ Free.todo = {}
  BY DEF Free, Job
<1>3. TypeOK'
  BY <1>2 DEF IInv, TypeOK, Crash, store, outside, user
<1>4. JobInv'
  BY <1>2 DEF IInv, JobInv, Crash, store, outside
<1>5. WaitInv'
  BY DEF WaitInv, Crash
<1> QED
  BY <1>1, <1>3, <1>4, <1>5 DEF IInv

LEMMA RestartKeeps ==
    ASSUME IInv, Restart
    PROVE  IInv'
<1>1. /\ (\A q \in Ops : OpInv(q))' /\ LegsInv' /\ BooksInv' /\ TakenInv' /\ PauseInv'
      /\ Unresolved' = Unresolved /\ Unforwarded' = Unforwarded
  BY QuietFrame DEF Restart, store, outside
<1>2. job = Free /\ job' = Free /\ Free.at = "free" /\ Free.todo = {} /\ Free.boot = "no"
  BY DEF IInv, JobInv, Restart, Free
<1>3. TypeOK'
  BY DEF IInv, TypeOK, Restart, store, outside, user
<1>4. JobInv'
  BY <1>2 DEF IInv, JobInv, Restart, store, outside
<1>5. WaitInv'
  BY <1>2 DEF WaitInv, Restart
<1> QED
  BY <1>1, <1>3, <1>4, <1>5 DEF IInv

LEMMA ClockKeeps ==
    ASSUME IInv, Midnight \/ \E p \in 0..MaxPnl : Trade(p)
    PROVE  IInv'
<1>1. UNCHANGED <<mode, live, dryBase, intent, prepared, job, api, world, posts, taken,
                  carried, wanted, changes, crashes>>
  BY DEF Midnight, Trade, store, user
<1>2. /\ (\A q \in Ops : OpInv(q))' /\ LegsInv' /\ BooksInv' /\ TakenInv' /\ PauseInv'
      /\ Unresolved' = Unresolved /\ Unforwarded' = Unforwarded
  BY <1>1, QuietFrame
<1>3. TypeOK'
  BY <1>1 DEF IInv, TypeOK, Midnight, Trade
<1>4. JobInv'
  BY <1>1, <1>2 DEF IInv, JobInv
<1>5. WaitInv'
  BY <1>1, <1>2 DEF IInv, WaitInv
<1> QED
  BY <1>2, <1>3, <1>4, <1>5 DEF IInv

-----------------------------------------------------------------------------
(* The life of one submission.                                              *)

\* A thread that is not about to forward and keeps its recovery loop.
LEMMA WaitFrame ==
    ASSUME IInv, UNCHANGED <<mode, api, carried>>, Unforwarded' = Unforwarded,
           job.at # "forward", job'.boot = job.boot,
           job'.boot = "forwards" => job'.todo = job.todo
    PROVE  WaitInv'
BY DEF IInv, WaitInv

\* An operation that is unresolved is not one of those to be forwarded.
LEMMA TodoFrame ==
    ASSUME IInv, NEW o \in Ops, intent[o].state \in {"prepared", "submitting", "unknown"},
           NEW S \in SUBSET job.todo, mode # "none",
           \A q \in Ops \ {o} : intent'[q] = intent[q]
    PROVE  \A q \in S : intent'[q].route = "forward" /\ intent'[q].state = "confirmed"
<1>1. \A q \in job.todo : q \in Ops
  BY DEF IInv, TypeOK, Job
<1> QED
  BY <1>1 DEF IInv, JobInv

LEMMA ClaimKeeps ==
    ASSUME IInv, Claim
    PROVE  IInv'
<1> DEFINE o == job.op
<1>1. /\ job.at = "claim"
      /\ UNCHANGED <<mode, live, dryBase, prepared, api, world, posts, pnl, day, taken,
                     carried, wanted, changes, crashes>>
  BY DEF Claim, outside, user
<1>2. /\ job \in Job /\ o \in Ops /\ api # "down" /\ intent[o] \in Intent
      /\ intent \in [Ops -> Intent]
  BY <1>1 DEF IInv, TypeOK, JobInv, Free
<1>3. CASE intent[o].state = "prepared"
  <2> DEFINE r == [intent[o] EXCEPT !.state = "submitting", !.sub = "submitting"]
  <2>1. r \in Intent /\ r.state = "submitting" /\ r.sub = "submitting" /\ r.amount = intent[o].amount
        /\ r.route = intent[o].route /\ r.parent = intent[o].parent
    BY <1>2 DEF Intent
  <2>2. intent' = [intent EXCEPT ![o] = r] /\ job' = [job EXCEPT !.at = "post"]
    BY <1>2, <1>3 DEF Claim
  <2>3. intent'[o] = r /\ \A q \in Ops \ {o} : intent'[q] = intent[q]
    BY <1>2, <2>2
  <2>4. intent' \in [Ops -> Intent]
    BY <1>2, <2>1, <2>2
  <2>5. /\ job' \in Job /\ job'.at = "post" /\ job'.op = o /\ job'.boot = job.boot
        /\ job'.todo = job.todo
    BY <1>2, <2>2 DEF Job
  <2> HIDE DEF r
  <2>6. /\ (\A q \in Ops : OpInv(q))' /\ LegsInv' /\ BooksInv' /\ TakenInv' /\ PauseInv'
        /\ Unforwarded' = Unforwarded
    BY <1>1, <1>2, <1>3, <2>1, <2>2, EditKeeps
  <2>7. TypeOK'
    BY <1>1, <2>4, <2>5 DEF IInv, TypeOK
  <2>8. world[o].state = "idle"
    BY <1>2, <1>3 DEF IInv, OpInv
  <2>9. JobInv'
    BY <1>1, <1>2, <1>3, <2>1, <2>3, <2>5, <2>8, TodoFrame DEF JobInv
  <2>10. WaitInv'
    BY <1>1, <2>5, <2>6, WaitFrame
  <2> QED
    BY <2>6, <2>7, <2>9, <2>10 DEF IInv
<1>4. CASE intent[o].state # "prepared"
  <2>1. intent' = intent /\ job' = Finished(job)
    BY <1>4 DEF Claim
  <2>2. /\ (\A q \in Ops : OpInv(q))' /\ LegsInv' /\ BooksInv' /\ TakenInv' /\ PauseInv'
        /\ Unforwarded' = Unforwarded
    BY <1>1, <2>1, QuietFrame
  <2>3. /\ job' \in Job /\ job'.boot = job.boot /\ job'.at \in {"free", "scan", "next"}
        /\ job'.todo = (IF job.boot = "forwards" THEN job.todo ELSE {})
        /\ (job'.at = "scan" => job'.boot = "intents") /\ (job'.at = "next" => job'.boot = "forwards")
    BY <1>2, <2>1, FinishedFact DEF Job
  <2>4. TypeOK'
    BY <1>1, <2>1, <2>3 DEF IInv, TypeOK
  <2>5. JobInv'
    BY <1>1, <1>2, <2>1, <2>3 DEF IInv, JobInv
  <2>6. WaitInv'
    BY <1>1, <2>2, <2>3, WaitFrame
  <2> QED
    BY <2>2, <2>4, <2>5, <2>6 DEF IInv
<1> QED
  BY <1>3, <1>4

\* The record of a submission or of a reading, by a thread that goes on to at.
LEMMA RecordKeeps ==
    ASSUME IInv, NEW r \in Intent, NEW at \in {"poll", "resolve"},
           NEW result \in {"unknown", "confirmed", "failed"},
           job.at \in {"post", "answer", "poll"},
           r.state = intent[job.op].state, r.route = intent[job.op].route,
           r.parent = intent[job.op].parent, r.amount = intent[job.op].amount,
           r.sub = "failed" => world[job.op].state \in {"idle", "refused"},
           at = "resolve" /\ result = "failed" => world[job.op].state \in {"idle", "refused"},
           at = "resolve" /\ result = "confirmed"
             => world[job.op].state = "done" /\ r.got = world[job.op].net,
           intent' = [intent EXCEPT ![job.op] = r],
           job' = [job EXCEPT !.at = at, !.result = result],
           UNCHANGED <<mode, live, dryBase, prepared, api, outside, user, crashes>>
    PROVE  IInv'
<1> DEFINE o == job.op
<1>1. UNCHANGED <<mode, live, dryBase, prepared, api, world, posts, pnl, day, taken,
                  carried, wanted, changes, crashes>>
  BY DEF outside, user
<1>2. /\ job \in Job /\ o \in Ops /\ api # "down" /\ intent \in [Ops -> Intent]
      /\ intent[o].state \in {"submitting", "unknown"}
  BY DEF IInv, TypeOK, JobInv, Free
<1>3. intent'[o] = r /\ (\A q \in Ops \ {o} : intent'[q] = intent[q]) /\ intent' \in [Ops -> Intent]
  BY <1>2
<1>4. /\ job' \in Job /\ job'.at = at /\ job'.op = o /\ job'.boot = job.boot
      /\ job'.todo = job.todo /\ job'.result = result
  BY <1>2 DEF Job
<1>5. /\ (\A q \in Ops : OpInv(q))' /\ LegsInv' /\ BooksInv' /\ TakenInv' /\ PauseInv'
      /\ Unforwarded' = Unforwarded
  BY <1>1, <1>2, EditKeeps
<1>6. TypeOK'
  BY <1>1, <1>3, <1>4 DEF IInv, TypeOK
<1>7. JobInv'
  BY <1>1, <1>2, <1>3, <1>4, TodoFrame DEF JobInv
<1>8. WaitInv'
  BY <1>1, <1>4, <1>5, WaitFrame
<1> QED
  BY <1>5, <1>6, <1>7, <1>8 DEF IInv

LEMMA NotPostedKeeps ==
    ASSUME IInv, NotPosted
    PROVE  IInv'
<1> DEFINE o == job.op
<1>1. /\ job.at = "post"
      /\ UNCHANGED <<mode, live, dryBase, prepared, api, outside, user, crashes>>
  BY DEF NotPosted
<1>2. /\ job \in Job /\ o \in Ops /\ api # "down" /\ intent \in [Ops -> Intent]
      /\ intent[o] \in Intent /\ world[o].state = "idle"
  BY <1>1 DEF IInv, TypeOK, JobInv, Free
<1>3. CASE intent' = [intent EXCEPT ![o].sub = "failed"] /\ job' = [job EXCEPT !.at = "poll"]
  <2> DEFINE r == [intent[o] EXCEPT !.sub = "failed"]
  <2>1. /\ r \in Intent /\ r.state = intent[o].state /\ r.amount = intent[o].amount
        /\ r.route = intent[o].route /\ r.parent = intent[o].parent
    BY <1>2 DEF Intent
  <2>2. intent' = [intent EXCEPT ![o] = r]
    BY <1>2, <1>3
  <2>3. job' = [job EXCEPT !.at = "poll", !.result = job.result]
    BY <1>2, <1>3 DEF Job
  <2>4. job.result \in {"unknown", "confirmed", "failed"}
    BY <1>2 DEF Job
  <2> HIDE DEF r
  <2> QED
    BY <1>1, <1>2, <2>1, <2>2, <2>3, <2>4, RecordKeeps
<1>4. CASE job' = Finished(job) /\ intent' = intent
  <2>1. /\ (\A q \in Ops : OpInv(q))' /\ LegsInv' /\ BooksInv' /\ TakenInv' /\ PauseInv'
        /\ Unforwarded' = Unforwarded
    BY <1>1, <1>4, QuietFrame DEF outside
  <2>2. /\ job' \in Job /\ job'.boot = job.boot /\ job'.at \in {"free", "scan", "next"}
        /\ job'.todo = (IF job.boot = "forwards" THEN job.todo ELSE {})
        /\ (job'.at = "scan" => job'.boot = "intents") /\ (job'.at = "next" => job'.boot = "forwards")
    BY <1>2, <1>4, FinishedFact DEF Job
  <2>3. TypeOK'
    BY <1>1, <1>4, <2>2 DEF IInv, TypeOK, outside, user
  <2>4. JobInv'
    BY <1>1, <1>2, <1>4, <2>2 DEF IInv, JobInv, outside
  <2>5. WaitInv'
    BY <1>1, <2>1, <2>2, WaitFrame DEF outside
  <2> QED
    BY <2>1, <2>3, <2>4, <2>5 DEF IInv
<1> QED
  BY <1>3, <1>4 DEF NotPosted

LEMMA AnsweredKeeps ==
    ASSUME IInv, Answered
    PROVE  IInv'
<1> DEFINE o == job.op
<1>1. /\ job.at = "answer" /\ job' = [job EXCEPT !.at = "poll"]
      /\ UNCHANGED <<mode, live, dryBase, prepared, api, outside, user, crashes>>
  BY DEF Answered
<1>2. PICK s \in Answers(o) : intent' = [intent EXCEPT ![o].sub = s]
  BY DEF Answered
<1>3. /\ job \in Job /\ o \in Ops /\ intent \in [Ops -> Intent] /\ intent[o] \in Intent
      /\ job.result \in {"unknown", "confirmed", "failed"}
  BY <1>1 DEF IInv, TypeOK, JobInv, Job
<1>4. s \in {"unknown", "submitted", "failed"} /\ (s = "failed" => world[o].state = "refused")
  BY <1>2 DEF Answers
<1> DEFINE r == [intent[o] EXCEPT !.sub = s]
<1>5. /\ r \in Intent /\ r.state = intent[o].state /\ r.amount = intent[o].amount
      /\ r.route = intent[o].route /\ r.parent = intent[o].parent /\ r.sub = s
  BY <1>3, <1>4 DEF Intent
<1>6. intent' = [intent EXCEPT ![o] = r] /\ job' = [job EXCEPT !.at = "poll", !.result = job.result]
  BY <1>1, <1>2, <1>3 DEF Job
<1> HIDE DEF r
<1> QED
  BY <1>1, <1>3, <1>4, <1>5, <1>6, RecordKeeps

LEMMA PollKeeps ==
    ASSUME IInv, Poll
    PROVE  IInv'
<1> DEFINE o == job.op
<1>1. /\ job.at = "poll"
      /\ UNCHANGED <<mode, live, dryBase, prepared, api, outside, user, crashes>>
  BY DEF Poll
<1>2. PICK s \in Readings(o) :
        /\ intent' = [intent EXCEPT ![o].got = IF s = "confirmed" THEN world[o].net ELSE 0]
        /\ job' = [job EXCEPT !.at = "resolve", !.result = s]
  BY DEF Poll
<1>3. /\ job \in Job /\ o \in Ops /\ intent \in [Ops -> Intent] /\ intent[o] \in Intent
      /\ world[o].net \in Nat /\ OpInv(o)
  BY <1>1 DEF IInv, TypeOK, JobInv, Job, World
<1>4. /\ s \in {"unknown", "confirmed", "failed"}
      /\ s = "failed" => world[o].state \in {"idle", "refused"}
      /\ s = "confirmed" => world[o].state = "done"
  BY <1>2, <1>3 DEF Readings, OpInv
<1> DEFINE r == [intent[o] EXCEPT !.got = IF s = "confirmed" THEN world[o].net ELSE 0]
<1>5. /\ r \in Intent /\ r.state = intent[o].state /\ r.amount = intent[o].amount
      /\ r.route = intent[o].route /\ r.parent = intent[o].parent /\ r.sub = intent[o].sub
      /\ s = "confirmed" => r.got = world[o].net
  BY <1>3, <1>4 DEF Intent
<1>6. intent' = [intent EXCEPT ![o] = r]
  BY <1>2, <1>3
<1>7. r.sub = "failed" => world[o].state \in {"idle", "refused"}
  BY <1>3, <1>5 DEF OpInv
<1> HIDE DEF r
<1> QED
  BY <1>1, <1>2, <1>3, <1>4, <1>5, <1>6, <1>7, RecordKeeps

\* The request leaves for an operation that has not been asked for before.
LEMMA PostKeeps ==
    ASSUME IInv, Post
    PROVE  IInv'
<1> DEFINE o == job.op
<1>1. /\ job.at = "post" /\ world' = [world EXCEPT ![o].state = "sent"]
      /\ posts' = [posts EXCEPT ![o] = @ + 1] /\ job' = [job EXCEPT !.at = "answer"]
      /\ UNCHANGED <<mode, live, dryBase, intent, prepared, api, pnl, day, taken, carried,
                     wanted, changes, crashes>>
  BY DEF Post, store, user
<1>2. /\ job \in Job /\ o \in Ops /\ api # "down" /\ world[o].state = "idle"
      /\ intent[o].state \in {"submitting", "unknown"} /\ intent[o].sub # "failed"
      /\ world \in [Ops -> World] /\ posts \in [Ops -> Nat] /\ world[o] \in World
  BY <1>1 DEF IInv, TypeOK, JobInv, Free
<1>3. /\ world'[o].state = "sent" /\ world'[o].net = world[o].net /\ world'[o] \in World
      /\ \A q \in Ops \ {o} : world'[q] = world[q] /\ posts'[q] = posts[q]
      /\ posts'[o] = posts[o] + 1
  BY <1>1, <1>2 DEF World
<1>4. world' \in [Ops -> World] /\ posts' \in [Ops -> Nat]
  BY <1>1, <1>2 DEF World
<1>5. /\ job' \in Job /\ job'.at = "answer" /\ job'.op = o /\ job'.boot = job.boot
      /\ job'.todo = job.todo
  BY <1>1, <1>2 DEF Job
<1>6. Unresolved' = Unresolved /\ Unforwarded' = Unforwarded
  BY <1>1, SetsFrame
<1>7. TypeOK'
  BY <1>1, <1>4, <1>5 DEF IInv, TypeOK
<1>8. (\A q \in Ops : OpInv(q))'
  <2> SUFFICES ASSUME NEW q \in Ops PROVE OpInv(q)'
    OBVIOUS
  <2>1. OpInv(q)
    BY DEF IInv
  <2>2. CASE q = o
    BY <1>1, <1>2, <1>3, <2>1, <2>2 DEF OpInv, Executed
  <2>3. CASE q # o
    BY <1>1, <1>3, <2>1, <2>3 DEF OpInv, Executed
  <2> QED
    BY <2>2, <2>3
<1>9. JobInv'
  BY <1>1, <1>2, <1>3, <1>5 DEF IInv, JobInv
<1>10. LegsInv'
  BY <1>1, SetsFrame DEF IInv, LegsInv
<1>11. BooksInv'
  BY <1>1, <1>6 DEF IInv, BooksInv, BooksBalance
<1>12. TakenInv'
  <2>1. \A q \in Ops : world'[q].net = world[q].net
    BY <1>3
  <2> QED
    BY <1>1, <1>6, <2>1 DEF IInv, TakenInv, Unresolved
<1>13. WaitInv'
  BY <1>1, <1>5, <1>6, WaitFrame
<1>14. PauseInv'
  BY <1>1, <1>6 DEF IInv, PauseInv
<1> QED
  BY <1>7, <1>8, <1>9, <1>10, <1>11, <1>12, <1>13, <1>14 DEF IInv

\* The exchange decides on a request; only an unresolved intent has one open.
LEMMA ExchangeKeeps ==
    ASSUME IInv, NEW o \in Ops, Exchange(o)
    PROVE  IInv'
<1>1. /\ world[o].state = "sent"
      /\ UNCHANGED <<mode, live, dryBase, intent, prepared, job, api, posts, pnl, day, carried,
                     wanted, changes, crashes>>
  BY DEF Exchange, store, user
<1>2. /\ world \in [Ops -> World] /\ world[o] \in World /\ intent \in [Ops -> Intent]
      /\ taken \in Nat /\ OpInv(o) /\ intent[o].state \in {"submitting", "unknown"}
      /\ world[o].net = 0 /\ intent[o].amount \in Nat /\ o \in Unresolved
  BY <1>1 DEF IInv, TypeOK, OpInv, Executed, Intent, Unresolved
<1>3. PICK w \in World :
        /\ world' = [world EXCEPT ![o] = w]
        /\ \/ /\ w.state \in {"done", "odd"} /\ w.net \in 1..intent[o].amount
              /\ intent[o].route \in {"spot", "leg2"} => w.net = intent[o].amount
           \/ w.state = "refused" /\ w.net = 0
        /\ taken' = IF intent[o].route = "leg2" THEN taken ELSE taken + w.net
  <2>1. CASE \E n \in 1..intent[o].amount, s \in {"done", "odd"} :
               /\ intent[o].route \in {"spot", "leg2"} => n = intent[o].amount /\ s = "done"
               /\ world' = [world EXCEPT ![o] = [state |-> s, net |-> n]]
               /\ taken' = IF intent[o].route = "leg2" THEN taken ELSE taken + n
    <3>1. PICK n \in 1..intent[o].amount, s \in {"done", "odd"} :
               /\ intent[o].route \in {"spot", "leg2"} => n = intent[o].amount
               /\ world' = [world EXCEPT ![o] = [state |-> s, net |-> n]]
               /\ taken' = IF intent[o].route = "leg2" THEN taken ELSE taken + n
      BY <2>1
    <3>2. [state |-> s, net |-> n] \in World
      BY <1>2 DEF World
    <3> QED
      BY <3>1, <3>2
  <2>2. CASE world' = [world EXCEPT ![o].state = "refused"] /\ taken' = taken
    <3> DEFINE w == [world[o] EXCEPT !.state = "refused"]
    <3>1. w \in World /\ w.state = "refused" /\ w.net = 0
      BY <1>2 DEF World
    <3>2. world' = [world EXCEPT ![o] = w]
      BY <1>2, <2>2
    <3>3. taken' = IF intent[o].route = "leg2" THEN taken ELSE taken + w.net
      BY <1>2, <2>2, <3>1
    <3> w \in World
      BY <3>1
    <3> HIDE DEF w
    <3> WITNESS w \in World
    <3> QED
      BY <3>1, <3>2, <3>3
  <2> QED
    BY <2>1, <2>2 DEF Exchange
<1>4. world'[o] = w /\ (\A q \in Ops \ {o} : world'[q] = world[q]) /\ world' \in [Ops -> World]
  BY <1>2, <1>3
<1>5. Unresolved' = Unresolved /\ Unforwarded' = Unforwarded
  BY <1>1, SetsFrame
<1>6. w.net \in Nat /\ taken' \in Nat
  BY <1>2, <1>3 DEF World
<1>7. TypeOK'
  BY <1>1, <1>4, <1>6 DEF IInv, TypeOK
<1>8. (\A q \in Ops : OpInv(q))'
  <2> SUFFICES ASSUME NEW q \in Ops PROVE OpInv(q)'
    OBVIOUS
  <2>1. OpInv(q)
    BY DEF IInv
  <2>2. CASE q = o
    BY <1>1, <1>2, <1>3, <1>4, <2>1, <2>2 DEF OpInv, Executed
  <2>3. CASE q # o
    BY <1>1, <1>4, <2>1, <2>3 DEF OpInv, Executed
  <2> QED
    BY <2>2, <2>3
<1>9. JobInv'
  BY <1>1, <1>2, <1>3, <1>4, <1>5 DEF IInv, JobInv
<1>10. LegsInv'
  BY <1>1, SetsFrame DEF IInv, LegsInv
<1>11. BooksInv'
  BY <1>1, <1>5 DEF IInv, BooksInv, BooksBalance
<1>12. TakenInv'
  <2>1. \A q \in Unresolved : q = o
    BY <1>2 DEF IInv, BooksInv
  <2>2. live.confirmed \in Nat
    BY DEF IInv, TypeOK, Live
  <2> QED
    BY <1>1, <1>2, <1>3, <1>4, <1>5, <1>6, <2>1, <2>2 DEF IInv, TakenInv
<1>13. WaitInv'
  BY <1>1, <1>5 DEF IInv, WaitInv
<1>14. PauseInv'
  BY <1>1, <1>5 DEF IInv, PauseInv
<1> QED
  BY <1>7, <1>8, <1>9, <1>10, <1>11, <1>12, <1>13, <1>14 DEF IInv

-----------------------------------------------------------------------------
(* The outcome of a transfer.                                               *)

\* What an outcome does to the sets of open operations.
LEMMA ResolveSets ==
    ASSUME IInv, NEW o \in Ops, NEW s \in {"confirmed", "failed"},
           intent[o].state \in {"submitting", "unknown"},
           intent' = [intent EXCEPT ![o].state = s]
    PROVE  /\ Unresolved' = {} /\ LegsInv'
           /\ Unforwarded' =
                CASE s = "confirmed" /\ intent[o].route = "forward" -> Unforwarded \cup {o}
                  [] s = "failed" /\ intent[o].route = "leg2" -> Unforwarded \cup {intent[o].parent}
                  [] OTHER -> Unforwarded
<1>1. intent \in [Ops -> Intent] /\ o \in Unresolved
  BY DEF IInv, TypeOK, Unresolved
<1>2. /\ intent'[o].state = s /\ intent'[o].route = intent[o].route
      /\ intent'[o].parent = intent[o].parent /\ intent'[o].amount = intent[o].amount
      /\ intent'[o].got = intent[o].got
      /\ \A q \in Ops \ {o} : intent'[q] = intent[q]
  BY <1>1 DEF Intent
<1>3. Unresolved' = {}
  BY <1>1, <1>2 DEF IInv, BooksInv, Unresolved
<1>4. \A p \in Ops : ActiveForwards(p)' = IF s = "failed" THEN ActiveForwards(p) \ {o}
                                          ELSE ActiveForwards(p)
  BY <1>2 DEF ActiveForwards
<1>5. \A q \in Ops : intent[q].route = "leg2" => intent[q].parent # o
  BY DEF IInv, LegsInv
<1>6. LegsInv'
  BY <1>2, <1>4, <1>5 DEF IInv, LegsInv
<1>7. CASE s = "confirmed" /\ intent[o].route = "forward"
  <2>1. ActiveForwards(o) = {}
    BY <1>5 DEF ActiveForwards
  <2> QED
    BY <1>2, <1>3, <1>4, <1>6, <1>7, <2>1 DEF Unforwarded
<1>8. CASE s = "failed" /\ intent[o].route = "leg2"
  <2> DEFINE p == intent[o].parent
  <2>1. /\ p \in Ops /\ p # o /\ intent[p].route = "forward" /\ intent[p].state = "confirmed"
        /\ o \in ActiveForwards(p)
    BY <1>5, <1>8 DEF IInv, LegsInv, ActiveForwards
  <2>2. ActiveForwards(p)' = {}
    BY <1>4, <1>8, <2>1 DEF IInv, LegsInv
  <2>3. \A q \in Ops \ {p} : ActiveForwards(q)' = ActiveForwards(q)
    BY <1>4 DEF ActiveForwards
  <2>4. \A q \in Ops : q \in Unforwarded' <=> q \in Unforwarded \/ q = p
    <3> SUFFICES ASSUME NEW q \in Ops PROVE q \in Unforwarded' <=> q \in Unforwarded \/ q = p
      OBVIOUS
    <3>1. CASE q = p
      BY <1>2, <2>1, <2>2, <3>1 DEF Unforwarded
    <3>2. CASE q = o
      BY <1>2, <1>8, <2>1, <3>2 DEF Unforwarded
    <3>3. CASE q # p /\ q # o
      BY <1>2, <2>3, <3>3 DEF Unforwarded
    <3> QED
      BY <3>1, <3>2, <3>3
  <2>5. Unforwarded' = Unforwarded \cup {p}
    BY <2>1, <2>4 DEF Unforwarded
  <2> QED
    BY <1>3, <1>6, <1>8, <2>5
<1>9. CASE /\ ~ (s = "confirmed" /\ intent[o].route = "forward")
           /\ ~ (s = "failed" /\ intent[o].route = "leg2")
  <2>1. \A p \in Ops : ActiveForwards(p)' = ActiveForwards(p)
    BY <1>4, <1>9 DEF ActiveForwards
  <2>2. Unforwarded' = Unforwarded
    BY <1>2, <1>9, <2>1 DEF Unforwarded
  <2> QED
    BY <1>3, <1>6, <1>9, <2>2
<1> QED
  BY <1>7, <1>8, <1>9

\* The live_state row after the settlement of operation o.
LEMMA SettleFact ==
    ASSUME IInv, NEW o \in Ops, intent[o].state \in {"submitting", "unknown"},
           NEW amount \in Nat, amount <= intent[o].amount,
           live' = IF amount = 0 THEN live
                   ELSE [live EXCEPT !.due = Larger(0, @ - amount), !.confirmed = @ + amount,
                                     !.day = day, !.daily = UsedToday + amount]
    PROVE  /\ live' \in Live /\ BooksBalance'
           /\ live'.confirmed = live.confirmed + amount
           /\ live'.daily <= live.daily + amount
<1>1. live \in Live /\ day \in Nat /\ UsedToday \in Nat /\ UsedToday <= live.daily
  BY DEF IInv, TypeOK, Live, UsedToday
<1>2. o \in Unresolved /\ intent[o].amount <= live.due /\ intent[o].amount \in Nat
  BY DEF IInv, BooksInv, Unresolved, TypeOK, Intent
<1>3. amount <= live.due
  BY <1>1, <1>2 DEF Live
<1>4. CASE amount = 0
  BY <1>1, <1>4 DEF IInv, BooksInv, BooksBalance, Live
<1>5. CASE amount # 0
  <2> DEFINE due == live.due - amount
             confirmed == live.confirmed + amount
             daily == UsedToday + amount
  <2>1. due \in Nat /\ confirmed \in Nat /\ daily \in Nat /\ Larger(0, live.due - amount) = due
    BY <1>1, <1>3 DEF Larger, Live
  <2> HIDE DEF due, confirmed, daily
  <2>2. /\ live' \in Live /\ live'.due = due /\ live'.hwm = live.hwm
        /\ live'.confirmed = confirmed /\ live'.daily = daily
    <3>1. live' = [live EXCEPT !.due = due, !.confirmed = confirmed, !.day = day, !.daily = daily]
      BY <1>5, <2>1 DEF confirmed, daily
    <3> QED
      BY <1>1, <2>1, <3>1 DEF Live
  <2>3. live.due + live.confirmed = Share * live.hwm
    BY DEF IInv, BooksInv, BooksBalance
  <2>4. live.due \in Nat /\ live.confirmed \in Nat /\ live.daily \in Nat
    BY <1>1 DEF Live
  <2>5. live'.due + live'.confirmed = live.due + live.confirmed
    BY <1>3, <2>2, <2>4 DEF due, confirmed
  <2> QED
    BY <1>1, <2>2, <2>3, <2>4, <2>5 DEF BooksBalance, confirmed, daily
<1> QED
  BY <1>4, <1>5

LEMMA ResolveKeeps ==
    ASSUME IInv, Resolve
    PROVE  IInv'
<1> DEFINE o == job.op
           s == job.result
           amount == IF s = "confirmed" THEN Settled(o) ELSE 0
<1>1. /\ job.at = "resolve"
      /\ intent' = [intent EXCEPT ![o].state = s]
      /\ live' = IF amount = 0 THEN live
                 ELSE [live EXCEPT !.due = Larger(0, @ - amount), !.confirmed = @ + amount,
                                   !.day = day, !.daily = UsedToday + amount]
      /\ mode' = ResolvedMode(o, s)
      /\ job' = IF s = "confirmed" /\ intent[o].route = "forward"
                THEN [job EXCEPT !.at = "forward"] ELSE Finished(job)
      /\ UNCHANGED <<dryBase, prepared, api, world, posts, pnl, day, taken, carried, wanted,
                     changes, crashes>>
  BY DEF Resolve, outside, user
<1>2. /\ job \in Job /\ o \in Ops /\ s \in {"unknown", "confirmed", "failed"} /\ api # "down"
      /\ intent \in [Ops -> Intent] /\ intent[o].state \in {"submitting", "unknown"}
      /\ o \in Unresolved /\ OpInv(o) /\ live \in Live
      /\ intent[o].amount \in Nat /\ intent[o].got \in Nat /\ mode # "none"
  BY <1>1 DEF IInv, TypeOK, JobInv, Free, Job, Unresolved, Intent, PauseInv
<1>3. /\ s = "failed" => world[o].state \in {"idle", "refused"}
      /\ s = "confirmed" => world[o].state = "done" /\ intent[o].got = world[o].net
  BY <1>1 DEF IInv, JobInv
<1>4. amount \in Nat /\ amount <= intent[o].amount
  BY <1>2, <1>3 DEF Settled, OpInv
<1> HIDE DEF amount
<1>5. /\ live' \in Live /\ BooksBalance' /\ live'.confirmed = live.confirmed + amount
      /\ live'.daily <= live.daily + amount
  BY <1>1, <1>2, <1>4, SettleFact
<1>6. /\ intent'[o].state = s /\ intent'[o].route = intent[o].route /\ intent'[o].sub = intent[o].sub
      /\ intent'[o].amount = intent[o].amount /\ intent'[o].got = intent[o].got
      /\ \A q \in Ops \ {o} : intent'[q] = intent[q]
      /\ intent' \in [Ops -> Intent]
  BY <1>1, <1>2 DEF Intent
<1>7. /\ job' \in Job /\ job'.boot = job.boot /\ job'.todo \subseteq job.todo
      /\ job'.at \in {"free", "scan", "next", "forward"}
      /\ (job'.at = "scan" => job'.boot = "intents") /\ (job'.at = "next" => job'.boot = "forwards")
      /\ (job'.at = "forward" => job'.op = o)
      /\ (job'.at = "forward" <=> s = "confirmed" /\ intent[o].route = "forward")
  <2>1. CASE s = "confirmed" /\ intent[o].route = "forward"
    BY <1>1, <1>2, <2>1 DEF Job
  <2>2. CASE ~ (s = "confirmed" /\ intent[o].route = "forward")
    <3>1. job' = Finished(job)
      BY <1>1, <2>2
    <3> QED
      BY <1>2, <2>2, <3>1, FinishedFact DEF Job
  <2> QED
    BY <2>1, <2>2
<1>8. /\ mode' \in {"disabled", "dry", "live", "paused_unknown"}
      /\ mode' = "paused_unknown" <=> s = "unknown" \/ (s = "failed" /\ intent[o].route = "leg2")
  BY <1>1, <1>2 DEF IInv, TypeOK, ResolvedMode
<1>9. TypeOK'
  BY <1>1, <1>5, <1>6, <1>7, <1>8 DEF IInv, TypeOK
<1>10. JobInv'
  <2>1. \A q \in job'.todo : intent'[q].route = "forward" /\ intent'[q].state = "confirmed"
    BY <1>2, <1>6, <1>7, TodoFrame
  <2> QED
    BY <1>1, <1>2, <1>6, <1>7, <2>1 DEF JobInv
<1>11. carried = {} => Unforwarded = {}
  BY <1>2 DEF IInv, TakenInv
<1>12. CASE s = "unknown"
  <2> DEFINE r == [intent[o] EXCEPT !.state = "unknown"]
  <2>1. /\ r \in Intent /\ r.state = "unknown" /\ r.route = intent[o].route /\ r.sub = intent[o].sub
        /\ r.parent = intent[o].parent /\ r.amount = intent[o].amount
    BY <1>2 DEF Intent
  <2>2. intent' = [intent EXCEPT ![o] = r] /\ live' = live /\ mode' = "paused_unknown"
    BY <1>1, <1>2, <1>8, <1>12 DEF amount
  <2>3. r.sub = "failed" => world[o].state \in {"idle", "refused"}
    BY <1>2, <2>1 DEF OpInv
  <2> HIDE DEF r
  <2>4. /\ (\A q \in Ops : OpInv(q))' /\ LegsInv' /\ BooksInv' /\ TakenInv' /\ PauseInv'
        /\ Unforwarded' = Unforwarded
    BY <1>1, <1>2, <2>1, <2>2, <2>3, EditKeeps
  <2>5. WaitInv'
    BY <1>1, <1>11, <2>4 DEF WaitInv
  <2> QED
    BY <1>9, <1>10, <2>4, <2>5 DEF IInv
<1>13. CASE s # "unknown"
  <2> s \in {"confirmed", "failed"}
    BY <1>2, <1>13
  <2>1. /\ Unresolved' = {} /\ LegsInv'
        /\ Unforwarded' =
             CASE s = "confirmed" /\ intent[o].route = "forward" -> Unforwarded \cup {o}
               [] s = "failed" /\ intent[o].route = "leg2" -> Unforwarded \cup {intent[o].parent}
               [] OTHER -> Unforwarded
    BY <1>1, <1>2, ResolveSets
  <2>2. (\A q \in Ops : OpInv(q))'
    <3> SUFFICES ASSUME NEW q \in Ops PROVE OpInv(q)'
      OBVIOUS
    <3>1. OpInv(q)
      BY DEF IInv
    <3>2. CASE q = o
      BY <1>1, <1>2, <1>3, <1>6, <3>1, <3>2 DEF OpInv, Executed
    <3>3. CASE q # o
      BY <1>1, <1>6, <3>1, <3>3 DEF OpInv, Executed
    <3> QED
      BY <3>2, <3>3
  <2>3. BooksInv'
    BY <1>5, <2>1 DEF BooksInv
  <2>4. PauseInv'
    BY <1>8, <1>13, <2>1 DEF PauseInv
  <2>5. WaitInv'
    BY <1>1, <1>7, <1>8, <1>11, <2>1 DEF WaitInv
  <2>6. TakenInv'
    <3> SUFFICES ASSUME carried = {}
                 PROVE  /\ \A p, q \in Unforwarded' : p = q
                        /\ \A p \in Unforwarded' :
                             /\ taken = live'.confirmed + intent'[p].got
                             /\ intent'[p].got <= live'.due
                             /\ live'.daily + intent'[p].got <= DailyLimit
                        /\ Unforwarded' = {} => taken = live'.confirmed
                        /\ live'.daily <= DailyLimit
      BY <1>1, <2>1 DEF TakenInv
    <3>1. /\ taken = live.confirmed + (IF intent[o].route = "leg2" THEN intent[o].amount
                                       ELSE world[o].net)
          /\ live.daily + intent[o].amount <= DailyLimit
      BY <1>2 DEF IInv, TakenInv
    <3>2. /\ live.confirmed \in Nat /\ live.daily \in Nat /\ live'.daily \in Nat
          /\ live.due \in Nat /\ world[o].net \in Nat /\ intent[o].amount <= live.due
      BY <1>2, <1>5 DEF IInv, TypeOK, Live, World, BooksInv
    <3>3. live'.daily <= DailyLimit
      BY <1>2, <1>4, <1>5, <3>1, <3>2
    <3>4. CASE s = "confirmed" /\ intent[o].route = "forward"
      <4>1. amount = 0 /\ live' = live /\ Unforwarded' = {o} /\ world[o].net <= intent[o].amount
        BY <1>1, <1>2, <1>11, <2>1, <3>4 DEF amount, Settled, OpInv
      <4> QED
        BY <1>2, <1>3, <1>6, <3>1, <3>2, <3>3, <3>4, <4>1
    <3>5. CASE s = "failed" /\ intent[o].route = "leg2"
      <4>1. amount = 0 /\ live' = live /\ Unforwarded' = {intent[o].parent}
        BY <1>1, <1>11, <2>1, <3>5 DEF amount
      <4>2. /\ intent[o].parent # o /\ intent[intent[o].parent].got = intent[o].amount
            /\ intent[o].parent \in Ops
        BY <1>2, <3>5 DEF IInv, LegsInv
      <4> QED
        BY <1>2, <1>6, <3>1, <3>2, <3>3, <3>5, <4>1, <4>2
    <3>6. CASE s = "failed" /\ intent[o].route # "leg2"
      <4>1. amount = 0 /\ live' = live /\ Unforwarded' = {}
        BY <1>1, <1>11, <2>1, <3>6 DEF amount
      <4>2. world[o].net = 0
        BY <1>2, <1>3, <3>6 DEF OpInv, Executed
      <4> QED
        BY <3>1, <3>2, <3>3, <3>6, <4>1, <4>2
    <3>7. CASE s = "confirmed" /\ intent[o].route # "forward"
      <4>1. Unforwarded' = {} /\ amount = world[o].net
        BY <1>3, <1>11, <2>1, <3>7 DEF amount, Settled
      <4>2. intent[o].route = "leg2" => world[o].net = intent[o].amount
        BY <1>2, <1>3, <3>7 DEF OpInv, Executed
      <4> QED
        BY <1>5, <3>1, <3>2, <3>3, <4>1, <4>2
    <3> QED
      BY <3>4, <3>5, <3>6, <3>7
  <2> QED
    BY <1>9, <1>10, <2>1, <2>2, <2>3, <2>4, <2>5, <2>6 DEF IInv
<1> QED
  BY <1>12, <1>13

-----------------------------------------------------------------------------
(* New intents.                                                             *)

\* Below the bound there is a number for another operation.
LEMMA NewOpFact ==
    ASSUME prepared \in Nat, prepared < MaxOps
    PROVE  NewOp \in Ops /\ NewOp > prepared
BY DEF NewOp, Ops

\* What a new row does to the sets of open operations.
LEMMA InsertFact ==
    ASSUME IInv, prepared < MaxOps, NEW route \in {"spot", "perps", "forward", "leg2"},
           NEW parent \in Ops, NEW amount \in Nat, Unresolved = {}, Insert(route, parent, amount)
    PROVE  /\ NewOp \in Ops /\ prepared' = NewOp /\ intent' \in [Ops -> Intent]
           /\ intent[NewOp].state = "none" /\ world[NewOp].state = "idle" /\ world[NewOp].net = 0
           /\ intent'[NewOp].state = "prepared" /\ intent'[NewOp].route = route
           /\ intent'[NewOp].parent = parent /\ intent'[NewOp].amount = amount
           /\ intent'[NewOp].sub = "none"
           /\ \A q \in Ops \ {NewOp} : intent'[q] = intent[q]
           /\ Unresolved' = {NewOp}
           /\ \A p \in Ops : ActiveForwards(p)' = IF route = "leg2" /\ p = parent
                                THEN ActiveForwards(p) \cup {NewOp} ELSE ActiveForwards(p)
           /\ Unforwarded' = IF route = "leg2" THEN Unforwarded \ {parent} ELSE Unforwarded
<1> DEFINE r == [NoIntent EXCEPT !.state = "prepared", !.route = route, !.parent = parent,
                                 !.amount = amount]
<1>1. /\ NewOp \in Ops /\ NewOp > prepared /\ intent \in [Ops -> Intent]
      /\ intent' = [intent EXCEPT ![NewOp] = r] /\ prepared' = NewOp
  <2>1. prepared \in Nat /\ intent \in [Ops -> Intent]
    BY DEF IInv, TypeOK
  <2>2. intent' = [intent EXCEPT ![NewOp] = r] /\ prepared' = NewOp
    BY DEF Insert
  <2> QED
    BY <2>1, <2>2, NewOpFact
<1>2. /\ intent[NewOp].state = "none" /\ world[NewOp].state = "idle" /\ world[NewOp].net = 0
      /\ intent[NewOp].route = "spot"
  BY <1>1 DEF IInv, OpInv, Executed, NoIntent
<1>3. /\ r \in Intent /\ r.state = "prepared" /\ r.route = route /\ r.parent = parent
      /\ r.amount = amount /\ r.sub = "none"
  BY DEF NoIntent, Intent
<1> HIDE DEF r
<1>4. intent'[NewOp] = r /\ (\A q \in Ops \ {NewOp} : intent'[q] = intent[q])
      /\ intent' \in [Ops -> Intent]
  BY <1>1, <1>3
<1>5. Unresolved' = {NewOp}
  BY <1>1, <1>3, <1>4 DEF Unresolved
<1>6. \A p \in Ops : ActiveForwards(p)' = IF route = "leg2" /\ p = parent
                       THEN ActiveForwards(p) \cup {NewOp} ELSE ActiveForwards(p)
  BY <1>1, <1>2, <1>3, <1>4 DEF ActiveForwards
<1>7. Unforwarded' = IF route = "leg2" THEN Unforwarded \ {parent} ELSE Unforwarded
  <2>1. \A q \in Ops : q \in Unforwarded' <=> q \in Unforwarded /\ ~ (route = "leg2" /\ q = parent)
    <3> SUFFICES ASSUME NEW q \in Ops
                 PROVE  q \in Unforwarded' <=> q \in Unforwarded /\ ~ (route = "leg2" /\ q = parent)
      OBVIOUS
    <3>1. CASE q = NewOp
      BY <1>2, <1>3, <1>4, <3>1 DEF Unforwarded
    <3>2. CASE q # NewOp
      BY <1>1, <1>4, <1>6, <3>2 DEF Unforwarded
    <3> QED
      BY <3>1, <3>2
  <2> QED
    BY <2>1 DEF Unforwarded
<1> QED
  BY <1>1, <1>2, <1>3, <1>4, <1>5, <1>6, <1>7

\* A new row in front of a thread that claims it, covered by what is due.
LEMMA InsertKeeps ==
    ASSUME IInv, prepared < MaxOps, NEW route \in {"spot", "perps", "forward", "leg2"},
           NEW parent \in Ops, NEW amount \in Nat, Unresolved = {},
           Insert(route, parent, amount), amount <= live.due,
           route # "leg2" => live.daily + amount <= DailyLimit,
           route = "leg2" => /\ intent[parent].route = "forward" /\ intent[parent].state = "confirmed"
                             /\ intent[parent].got = amount /\ ActiveForwards(parent) = {},
           carried = {} /\ route # "leg2" => Unforwarded = {},
           job' = [job EXCEPT !.at = "claim", !.op = NewOp],
           mode # "none", api # "down",
           UNCHANGED <<mode, live, dryBase, api, outside, user, crashes>>
    PROVE  IInv'
<1>1. UNCHANGED <<mode, live, dryBase, api, world, posts, pnl, day, taken, carried, wanted,
                  changes, crashes>>
  BY DEF outside, user
<1>2. /\ NewOp \in Ops /\ prepared' = NewOp /\ intent' \in [Ops -> Intent]
      /\ intent[NewOp].state = "none" /\ world[NewOp].state = "idle" /\ world[NewOp].net = 0
      /\ intent'[NewOp].state = "prepared" /\ intent'[NewOp].route = route
      /\ intent'[NewOp].parent = parent /\ intent'[NewOp].amount = amount
      /\ intent'[NewOp].sub = "none"
      /\ \A q \in Ops \ {NewOp} : intent'[q] = intent[q]
      /\ Unresolved' = {NewOp}
      /\ \A p \in Ops : ActiveForwards(p)' = IF route = "leg2" /\ p = parent
                           THEN ActiveForwards(p) \cup {NewOp} ELSE ActiveForwards(p)
      /\ Unforwarded' = IF route = "leg2" THEN Unforwarded \ {parent} ELSE Unforwarded
  BY InsertFact
<1>3. /\ job \in Job /\ prepared \in Nat /\ NewOp = prepared + 1 /\ NewOp \in 0..MaxOps
  BY DEF IInv, TypeOK, NewOp
<1>4. job' \in Job /\ job'.at = "claim" /\ job'.op = NewOp /\ job'.todo = job.todo
  BY <1>2, <1>3 DEF Job
<1>5. TypeOK'
  BY <1>1, <1>2, <1>3, <1>4 DEF IInv, TypeOK
<1>6. (\A q \in Ops : OpInv(q))'
  <2> SUFFICES ASSUME NEW q \in Ops PROVE OpInv(q)'
    OBVIOUS
  <2>1. OpInv(q) /\ q \in Int
    BY DEF IInv, Ops
  <2>2. CASE q = NewOp
    BY <1>1, <1>2, <1>3, <2>1, <2>2 DEF OpInv, Executed
  <2>3. CASE q # NewOp
    BY <1>1, <1>2, <1>3, <2>1, <2>3 DEF OpInv, Executed
  <2> QED
    BY <2>2, <2>3
<1>7. JobInv'
  <2>1. \A q \in job.todo : q \in Ops /\ intent[q].route = "forward" /\ intent[q].state = "confirmed"
    BY <1>3 DEF IInv, JobInv, Job
  <2> QED
    BY <1>1, <1>2, <1>4, <2>1 DEF JobInv
<1>8. LegsInv'
  <2>1. \A q \in Ops : intent[q].route = "leg2" => intent[q].parent # NewOp /\ intent[q].parent \in Ops
    BY <1>2 DEF IInv, LegsInv
  <2>2. ASSUME NEW q \in Ops, intent'[q].route = "leg2"
        PROVE  /\ intent'[q].parent \in Ops
               /\ intent'[intent'[q].parent].route = "forward"
               /\ intent'[intent'[q].parent].state = "confirmed"
               /\ intent'[intent'[q].parent].got = intent'[q].amount
    <3>1. CASE q = NewOp
      <4>1. parent # NewOp
        BY <1>2, <2>2, <3>1
      <4> QED
        BY <1>2, <2>2, <3>1, <4>1
    <3>2. CASE q # NewOp
      BY <1>2, <2>1, <2>2, <3>2 DEF IInv, LegsInv
    <3> QED
      BY <3>1, <3>2
  <2>3. \A p \in Ops : \A a, b \in ActiveForwards(p)' : a = b
    BY <1>2 DEF IInv, LegsInv
  <2> QED
    BY <2>2, <2>3 DEF LegsInv
<1>9. BooksInv'
  BY <1>1, <1>2 DEF IInv, BooksInv, BooksBalance
<1>10. carried = {} => Unforwarded' = {}
  <2> SUFFICES ASSUME carried = {}, route = "leg2" PROVE Unforwarded \ {parent} = {}
    BY <1>2
  <2>1. parent \in Unforwarded
    BY DEF Unforwarded
  <2> QED
    BY <2>1 DEF IInv, TakenInv
<1>11. TakenInv'
  <2> SUFFICES ASSUME carried = {}
               PROVE  /\ taken = live.confirmed + (IF route = "leg2" THEN amount ELSE 0)
                      /\ live.daily + amount <= DailyLimit /\ live.daily <= DailyLimit
    BY <1>1, <1>2, <1>10 DEF TakenInv
  <2>1. live.confirmed \in Nat
    BY DEF IInv, TypeOK, Live
  <2>2. CASE route = "leg2"
    <3>1. parent \in Unforwarded
      BY <2>2 DEF Unforwarded
    <3> QED
      BY <2>2, <3>1 DEF IInv, TakenInv
  <2>3. CASE route # "leg2"
    BY <2>1, <2>3 DEF IInv, TakenInv
  <2> QED
    BY <2>2, <2>3
<1>12. WaitInv'
  BY <1>1, <1>10 DEF WaitInv
<1>13. PauseInv'
  BY <1>1, <1>2 DEF PauseInv
<1> QED
  BY <1>5, <1>6, <1>7, <1>8, <1>9, <1>11, <1>12, <1>13 DEF IInv

\* The reservation is covered by what is due and by the daily limit.
LEMMA ReserveKeeps ==
    ASSUME IInv, Reserve
    PROVE  IInv'
<1>1. /\ job.at = "create"
      /\ UNCHANGED <<mode, live, dryBase, api, outside, user, crashes>>
  BY DEF Reserve
<1>2. /\ job \in Job /\ api = "recovered" /\ mode = "live" /\ Unresolved = {}
      /\ live.daily + job.amount <= DailyLimit /\ prepared < MaxOps
  BY <1>1 DEF IInv, TypeOK, JobInv
<1>3. CASE /\ job.amount <= live.due /\ Insert(job.route, NewOp, job.amount)
           /\ job' = [job EXCEPT !.at = "claim", !.op = NewOp]
  <2>1. job.route \in {"spot", "perps", "forward"} /\ job.amount \in Nat
    BY <1>2 DEF Job
  <2>2. NewOp \in Ops
    <3>1. prepared \in Nat
      BY DEF IInv, TypeOK
    <3> QED
      BY <1>2, <3>1, NewOpFact
  <2>3. carried = {} => Unforwarded = {}
    BY <1>1, <1>2 DEF IInv, WaitInv
  <2> QED
    BY <1>1, <1>2, <1>3, <2>1, <2>2, <2>3, InsertKeeps
<1>4. CASE job' = Free /\ UNCHANGED <<intent, prepared>>
  <2>1. /\ (\A q \in Ops : OpInv(q))' /\ LegsInv' /\ BooksInv' /\ TakenInv' /\ PauseInv'
        /\ Unforwarded' = Unforwarded
    BY <1>1, <1>4, QuietFrame DEF outside
  <2>2. Free \in Job /\ Free.at = "free" /\ Free.todo = {}
    BY DEF Free, Job
  <2>3. TypeOK'
    BY <1>1, <1>4, <2>2 DEF IInv, TypeOK, outside, user
  <2>4. JobInv'
    BY <1>1, <1>4, <2>2 DEF JobInv
  <2>5. WaitInv'
    BY <1>1, <1>2, <2>1 DEF IInv, WaitInv, outside
  <2> QED
    BY <2>1, <2>3, <2>4, <2>5 DEF IInv
<1> QED
  BY <1>3, <1>4 DEF Reserve

\* Leg 2 takes over what leg 1 left unsettled.
LEMMA ForwardKeeps ==
    ASSUME IInv, Forward
    PROVE  IInv'
<1> DEFINE p == job.op
<1>1. /\ job.at = "forward"
      /\ UNCHANGED <<mode, live, dryBase, api, outside, user, crashes>>
  BY DEF Forward
<1>2. /\ job \in Job /\ p \in Ops /\ api # "down"
      /\ mode # "none" => intent[p].route = "forward" /\ intent[p].state = "confirmed"
  BY <1>1 DEF IInv, TypeOK, JobInv, Free
<1>3. CASE ActiveForwards(p) # {} /\ job' = Finished(job) /\ UNCHANGED <<intent, prepared>>
  <2>1. /\ (\A q \in Ops : OpInv(q))' /\ LegsInv' /\ BooksInv' /\ TakenInv' /\ PauseInv'
        /\ Unforwarded' = Unforwarded
    BY <1>1, <1>3, QuietFrame DEF outside
  <2>2. /\ job' \in Job /\ job'.boot = job.boot /\ job'.at \in {"free", "scan", "next"}
        /\ job'.todo = (IF job.boot = "forwards" THEN job.todo ELSE {})
        /\ (job'.at = "scan" => job'.boot = "intents") /\ (job'.at = "next" => job'.boot = "forwards")
    BY <1>2, <1>3, FinishedFact DEF Job
  <2>3. TypeOK'
    BY <1>1, <1>3, <2>2 DEF IInv, TypeOK, outside, user
  <2>4. JobInv'
    BY <1>1, <1>2, <1>3, <2>2 DEF IInv, JobInv
  <2>5. p \notin Unforwarded
    BY <1>3 DEF Unforwarded
  <2>6. WaitInv'
    BY <1>1, <2>1, <2>2, <2>5 DEF IInv, WaitInv, outside
  <2> QED
    BY <2>1, <2>3, <2>4, <2>6 DEF IInv
<1>4. CASE /\ ActiveForwards(p) = {} /\ MayForward(p) /\ Insert("leg2", p, intent[p].got)
           /\ job' = [job EXCEPT !.at = "claim", !.op = NewOp]
  <2>1. intent[p].got \in Nat
    BY <1>2 DEF IInv, TypeOK, Intent
  <2>2. /\ mode # "none" /\ Unresolved = {} /\ prepared < MaxOps /\ intent[p].got <= live.due
    BY <1>4 DEF MayForward
  <2> QED
    BY <1>1, <1>2, <1>4, <2>1, <2>2, InsertKeeps
<1> QED
  BY <1>3, <1>4 DEF Forward

\* A refused leg 2 leaves a policy that cannot evaluate.
LEMMA ForwardRefusedKeeps ==
    ASSUME IInv, ForwardRefused
    PROVE  IInv'
<1> DEFINE p == job.op
<1>1. /\ job.at = "forward" /\ ActiveForwards(p) = {} /\ job' = Finished(job)
      /\ mode' = IF Unresolved = {} /\ mode # "none" THEN "paused_unknown" ELSE mode
      /\ UNCHANGED <<live, dryBase, intent, prepared, api, world, posts, pnl, day, taken, carried,
                     wanted, changes, crashes>>
  BY DEF ForwardRefused, outside, user
<1>2. /\ job \in Job /\ p \in Ops /\ api # "down"
      /\ mode # "none" => intent[p].route = "forward" /\ intent[p].state = "confirmed"
  BY <1>1 DEF IInv, TypeOK, JobInv, Free
<1>3. (\A q \in Ops : OpInv(q))' /\ LegsInv' /\ BooksInv' /\ TakenInv'
  BY <1>1, StoreFrame
<1>4. Unresolved' = Unresolved /\ Unforwarded' = Unforwarded
  BY <1>1, SetsFrame
<1>5. /\ job' \in Job /\ job'.boot = job.boot /\ job'.at \in {"free", "scan", "next"}
      /\ job'.todo = (IF job.boot = "forwards" THEN job.todo ELSE {})
      /\ (job'.at = "scan" => job'.boot = "intents") /\ (job'.at = "next" => job'.boot = "forwards")
  BY <1>1, <1>2, FinishedFact DEF Job
<1>6. TypeOK'
  BY <1>1, <1>5 DEF IInv, TypeOK
<1>7. JobInv'
  BY <1>1, <1>2, <1>5 DEF IInv, JobInv
<1>8. WaitInv'
  BY <1>1, <1>4 DEF IInv, TakenInv, WaitInv
<1>9. PauseInv'
  <2>1. mode # "none" => p \in Unforwarded
    BY <1>1, <1>2 DEF Unforwarded
  <2> QED
    BY <1>1, <1>4, <2>1 DEF IInv, PauseInv
<1> QED
  BY <1>3, <1>6, <1>7, <1>8, <1>9 DEF IInv

\* An evaluation starts only when nothing is unresolved or waits.
LEMMA EvaluateKeeps ==
    ASSUME IInv, NEW room \in Rooms, NEW route \in Routes, Evaluate(room, route)
    PROVE  IInv'
<1> DEFINE amount == SweepAmount(room)
<1>1. /\ api = "recovered" /\ job = Free /\ mode = "live" /\ Unresolved = {} /\ prepared < MaxOps
      /\ live' = Evaluated
      /\ job' = IF amount = 0 THEN Free
                ELSE [Free EXCEPT !.at = "create", !.route = route, !.due = Evaluated.due,
                                  !.amount = amount]
      /\ UNCHANGED <<mode, dryBase, intent, prepared, api, world, posts, pnl, day, taken, carried,
                     wanted, changes, crashes>>
  BY DEF Evaluate, outside, user
<1>2. TypeOK /\ BooksBalance /\ room \in Nat
  BY DEF IInv, BooksInv
<1>3. /\ live' \in Live /\ BooksBalance' /\ live'.confirmed = live.confirmed
      /\ live'.daily = UsedToday /\ UsedToday \in Nat /\ UsedToday <= live.daily
  BY <1>1, <1>2, EvaluatedFact DEF BooksBalance
<1>4. amount \in Nat /\ (amount # 0 => UsedToday + amount <= DailyLimit)
  BY <1>2, AmountFact
<1>5. Evaluated.due \in Nat
  BY <1>2, EvaluatedFact DEF Live
<1> HIDE DEF amount
<1>6. /\ job' \in Job /\ job'.at \in {"free", "create"} /\ job'.todo = {} /\ job'.boot = "no"
      /\ job'.at = "create" => amount # 0 /\ job'.amount = amount
  BY <1>1, <1>4, <1>5 DEF Free, Job
<1>7. Unresolved' = Unresolved /\ Unforwarded' = Unforwarded
  BY <1>1, SetsFrame
<1>8. carried = {} => Unforwarded = {}
  BY <1>1 DEF IInv, WaitInv, Free
<1>9. TypeOK'
  BY <1>1, <1>2, <1>3, <1>6 DEF TypeOK
<1>10. (\A o \in Ops : OpInv(o))'
  BY <1>1 DEF IInv, OpInv, Executed
<1>11. JobInv'
  BY <1>1, <1>3, <1>4, <1>6, <1>7 DEF JobInv
<1>12. LegsInv'
  BY <1>1, SetsFrame DEF IInv, LegsInv
<1>13. BooksInv'
  BY <1>1, <1>3, <1>7 DEF BooksInv
<1>14. TakenInv'
  <2>1. live.daily \in Nat
    BY <1>2 DEF TypeOK, Live
  <2> QED
    BY <1>1, <1>3, <1>7, <1>8, <2>1 DEF IInv, TakenInv
<1>15. WaitInv'
  BY <1>1, <1>7, <1>8 DEF WaitInv
<1>16. PauseInv'
  BY <1>1 DEF PauseInv
<1> QED
  BY <1>9, <1>10, <1>11, <1>12, <1>13, <1>14, <1>15, <1>16 DEF IInv

-----------------------------------------------------------------------------
(* The user's changes of the policy.                                        *)

\* A live_state row that starts over owes nothing and has taken nothing.
LEMMA StartOverKeeps ==
    ASSUME IInv, NEW base \in Nat, StartOver(base), Unresolved = {},
           mode' # "paused_unknown", mode' = "none" => mode = "none",
           mode = "none" => job = Free, job.at # "create", dryBase' \in Nat,
           mode' \in {"none", "disabled", "dry", "live", "paused_unknown"},
           changes' \in 0..MaxChanges, wanted' \in BOOLEAN,
           UNCHANGED <<intent, prepared, job, api, world, posts, pnl, day, crashes>>
    PROVE  IInv'
<1>1. Unresolved' = {} /\ Unforwarded' = Unforwarded
  BY SetsFrame
<1>2. /\ live' = NewLive(base) /\ live' \in Live /\ live'.due = 0 /\ live'.confirmed = 0
      /\ live'.hwm = 0 /\ live'.daily = 0 /\ taken' = 0 /\ carried' = Unforwarded
      /\ Unforwarded \subseteq Ops
  BY DEF StartOver, NewLive, Live, Unforwarded
<1>3. TypeOK'
  BY <1>2 DEF IInv, TypeOK
<1>4. (\A o \in Ops : OpInv(o))'
  BY DEF IInv, OpInv, Executed
<1>5. JobInv'
  <2>1. CASE job = Free
    BY <2>1 DEF JobInv, Free
  <2>2. CASE job # Free
    BY <2>2 DEF IInv, JobInv
  <2> QED
    BY <2>1, <2>2
<1>6. LegsInv'
  BY SetsFrame DEF IInv, LegsInv
<1>7. BooksInv'
  BY <1>1, <1>2 DEF BooksInv, BooksBalance
<1>8. TakenInv'
  BY <1>1, <1>2 DEF TakenInv
<1>9. WaitInv'
  BY <1>1, <1>2 DEF WaitInv
<1>10. PauseInv'
  BY DEF IInv, PauseInv
<1> QED
  BY <1>3, <1>4, <1>5, <1>6, <1>7, <1>8, <1>9, <1>10 DEF IInv

\* A change is counted.
LEMMA ChangeFact ==
    ASSUME TypeOK, Change
    PROVE  changes' \in 0..MaxChanges
BY DEF TypeOK, Change

LEMMA SavePolicyKeeps ==
    ASSUME IInv, NEW m \in {"disabled", "dry"}, SavePolicy(m)
    PROVE  IInv'
<1>1. /\ job = Free /\ mode # "none" /\ mode' = m /\ wanted' = FALSE /\ Unresolved = {}
      /\ UNCHANGED <<live, dryBase, intent, prepared, job, api, world, posts, pnl, day, taken,
                     carried, crashes>>
  BY DEF SavePolicy, outside
<1>2. (\A q \in Ops : OpInv(q))' /\ LegsInv' /\ BooksInv' /\ TakenInv'
  BY <1>1, StoreFrame
<1>3. TypeOK'
  BY <1>1, ChangeFact DEF IInv, TypeOK, SavePolicy
<1>4. JobInv'
  BY <1>1 DEF JobInv, Free
<1>5. WaitInv' /\ PauseInv'
  BY <1>1 DEF WaitInv, PauseInv
<1> QED
  BY <1>2, <1>3, <1>4, <1>5 DEF IInv

\* Activation, rebaseline and reset start a row with empty books.
LEMMA StartLiveKeeps ==
    ASSUME IInv, NEW base \in {pnl, dryBase}, ActivateLive(base) \/ RebaselineLive(base)
    PROVE  IInv'
<1>1. base \in Nat /\ dryBase \in Nat /\ wanted \in BOOLEAN
  BY DEF IInv, TypeOK
<1>2. changes' \in 0..MaxChanges
  BY ChangeFact DEF IInv, ActivateLive, RebaselineLive
<1>3. Free.at = "free"
  BY DEF Free
<1>4. CASE ActivateLive(base)
  BY <1>1, <1>2, <1>3, <1>4, StartOverKeeps DEF ActivateLive
<1>5. CASE RebaselineLive(base)
  BY <1>1, <1>2, <1>3, <1>5, StartOverKeeps DEF RebaselineLive
<1> QED
  BY <1>4, <1>5

\* The baseline may be reset while a thread holds the account lock: one that
\* reserves, submits or reconciles has the policy Live or an intent unresolved.
LEMMA ResetBaselineKeeps ==
    ASSUME IInv, NEW base \in {pnl, 0}, ResetBaseline(base)
    PROVE  IInv'
<1>1. base \in Nat /\ wanted \in BOOLEAN /\ changes' \in 0..MaxChanges
  BY ChangeFact DEF IInv, TypeOK, ResetBaseline
<1>2. job.at # "create"
  BY DEF IInv, JobInv, ResetBaseline
<1> QED
  BY <1>1, <1>2, StartOverKeeps DEF ResetBaseline

LEMMA CreatePolicyKeeps ==
    ASSUME IInv, CreatePolicy
    PROVE  IInv'
<1>1. wanted \in BOOLEAN /\ changes' \in 0..MaxChanges
  BY ChangeFact DEF IInv, TypeOK, CreatePolicy
<1>2. Unresolved = {}
  BY DEF IInv, PauseInv, CreatePolicy, Unresolved
<1>3. job.at # "create"
  BY DEF CreatePolicy, Free
<1> QED
  BY <1>1, <1>2, <1>3, StartOverKeeps DEF CreatePolicy

LEMMA DeletePolicyKeeps ==
    ASSUME IInv, DeletePolicy
    PROVE  IInv'
<1>1. /\ mode \in {"disabled", "dry"} /\ Unresolved = {} /\ mode' = "none"
      /\ intent' = [o \in Ops |-> NoIntent]
      /\ live' = NewLive(0) /\ dryBase' = 0 /\ taken' = 0 /\ carried' = {}
      /\ UNCHANGED <<prepared, job, api, world, posts, pnl, day, wanted, crashes>>
  BY DEF DeletePolicy
<1>2. /\ NoIntent \in Intent /\ NoIntent.state = "none" /\ NoIntent.route = "spot"
      /\ NoIntent.sub = "none"
      /\ live' \in Live /\ live'.due = 0 /\ live'.confirmed = 0 /\ live'.hwm = 0 /\ live'.daily = 0
  BY <1>1 DEF NoIntent, Intent, NewLive, Live
<1>3. \A o \in Ops : intent'[o] = NoIntent
  BY <1>1
<1>4. Unresolved' = {} /\ Unforwarded' = {} /\ \A p \in Ops : ActiveForwards(p)' = {}
  BY <1>2, <1>3 DEF Unresolved, Unforwarded, ActiveForwards
<1>5. TypeOK'
  BY <1>1, <1>2, ChangeFact DEF IInv, TypeOK, DeletePolicy
<1>6. \A o \in Ops : world[o].state # "sent"
  BY <1>1 DEF IInv, OpInv, Unresolved
<1>7. (\A o \in Ops : OpInv(o))'
  BY <1>1, <1>2, <1>3, <1>6 DEF IInv, OpInv, Executed
<1>8. JobInv'
  <2>1. job.at \notin {"post", "answer", "poll", "resolve", "create"}
    BY <1>1 DEF IInv, JobInv, Unresolved
  <2> QED
    BY <1>1, <2>1 DEF IInv, JobInv
<1>9. LegsInv' /\ BooksInv'
  BY <1>1, <1>2, <1>3, <1>4 DEF LegsInv, BooksInv, BooksBalance
<1>10. TakenInv'
  BY <1>1, <1>2, <1>4 DEF TakenInv
<1>11. WaitInv' /\ PauseInv'
  BY <1>1, <1>2, <1>3, <1>4 DEF WaitInv, PauseInv
<1> QED
  BY <1>5, <1>7, <1>8, <1>9, <1>10, <1>11 DEF IInv

-----------------------------------------------------------------------------
(* The invariant and what follows from it.                                  *)

\* The inductive invariant holds initially.
LEMMA InitIInv ==
    Init => IInv
<1> SUFFICES ASSUME Init PROVE IInv
  OBVIOUS
<1>1. \A o \in Ops : intent[o] = NoIntent /\ world[o] = Unsent /\ posts[o] = 0
  BY DEF Init
<1>2. /\ NoIntent \in Intent /\ NoIntent.state = "none" /\ NoIntent.route = "spot"
      /\ NoIntent.sub = "none" /\ Unsent \in World /\ Unsent.state = "idle" /\ Unsent.net = 0
  BY DEF NoIntent, Intent, Unsent, World
<1>3. Unresolved = {} /\ Unforwarded = {} /\ \A p \in Ops : ActiveForwards(p) = {}
  BY <1>1, <1>2 DEF Unresolved, Unforwarded, ActiveForwards
<1>4. /\ live \in Live /\ live.due = 0 /\ live.confirmed = 0 /\ live.hwm = 0 /\ live.daily = 0
  BY DEF Init, NewLive, Live
<1>5. TypeOK
  <2>1. Free \in Job
    BY DEF Free, Job
  <2>2. intent \in [Ops -> Intent] /\ world \in [Ops -> World] /\ posts \in [Ops -> Nat]
    BY <1>2 DEF Init
  <2>3. /\ mode \in {"none", "disabled", "dry", "live", "paused_unknown"} /\ dryBase \in Nat
        /\ job \in Job /\ api \in {"down", "started", "recovered"} /\ carried \subseteq Ops
    BY <2>1 DEF Init
  <2>4. /\ prepared \in 0..MaxOps /\ pnl \in 0..MaxPnl /\ day \in 0..MaxDay /\ taken \in Nat
        /\ crashes \in 0..MaxCrashes /\ changes \in 0..MaxChanges
    BY DEF Init
  <2>5. wanted \in BOOLEAN
    BY DEF Init
  <2> QED
    BY <1>4, <2>2, <2>3, <2>4, <2>5 DEF TypeOK
<1>6. \A o \in Ops : OpInv(o)
  BY <1>1, <1>2 DEF OpInv, Executed
<1>7. JobInv
  BY DEF Init, JobInv, Free
<1>8. LegsInv /\ BooksInv /\ TakenInv
  BY <1>1, <1>2, <1>3, <1>4 DEF Init, LegsInv, BooksInv, BooksBalance, TakenInv
<1>9. WaitInv /\ PauseInv
  BY <1>3 DEF Init, WaitInv, PauseInv
<1> QED
  BY <1>5, <1>6, <1>7, <1>8, <1>9 DEF IInv

\* Every step of the sweep, its user and the exchange preserves it.
LEMMA NextIInv ==
    IInv /\ [Next]_vars => IInv'
<1> SUFFICES ASSUME IInv, [Next]_vars PROVE IInv'
  OBVIOUS
<1>1. CASE UNCHANGED vars
  <2>1. /\ (\A q \in Ops : OpInv(q))' /\ LegsInv' /\ BooksInv' /\ TakenInv' /\ PauseInv'
        /\ Unresolved' = Unresolved /\ Unforwarded' = Unforwarded
    BY <1>1, QuietFrame DEF vars
  <2>2. TypeOK' /\ JobInv' /\ WaitInv'
    BY <1>1, <2>1 DEF IInv, TypeOK, JobInv, WaitInv, vars
  <2> QED
    BY <2>1, <2>2 DEF IInv
<1>2. CASE \E room \in Rooms, route \in Routes : Evaluate(room, route)
  BY <1>2, EvaluateKeeps
<1>3. CASE JobStep
  BY <1>3, ReserveKeeps, ClaimKeeps, PostKeeps, NotPostedKeeps, AnsweredKeeps, PollKeeps,
     ResolveKeeps, ForwardKeeps, ForwardRefusedKeeps, ScanForwardsKeeps, NextForwardKeeps
     DEF JobStep
<1>4. CASE \E o \in Ops : Reconcile(o)
  BY <1>4, ReconcileKeeps
<1>5. CASE Recover \/ Crash \/ Restart
  BY <1>5, RecoverKeeps, CrashKeeps, RestartKeeps
<1>6. CASE Policy
  BY <1>6, SavePolicyKeeps, StartLiveKeeps, ResetBaselineKeeps, DeletePolicyKeeps,
     CreatePolicyKeeps DEF Policy
<1>7. CASE Midnight \/ \E p \in 0..MaxPnl : Trade(p)
  BY <1>7, ClockKeeps
<1>8. CASE \E o \in Ops : Exchange(o)
  BY <1>8, ExchangeKeeps
<1> QED
  BY <1>1, <1>2, <1>3, <1>4, <1>5, <1>6, <1>7, <1>8 DEF Next

\* The invariant holds of the whole lifecycle, crashes, lost answers and policy
\* changes included.
THEOREM SweepInvariant == Spec => []IInv
BY InitIInv, NextIInv, PTL DEF Spec

\* The store, the thread and the exchange keep their types.
THEOREM SweepTypes == Spec => []TypeOK
<1>1. IInv => TypeOK
  BY DEF IInv
<1> QED
  BY <1>1, SweepInvariant, PTL

\* No operation is submitted twice (_execute_prepared_intent).
THEOREM SubmittedOnce == Spec => []PostedOnce
<1>1. IInv => PostedOnce
  BY DEF IInv, OpInv, PostedOnce
<1> QED
  BY <1>1, SweepInvariant, PTL

\* A recorded outcome is what happened on the exchange (reconcile_live_intent).
THEOREM OutcomesTrue == Spec => []OutcomeTrue
<1>1. IInv => OutcomeTrue
  BY DEF IInv, OpInv, OutcomeTrue
<1> QED
  BY <1>1, SweepInvariant, PTL

\* Due and swept amounts add up to the entitlement (evaluate_live,
\* reconcile_live_intent).
THEOREM BooksAlwaysBalance == Spec => []BooksBalance
<1>1. IInv => BooksBalance
  BY DEF IInv, BooksInv
<1> QED
  BY <1>1, SweepInvariant, PTL

\* No more leaves the account than its profit entitles to.
THEOREM TakenBounded == Spec => []TakenWithinEntitlement
<1>1. IInv => TakenWithinEntitlement
  <2> SUFFICES ASSUME IInv, carried = {} PROVE taken <= Share * live.hwm
    BY DEF TakenWithinEntitlement
  <2>1. /\ live.due + live.confirmed = Share * live.hwm
        /\ live.due \in Nat /\ live.confirmed \in Nat /\ intent \in [Ops -> Intent]
        /\ \A o \in Ops : world[o].net \in Nat /\ intent[o].amount \in Nat /\ intent[o].got \in Nat
    BY DEF IInv, BooksInv, BooksBalance, TypeOK, Live, World, Intent
  <2>2. CASE Unforwarded # {}
    <3>1. PICK p \in Unforwarded : p \in Ops
      BY <2>2 DEF Unforwarded
    <3>2. taken = live.confirmed + intent[p].got /\ intent[p].got <= live.due
      BY <3>1 DEF IInv, TakenInv
    <3> QED
      BY <2>1, <3>1, <3>2
  <2>3. CASE Unresolved # {}
    <3>1. PICK o \in Unresolved : o \in Ops /\ intent[o].state # "none"
      BY <2>3 DEF Unresolved
    <3>2. /\ taken = live.confirmed + (IF intent[o].route = "leg2" THEN intent[o].amount
                                       ELSE world[o].net)
          /\ intent[o].amount <= live.due /\ world[o].net <= intent[o].amount
      BY <3>1 DEF IInv, TakenInv, BooksInv, OpInv
    <3> QED
      BY <2>1, <3>1, <3>2
  <2>4. CASE Unforwarded = {} /\ Unresolved = {}
    BY <2>1, <2>4 DEF IInv, TakenInv
  <2> QED
    BY <2>2, <2>3, <2>4
<1> QED
  BY <1>1, SweepInvariant, PTL

\* The settlements of one UTC day stay within the daily limit.
THEOREM DailyLimitHolds == Spec => []DailyLimitKept
<1>1. IInv => DailyLimitKept
  BY DEF IInv, TakenInv, DailyLimitKept
<1> QED
  BY <1>1, SweepInvariant, PTL

\* A paused policy has an operation left to reconcile.
THEOREM PausesExplained == Spec => []PauseExplained
<1>1. IInv => PauseExplained
  BY DEF IInv, PauseInv, PauseExplained
<1> QED
  BY <1>1, SweepInvariant, PTL

-----------------------------------------------------------------------------
(* Live only as chosen.                                                     *)

\* What the user has switched off is not Live, and nothing is open that a
\* resolution could pause or make Live again.
ChosenInv == wanted \/ (mode \in {"none", "disabled", "dry"} /\ Unresolved = {})

\* Only a thread with an unresolved operation, a Live policy or an unpaused one
\* does more than wait.
LEMMA NextChosen ==
    IInv /\ ChosenInv /\ [Next]_vars /\ [RefusalKeepsOff]_vars => ChosenInv'
<1> SUFFICES ASSUME IInv, ChosenInv, [Next]_vars, [RefusalKeepsOff]_vars PROVE ChosenInv'
  OBVIOUS
<1>1. ASSUME UNCHANGED <<mode, intent, wanted>> PROVE ChosenInv'
  BY <1>1 DEF ChosenInv, Unresolved
<1>2. CASE wanted /\ wanted' = wanted
  BY <1>2 DEF ChosenInv
<1>3. CASE Policy
  <2>1. CASE \E m \in {"disabled", "dry"} : SavePolicy(m)
    BY <2>1 DEF SavePolicy, Unresolved, ChosenInv
  <2>2. CASE \E b \in {pnl, dryBase} : ActivateLive(b) \/ RebaselineLive(b)
    BY <1>1, <2>2 DEF ActivateLive, RebaselineLive, ChosenInv
  <2>3. CASE \E b \in {pnl, 0} : ResetBaseline(b)
    BY <1>1, <2>3 DEF ResetBaseline
  <2>4. CASE DeletePolicy
    BY <2>4 DEF DeletePolicy, Unresolved, NoIntent, ChosenInv
  <2>5. CASE CreatePolicy
    <3>1. Unresolved = {}
      BY <2>5 DEF CreatePolicy, IInv, PauseInv, Unresolved
    <3> QED
      BY <2>5, <3>1, SetsFrame DEF CreatePolicy, ChosenInv
  <2> QED
    BY <1>3, <2>1, <2>2, <2>3, <2>4, <2>5 DEF Policy
<1>4. CASE JobStep /\ ~wanted
  <2>1. mode \in {"none", "disabled", "dry"} /\ Unresolved = {}
    BY <1>4 DEF ChosenInv
  <2>2. job.at \notin {"post", "answer", "poll", "resolve"}
    BY <2>1 DEF IInv, JobInv, Unresolved
  <2>3. CASE Reserve \/ Forward
    BY <1>1, <2>1, <2>3 DEF Reserve, Forward, MayForward, user
  <2>4. CASE Claim
    <3>1. intent[job.op].state # "prepared"
      BY <2>1, <2>4 DEF Claim, IInv, JobInv, Unresolved
    <3> QED
      BY <1>1, <2>4, <3>1 DEF Claim, user
  <2>5. CASE ForwardRefused
    <3>1. CASE mode = "none"
      BY <1>1, <2>1, <2>5, <3>1 DEF ForwardRefused, user
    <3>2. CASE mode # "none"
      <4>1. mode' = "paused_unknown"
        BY <2>1, <2>5, <3>2 DEF ForwardRefused
      <4> QED
        BY <2>1, <2>5, <3>2, <4>1 DEF RefusalKeepsOff, vars
    <3> QED
      BY <3>1, <3>2
  <2>6. CASE ScanForwards \/ NextForward
    BY <1>1, <2>6 DEF ScanForwards, NextForward, store, user
  <2> QED
    BY <1>4, <2>2, <2>3, <2>4, <2>5, <2>6
    DEF JobStep, Post, NotPosted, Answered, Poll, Resolve
<1>5. CASE JobStep /\ wanted
  <2>1. wanted' = wanted
    BY <1>5 DEF JobStep, Reserve, Claim, Post, NotPosted, Answered, Poll, Resolve, Forward,
       ForwardRefused, ScanForwards, NextForward, user
  <2> QED
    BY <1>2, <1>5, <2>1
<1>6. CASE \E room \in Rooms, route \in Routes : Evaluate(room, route)
  BY <1>1, <1>6 DEF Evaluate, user
<1>7. CASE \/ UNCHANGED vars \/ Recover \/ Crash \/ Restart \/ Midnight
           \/ \E o \in Ops : Reconcile(o) \/ Exchange(o)
           \/ \E p \in 0..MaxPnl : Trade(p)
  BY <1>1, <1>7 DEF vars, store, user, Recover, Crash, Restart, Midnight, Reconcile, Exchange, Trade
<1> QED
  BY <1>3, <1>4, <1>5, <1>6, <1>7 DEF Next

\* The refusal of a leg 2 is the only thing that makes a policy Live again which
\* the user has switched off: no other pause, reconciliation or restart does
\* (_create_vault_leg_two, reconcile_live_intent).
THEOREM LiveOnlyAsChosen == Spec /\ [][RefusalKeepsOff]_vars => []LiveAsChosen
<1>1. Init => ChosenInv
  BY DEF Init, ChosenInv, Unresolved, NoIntent
<1>2. ChosenInv => LiveAsChosen
  BY DEF ChosenInv, LiveAsChosen
<1> QED
  BY <1>1, <1>2, NextChosen, SweepInvariant, PTL DEF Spec

=============================================================================
