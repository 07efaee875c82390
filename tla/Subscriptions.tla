---------------------------- MODULE Subscriptions ----------------------------
(***************************************************************************)
(* Subscriptions and the calls that change them: the customer service      *)
(* (change_plan, manage_seats), the commands of the CLI and any program    *)
(* that stores what dinarledger.subscriptions.lifecycle returns.  All of   *)
(* them read a subscription, compute a copy of it and an amount to charge, *)
(* and store the copy; nothing is held between the reading and the         *)
(* storing.  The caller chooses the date a call is made for: today, or any *)
(* other.  Every amount is of a whole number of days, so it is counted   *)
(* in units of price and day, which is the amount times the days of the    *)
(* subscription's period; its rounding to cents is left out.               *)
(***************************************************************************)
EXTENDS Integers

CONSTANTS
  Caller,       \* threads and commands that change subscriptions
  Plan,         \* plans
  Price,        \* base price of each plan
  Days,         \* the lengths a first period may have: of a month, what is left of it
  TrialPlan,    \* the plans with trial days
  Window,       \* REACTIVATION_WINDOW_DAYS
  Absent,       \* an id the repository does not hold
  NoCall,       \* a caller that is in no call
  Never,        \* the cancelled_at of a subscription without a cancellation
  MaxId,        \* bound: subscriptions made by one process
  MaxSeats,     \* bound: seats of a subscription
  MaxLead,      \* bound: days a subscription may start after it is made
  MaxDay        \* bound: days that pass

Id == 1..MaxId
Subscription == [plan : Plan, status : {"TRIAL", "ACTIVE", "CANCELLED"},
                 start : Nat, end : Nat, seats : Nat \ {0}, cancelledAt : Nat \cup {Never}]
Call == [sub : Id, read : Subscription, write : Subscription, amount : Int, day : Nat]

ASSUME SubscriptionsAssumption ==
  /\ Price \in [Plan -> Nat]
  /\ Days \in [Plan -> SUBSET (Nat \ {0})]
  /\ TrialPlan \subseteq Plan
  /\ Window \in Nat
  /\ Absent \notin Subscription /\ NoCall \notin Call /\ Never \notin Int
  /\ MaxId \in Nat /\ MaxSeats \in Nat /\ MaxLead \in Nat /\ MaxDay \in Nat

VARIABLES
  subs,      \* the subscription repository
  counter,   \* _sub_counter of the process
  call,      \* what each caller has read and is about to store
  today,     \* date.today()
  credit,    \* history: the first period's price and the amounts of later calls, less
             \* the price of the seats on each day that has passed, a trial's included
  settled    \* history: subscriptions every call on which was stored at once, whose plan
             \* and seats were changed for the day itself, and the plan only while they
             \* had a single seat

vars == <<subs, counter, call, today, credit, settled>>

Init ==
  /\ subs = [s \in Id |-> Absent]
  /\ counter = 0
  /\ call = [c \in Caller |-> NoCall]
  /\ today = 0
  /\ credit = [s \in Id |-> 0]
  /\ settled = {}

(***************************************************************************)
(* Proration: an amount is the product of a price and these days           *)
(***************************************************************************)

\* Days of the period from day to its end, both included (proration_fraction).
DaysLeft(sub, day) ==
  IF day > sub.end THEN 0 ELSE sub.end - (IF day < sub.start THEN sub.start ELSE day) + 1

SeatChargeFromTomorrow(sub, delta, day) == Price[sub.plan] * delta * DaysLeft(sub, day + 1)

SeatCharge(sub, delta, day) == Price[sub.plan] * delta * DaysLeft(sub, day)

UpgradeCredit(sub, day) == Price[sub.plan] * DaysLeft(sub, day)

UpgradeCharge(plan, sub, day) == Price[plan] * DaysLeft(sub, day)

NetUpgradeAmount(plan, sub, day) == UpgradeCharge(plan, sub, day) - UpgradeCredit(sub, day)

(***************************************************************************)
(* Making a subscription                                                   *)
(***************************************************************************)

InitialStatus(plan) == IF plan \in TrialPlan THEN "TRIAL" ELSE "ACTIVE"

\* subscribe, and the storing of what it returns.  Ids are counted by the process; how
\* long the first period is depends on the calendar.
Subscribe(plan, start, days, seats) ==
  /\ counter < MaxId
  /\ counter' = counter + 1
  /\ LET s == counter + 1
     IN /\ subs' = [subs EXCEPT ![s] =
                      [plan |-> plan, status |-> InitialStatus(plan), start |-> start,
                       end |-> start + days - 1, seats |-> seats, cancelledAt |-> Never]]
        /\ credit' = [credit EXCEPT ![s] = Price[plan] * seats * days]
        /\ settled' = settled \cup {s}
  /\ UNCHANGED <<call, today>>

(***************************************************************************)
(* The calls, made for a day.  One that raises changes nothing: no step.   *)
(***************************************************************************)

\* The caller has read the subscription and computed what to store and to charge.
Begin(c, s, write, amount, day) ==
  /\ call[c] = NoCall
  /\ call' = [call EXCEPT ![c] = [sub |-> s, read |-> subs[s], write |-> write,
                                  amount |-> amount, day |-> day]]
  /\ UNCHANGED <<subs, counter, today, credit, settled>>

Held(s, status) == subs[s] # Absent /\ subs[s].status \in status

RemovableAll(sub, n) == n <= sub.seats

\* A BillingPeriod of a single day is refused.
HasPeriod(sub) == sub.start < sub.end

\* remove_seats: one seat at least must remain.
Removable(sub, n) == n < sub.seats

\* manage_seats on the subscription _find_active_subscription finds; which of several
\* it is depends on the order of the repository.
ManageSeats(c, s, delta, day) ==
  /\ Held(s, {"ACTIVE", "TRIAL"})
  /\ delta # 0
  /\ HasPeriod(subs[s])
  /\ delta < 0 => Removable(subs[s], -delta)
  /\ subs[s].seats + delta <= MaxSeats
  /\ Begin(c, s, [subs[s] EXCEPT !.seats = @ + delta], SeatCharge(subs[s], delta, day), day)

\* change_plan: the period stays, whatever the cycle of the new plan.
ChangePlan(c, s, plan, day) ==
  /\ Held(s, {"ACTIVE"})
  /\ HasPeriod(subs[s])
  /\ Begin(c, s, [subs[s] EXCEPT !.plan = plan], NetUpgradeAmount(plan, subs[s], day), day)

\* activate takes no date.
Activate(c, s) ==
  /\ Held(s, {"TRIAL"})
  /\ Begin(c, s, [subs[s] EXCEPT !.status = "ACTIVE"], 0, today)

\* cancel_subscription, at once or at the end of the period.
Cancel(c, s, day, immediate) ==
  /\ Held(s, {"ACTIVE", "TRIAL"})
  /\ Begin(c, s, [subs[s] EXCEPT !.status = IF immediate THEN "CANCELLED" ELSE @,
                                 !.cancelledAt = day], 0, day)

InWindowAndOne(sub, day) == sub.cancelledAt # Never => day - sub.cancelledAt <= Window + 1

InWindow(sub, day) == sub.cancelledAt # Never => day - sub.cancelledAt <= Window

\* reactivate asks for no status: a trial or an active subscription passes, too.
Reactivate(c, s, day) ==
  /\ subs[s] # Absent
  /\ InWindow(subs[s], day)
  /\ Begin(c, s, [subs[s] EXCEPT !.status = "ACTIVE", !.cancelledAt = Never], 0, day)

SameUse(w) == w.write.plan = w.read.plan /\ w.write.seats = w.read.seats

\* The copy was computed from what the repository still holds, a change of use for today.
UpToDate(c) == subs[call[c].sub] = call[c].read /\ (call[c].day = today \/ SameUse(call[c]))

PlanOfSeatsChanged(w) == w.write.plan # w.read.plan /\ w.read.seats > 1

\* The caller stores its copy over whatever the repository holds, and is told the amount.
Store(c) ==
  /\ call[c] # NoCall
  /\ call' = [call EXCEPT ![c] = NoCall]
  /\ LET w == call[c]
         s == call[c].sub
     IN /\ subs' = [subs EXCEPT ![s] = w.write]
        /\ IF s \in settled /\ UpToDate(c) /\ ~PlanOfSeatsChanged(w)
           THEN /\ credit' = [credit EXCEPT ![s] = @ + w.amount]
                /\ UNCHANGED settled
           ELSE /\ settled' = settled \ {s}
                /\ credit' = [credit EXCEPT ![s] = 0]
  /\ UNCHANGED <<counter, today>>

(***************************************************************************)
(* The world                                                               *)
(***************************************************************************)

InPeriod(sub, day) == sub.start <= day /\ day <= sub.end

\* The price of what is left of the subscription, at its present plan and seats.
Ahead(sub, day) == Price[sub.plan] * sub.seats * DaysLeft(sub, day)

NextDay ==
  /\ today < MaxDay
  /\ today' = today + 1
  /\ credit' = [s \in Id |-> IF s \in settled /\ InPeriod(subs[s], today)
                             THEN credit[s] - Price[subs[s].plan] * subs[s].seats
                             ELSE credit[s]]
  /\ UNCHANGED <<subs, counter, call, settled>>

Next ==
  \/ \E plan \in Plan, start \in today..(today + MaxLead), seats \in 1..MaxSeats :
       \E days \in Days[plan] : Subscribe(plan, start, days, seats)
  \/ \E c \in Caller :
       \/ Store(c)
       \/ \E s \in Id : Activate(c, s)
       \/ \E s \in Id, day \in 0..MaxDay :
            \/ \E delta \in -MaxSeats..MaxSeats : ManageSeats(c, s, delta, day)
            \/ \E plan \in Plan : ChangePlan(c, s, plan, day)
            \/ \E immediate \in BOOLEAN : Cancel(c, s, day, immediate)
            \/ Reactivate(c, s, day)
  \/ NextDay

Spec == Init /\ [][Next]_vars

(***************************************************************************)
(* Properties                                                              *)
(***************************************************************************)

TypeOK ==
  /\ subs \in [Id -> Subscription \cup {Absent}]
  /\ counter \in 0..MaxId
  /\ call \in [Caller -> Call \cup {NoCall}]
  /\ today \in 0..MaxDay
  /\ credit \in [Id -> Int]
  /\ settled \subseteq Id

\* What is left of the charges is the price of the days still ahead.
Balanced(s) == credit[s] = Ahead(subs[s], today)

\* Seats may be added and removed, and the plan of a single seat changed, on any days
\* and in any order, with cancellations and reactivations for any day in between: as long
\* as no two calls overlap and each change is made for the day it happens on, the charges
\* and credits of manage_seats and change_plan add up to the price of the plan and seats
\* the subscription had on each day of its period.
ChargesMatchUse == \A s \in settled : Balanced(s)

\* An amount that is about to be charged or credited settles what is about to be stored,
\* whatever the call and the number of seats: seats.py says that each seat is billed at
\* the price of the plan, and proration.py that a change credits the unused portion of
\* the old plan.
AmountSettlesChange ==
  \A c \in Caller :
    call[c] # NoCall /\ UpToDate(c) /\ call[c].sub \in settled
      => credit[call[c].sub] + call[c].amount = Ahead(call[c].write, today)

\* However calls overlap and whatever days they are made for, a CANCELLED subscription
\* leaves that status only when a caller stores a copy that it made before the
\* cancellation, or reactivates for a day that lies in the window of the cancellation it
\* read, which a CANCELLED subscription always has: reactivate checks no window when it
\* finds no cancellation date.
CancelledLeftInWindow ==
  [][\A s \in Id :
       /\ Held(s, {"CANCELLED"})
       /\ subs'[s].status # "CANCELLED"
       => \E c \in Caller :
            /\ call[c] # NoCall /\ call[c].sub = s /\ call'[c] = NoCall
            /\ \/ call[c].read.status # "CANCELLED"
               \/ /\ call[c].read.cancelledAt # Never
                  /\ call[c].day - call[c].read.cancelledAt <= Window]_vars

=============================================================================
