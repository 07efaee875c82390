------------------------- MODULE SubscriptionsProofs -------------------------
(***************************************************************************)
(* Charges and cancellations of subscriptions, for any number of callers,  *)
(* plans, prices, periods and days.                                        *)
(***************************************************************************)
EXTENDS Subscriptions, TLAPS

(***************************************************************************)
(* The inductive invariant                                                 *)
(***************************************************************************)

\* Ids are given in order; what the repository holds has a period.
StoredInv ==
  \A s \in Id : /\ s > counter => subs[s] = Absent
                /\ s \in settled => subs[s] # Absent
                /\ subs[s] # Absent => subs[s].start <= subs[s].end

\* What a caller is about to store is of the same period, and the amount it is about to
\* report is the difference between the two prices ahead.
CallInv ==
  \A c \in Caller : call[c] # NoCall =>
    /\ subs[call[c].sub] # Absent
    /\ call[c].write.start = call[c].read.start
    /\ call[c].write.end = call[c].read.end
    /\ call[c].read.start <= call[c].read.end
    /\ ~PlanOfSeatsChanged(call[c]) =>
         call[c].amount = Ahead(call[c].write, call[c].day) - Ahead(call[c].read, call[c].day)

\* What is, or is about to be, CANCELLED has a cancellation date; a copy that is not, of one
\* that is, was made within the window of its date.
WindowInv ==
  /\ \A s \in Id : Held(s, {"CANCELLED"}) => subs[s].cancelledAt # Never
  /\ \A c \in Caller : call[c] # NoCall =>
       /\ call[c].write.status = "CANCELLED" => call[c].write.cancelledAt # Never
       /\ call[c].read.status = "CANCELLED" =>
            /\ call[c].read.cancelledAt # Never
            /\ call[c].day - call[c].read.cancelledAt <= Window

IInv == TypeOK /\ StoredInv /\ CallInv /\ ChargesMatchUse /\ WindowInv

(***************************************************************************)
(* Prices and days                                                         *)
(***************************************************************************)

LEMMA Distribute ==
  ASSUME NEW p \in Int, NEW n \in Int, NEW m \in Int, NEW d \in Int
  PROVE  p * (n + m) * d = p * n * d + p * m * d
OBVIOUS

LEMMA DistributeLess ==
  ASSUME NEW p \in Int, NEW d \in Int
  PROVE  p * (d - 1) = p * d - p
OBVIOUS

\* The days left are a number, and a day within the period uses one of them up.
LEMMA DaysLeftStep ==
  ASSUME NEW sub \in Subscription, NEW day \in Nat, sub.start <= sub.end
  PROVE  /\ DaysLeft(sub, day) \in Nat
         /\ DaysLeft(sub, day + 1) = IF InPeriod(sub, day) THEN DaysLeft(sub, day) - 1
                                     ELSE DaysLeft(sub, day)
BY DEF DaysLeft, InPeriod, Subscription

LEMMA AheadType ==
  ASSUME NEW sub \in Subscription, NEW day \in Nat, sub.start <= sub.end
  PROVE  Ahead(sub, day) \in Int /\ Price[sub.plan] \in Int /\ sub.seats \in Int
<1>1. DaysLeft(sub, day) \in Int
  BY DaysLeftStep
<1>2. Price[sub.plan] \in Int /\ sub.seats \in Int
  BY SubscriptionsAssumption DEF Subscription
<1> QED
  BY <1>1, <1>2 DEF Ahead

\* A day within the period takes the price of the seats from what is ahead.
LEMMA AheadStep ==
  ASSUME NEW sub \in Subscription, NEW day \in Nat, sub.start <= sub.end
  PROVE  Ahead(sub, day + 1) = IF InPeriod(sub, day)
                               THEN Ahead(sub, day) - Price[sub.plan] * sub.seats
                               ELSE Ahead(sub, day)
<1> DEFINE rate == Price[sub.plan] * sub.seats
           left == DaysLeft(sub, day)
<1>1. rate \in Int /\ left \in Int
  BY AheadType, DaysLeftStep
<1>2. CASE InPeriod(sub, day)
  <2>1. DaysLeft(sub, day + 1) = left - 1
    BY <1>2, DaysLeftStep
  <2> HIDE DEF rate, left
  <2>2. rate * (left - 1) = rate * left - rate
    BY <1>1, DistributeLess
  <2> QED
    BY <1>2, <2>1, <2>2 DEF Ahead, rate, left
<1>3. CASE ~InPeriod(sub, day)
  BY <1>3, DaysLeftStep DEF Ahead
<1> QED
  BY <1>2, <1>3

(***************************************************************************)
(* A call begins                                                           *)
(***************************************************************************)

\* What a call computes keeps the invariant if it stays within the period, reports the
\* difference it makes, and works on what is CANCELLED only within the window.
LEMMA BeginKeeps ==
  ASSUME IInv, NEW c \in Caller, NEW s \in Id, NEW write \in Subscription, NEW amount \in Int,
         NEW day \in Nat, Begin(c, s, write, amount, day),
         subs[s] # Absent,
         write.start = subs[s].start, write.end = subs[s].end,
         write.plan = subs[s].plan \/ subs[s].seats <= 1
           => amount = Ahead(write, day) - Ahead(subs[s], day),
         write.status = "CANCELLED" => write.cancelledAt # Never,
         subs[s].status = "CANCELLED" => InWindow(subs[s], day)
  PROVE  IInv'
<1> DEFINE w == [sub |-> s, read |-> subs[s], write |-> write, amount |-> amount, day |-> day]
<1>1. /\ subs[s] \in Subscription /\ subs[s].seats \in Nat
      /\ w \in Call
  BY SubscriptionsAssumption DEF IInv, TypeOK, Call, Subscription
<1>2. /\ call' = [call EXCEPT ![c] = w]
      /\ UNCHANGED <<subs, counter, today, credit, settled>>
  BY DEF Begin
<1>3. call'[c] = w /\ \A d \in Caller : d # c => call'[d] = call[d]
  BY <1>2 DEF IInv, TypeOK
<1>4. TypeOK'
  BY <1>1, <1>2 DEF IInv, TypeOK
<1>5. StoredInv' /\ ChargesMatchUse'
  BY <1>2 DEF IInv, StoredInv, ChargesMatchUse, Balanced, Ahead, DaysLeft
<1>6. CallInv'
  <2>1. /\ subs[w.sub] # Absent
        /\ w.write.start = w.read.start /\ w.write.end = w.read.end
        /\ w.read.start <= w.read.end
    BY <1>1 DEF IInv, StoredInv
  <2>2. ~PlanOfSeatsChanged(w) => w.amount = Ahead(w.write, w.day) - Ahead(w.read, w.day)
    BY <1>1 DEF PlanOfSeatsChanged
  <2> HIDE DEF w
  <2> QED
    BY <1>2, <1>3, <2>1, <2>2 DEF IInv, CallInv, PlanOfSeatsChanged, Ahead, DaysLeft
<1>7. WindowInv'
  <2>1. /\ w.write.status = "CANCELLED" => w.write.cancelledAt # Never
        /\ w.read.status = "CANCELLED" =>
             w.read.cancelledAt # Never /\ w.day - w.read.cancelledAt <= Window
    BY DEF IInv, WindowInv, Held, InWindow
  <2> HIDE DEF w
  <2> QED
    BY <1>2, <1>3, <2>1 DEF IInv, WindowInv, Held
<1> QED
  BY <1>4, <1>5, <1>6, <1>7 DEF IInv

LEMMA ManageSeatsKeeps ==
  ASSUME IInv, NEW c \in Caller, NEW s \in Id, NEW delta \in -MaxSeats..MaxSeats,
         NEW day \in 0..MaxDay, ManageSeats(c, s, delta, day)
  PROVE  IInv'
<1> DEFINE old == subs[s]
           write == [old EXCEPT !.seats = @ + delta]
           left == DaysLeft(old, day)
<1>1. /\ old \in Subscription /\ old # Absent /\ old.status \in {"ACTIVE", "TRIAL"}
      /\ day \in Nat /\ delta \in Int
      /\ old.start <= old.end
  BY SubscriptionsAssumption DEF IInv, TypeOK, StoredInv, ManageSeats, Held
<1>2. old.seats + delta \in Nat \ {0}
  BY <1>1 DEF ManageSeats, Removable, Subscription
<1>3. /\ write \in Subscription
      /\ write.plan = old.plan /\ write.status = old.status
      /\ write.start = old.start /\ write.end = old.end
      /\ write.seats = old.seats + delta
  BY <1>1, <1>2 DEF Subscription
<1>4. /\ Price[old.plan] \in Int /\ old.seats \in Int /\ left \in Int
  BY <1>1, AheadType, DaysLeftStep
<1>5. SeatCharge(old, delta, day) \in Int
  BY <1>1, <1>4 DEF SeatCharge
<1>6. SeatCharge(old, delta, day) = Ahead(write, day) - Ahead(old, day)
  <2>1. Ahead(write, day) = Price[old.plan] * (old.seats + delta) * left
    BY <1>3 DEF Ahead, DaysLeft
  <2>2. Ahead(old, day) = Price[old.plan] * old.seats * left
    BY DEF Ahead
  <2>3. SeatCharge(old, delta, day) = Price[old.plan] * delta * left
    BY DEF SeatCharge
  <2>4. Price[old.plan] * (old.seats + delta) * left
          = Price[old.plan] * old.seats * left + Price[old.plan] * delta * left
    BY <1>1, <1>4, Distribute
  <2>5. Price[old.plan] * old.seats * left \in Int /\ Price[old.plan] * delta * left \in Int
    BY <1>1, <1>4
  <2> QED
    BY <2>1, <2>2, <2>3, <2>4, <2>5
<1>7. Begin(c, s, write, SeatCharge(old, delta, day), day)
  BY DEF ManageSeats
<1> HIDE DEF write
<1> QED
  BY <1>1, <1>3, <1>5, <1>6, <1>7, BeginKeeps

LEMMA ChangePlanKeeps ==
  ASSUME IInv, NEW c \in Caller, NEW s \in Id, NEW plan \in Plan,
         NEW day \in 0..MaxDay, ChangePlan(c, s, plan, day)
  PROVE  IInv'
<1> DEFINE old == subs[s]
           write == [old EXCEPT !.plan = plan]
           left == DaysLeft(old, day)
           net == NetUpgradeAmount(plan, old, day)
<1>1. /\ old \in Subscription /\ old # Absent /\ old.status = "ACTIVE"
      /\ day \in Nat
      /\ old.start <= old.end
  BY SubscriptionsAssumption DEF IInv, TypeOK, StoredInv, ChangePlan, Held
<1>2. /\ write \in Subscription
      /\ write.plan = plan /\ write.status = old.status
      /\ write.start = old.start /\ write.end = old.end
      /\ write.seats = old.seats
  BY <1>1 DEF Subscription
<1>3. /\ Price[old.plan] \in Int /\ Price[plan] \in Int /\ left \in Int
      /\ old.seats \in Nat \ {0}
  BY <1>1, AheadType, DaysLeftStep, SubscriptionsAssumption DEF Subscription
<1>4. net = Price[plan] * left - Price[old.plan] * left /\ net \in Int
  BY <1>3 DEF NetUpgradeAmount, UpgradeCharge, UpgradeCredit
<1>5. write.plan = old.plan \/ old.seats <= 1 => net = Ahead(write, day) - Ahead(old, day)
  <2>1. Ahead(write, day) = Price[plan] * old.seats * left
    BY <1>2 DEF Ahead, DaysLeft
  <2>2. Ahead(old, day) = Price[old.plan] * old.seats * left
    BY DEF Ahead
  <2>3. CASE plan = old.plan
    <3>1. net = 0
      BY <1>3, <1>4, <2>3
    <3>2. Price[plan] * old.seats * left \in Int
      BY <1>3
    <3> QED
      BY <2>1, <2>2, <2>3, <3>1, <3>2
  <2>4. CASE old.seats <= 1
    <3>1. old.seats = 1
      BY <1>3, <2>4
    <3> QED
      BY <1>3, <1>4, <2>1, <2>2, <3>1
  <2> QED
    BY <1>2, <2>3, <2>4
<1>6. Begin(c, s, write, net, day)
  BY DEF ChangePlan
<1> HIDE DEF write, net
<1> QED
  BY <1>1, <1>2, <1>4, <1>5, <1>6, BeginKeeps

\* The calls that change neither plan nor seats.
LEMMA StatusKeeps ==
  ASSUME IInv, NEW c \in Caller, NEW s \in Id,
         \/ Activate(c, s)
         \/ \E day \in 0..MaxDay, immediate \in BOOLEAN : Cancel(c, s, day, immediate)
         \/ \E day \in 0..MaxDay : Reactivate(c, s, day)
  PROVE  IInv'
<1> DEFINE old == subs[s]
<1>1. /\ old \in Subscription /\ old # Absent
      /\ today \in Nat
      /\ old.start <= old.end
  <2>1. old # Absent
    BY DEF Activate, Cancel, Reactivate, Held
  <2> QED
    BY <2>1, SubscriptionsAssumption DEF IInv, TypeOK, StoredInv
<1>2. ASSUME NEW write \in Subscription,
             write.plan = old.plan, write.seats = old.seats,
             write.start = old.start, write.end = old.end
      PROVE  \A day \in Nat : 0 = Ahead(write, day) - Ahead(old, day)
  <2>1. \A day \in Nat : Ahead(write, day) = Ahead(old, day)
    BY <1>2 DEF Ahead, DaysLeft
  <2> QED
    BY <1>1, <2>1, AheadType
<1>3. CASE Activate(c, s)
  <2> DEFINE write == [old EXCEPT !.status = "ACTIVE"]
  <2>1. /\ write \in Subscription /\ old.status = "TRIAL"
        /\ write.plan = old.plan /\ write.seats = old.seats
        /\ write.start = old.start /\ write.end = old.end /\ write.status = "ACTIVE"
    BY <1>1, <1>3 DEF Activate, Held, Subscription
  <2>2. Begin(c, s, write, 0, today)
    BY <1>3 DEF Activate
  <2> HIDE DEF write
  <2> QED
    BY <1>1, <1>2, <2>1, <2>2, BeginKeeps
<1>4. ASSUME NEW day \in 0..MaxDay, NEW immediate \in BOOLEAN, Cancel(c, s, day, immediate)
      PROVE  IInv'
  <2> DEFINE write == [old EXCEPT !.status = IF immediate THEN "CANCELLED" ELSE @,
                                  !.cancelledAt = day]
  <2>0. day \in Nat /\ day # Never
    BY SubscriptionsAssumption
  <2>1. /\ write \in Subscription /\ old.status \in {"ACTIVE", "TRIAL"}
        /\ write.plan = old.plan /\ write.seats = old.seats
        /\ write.start = old.start /\ write.end = old.end
        /\ write.cancelledAt = day
    BY <1>1, <2>0, <1>4 DEF Cancel, Held, Subscription
  <2>2. Begin(c, s, write, 0, day)
    BY <1>4 DEF Cancel
  <2> HIDE DEF write
  <2> QED
    BY <1>1, <1>2, <2>0, <2>1, <2>2, BeginKeeps
<1>5. ASSUME NEW day \in 0..MaxDay, Reactivate(c, s, day)
      PROVE  IInv'
  <2> DEFINE write == [old EXCEPT !.status = "ACTIVE", !.cancelledAt = Never]
  <2>0. day \in Nat
    BY SubscriptionsAssumption
  <2>1. /\ write \in Subscription /\ InWindow(old, day)
        /\ write.plan = old.plan /\ write.seats = old.seats
        /\ write.start = old.start /\ write.end = old.end /\ write.status = "ACTIVE"
    BY <1>1, <1>5 DEF Reactivate, Subscription
  <2>2. Begin(c, s, write, 0, day)
    BY <1>5 DEF Reactivate
  <2> HIDE DEF write
  <2> QED
    BY <1>1, <1>2, <2>0, <2>1, <2>2, BeginKeeps
<1> QED
  BY <1>3, <1>4, <1>5

(***************************************************************************)
(* A call is stored, a subscription is made, a day passes                  *)
(***************************************************************************)

LEMMA StoreKeeps ==
  ASSUME IInv, NEW c \in Caller, Store(c)
  PROVE  IInv'
<1> DEFINE w == call[c]
           s == call[c].sub
<1>1. /\ w \in Call /\ s \in Id
      /\ w.read \in Subscription /\ w.write \in Subscription
      /\ w.amount \in Int /\ w.day \in Nat
      /\ today \in Nat
  BY SubscriptionsAssumption DEF Store, IInv, TypeOK, Call
<1>2. /\ subs' = [subs EXCEPT ![s] = w.write]
      /\ call' = [call EXCEPT ![c] = NoCall]
      /\ UNCHANGED <<counter, today>>
  BY DEF Store
<1>3. \/ /\ s \in settled /\ UpToDate(c) /\ ~PlanOfSeatsChanged(w)
         /\ credit' = [credit EXCEPT ![s] = @ + w.amount]
         /\ settled' = settled
      \/ /\ settled' = settled \ {s}
         /\ credit' = [credit EXCEPT ![s] = 0]
  BY DEF Store
<1>4. /\ w # NoCall
      /\ subs[s] # Absent
      /\ w.write.start = w.read.start /\ w.write.end = w.read.end
      /\ w.read.start <= w.read.end
      /\ ~PlanOfSeatsChanged(w) => w.amount = Ahead(w.write, w.day) - Ahead(w.read, w.day)
  BY DEF Store, IInv, CallInv
<1>5. w.write # Absent
  BY <1>1, SubscriptionsAssumption
<1>6. /\ subs'[s] = w.write
      /\ \A r \in Id : r # s => subs'[r] = subs[r]
      /\ \A d \in Caller : call'[d] # NoCall => d # c /\ call'[d] = call[d]
  BY <1>1, <1>2 DEF IInv, TypeOK
<1> HIDE DEF w, s
<1>7. TypeOK'
  <2>1. subs' \in [Id -> Subscription \cup {Absent}] /\ call' \in [Caller -> Call \cup {NoCall}]
    BY <1>1, <1>2 DEF IInv, TypeOK
  <2>2. credit' \in [Id -> Int] /\ settled' \subseteq Id
    BY <1>1, <1>3 DEF IInv, TypeOK
  <2> QED
    BY <1>2, <2>1, <2>2 DEF IInv, TypeOK
<1>8. StoredInv'
  <2>1. settled' \subseteq settled
    BY <1>3
  <2> QED
    BY <1>1, <1>2, <1>4, <1>5, <1>6, <2>1 DEF IInv, StoredInv
<1>9. CallInv'
  <2>1. ASSUME NEW d \in Caller, call'[d] # NoCall
        PROVE  subs'[call'[d].sub] # Absent
    <3>1. call'[d] = call[d] /\ call[d] # NoCall /\ call[d].sub \in Id
      BY <1>6, <2>1 DEF IInv, TypeOK, Call
    <3> QED
      BY <1>5, <1>6, <3>1 DEF IInv, CallInv
  <2> QED
    BY <1>2, <1>6, <2>1 DEF IInv, CallInv, PlanOfSeatsChanged, Ahead, DaysLeft
<1>10. ChargesMatchUse'
  <2>1. SUFFICES ASSUME NEW r \in settled'
                 PROVE  credit'[r] = Ahead(subs'[r], today)
    BY <1>2 DEF ChargesMatchUse, Balanced, Ahead, DaysLeft
  <2>2. r \in settled /\ r \in Id
    BY <1>3 DEF IInv, TypeOK
  <2>3. credit[r] = Ahead(subs[r], today)
    BY <2>2 DEF IInv, ChargesMatchUse, Balanced
  <2>4. CASE r = s
    <3>1. /\ UpToDate(c) /\ ~PlanOfSeatsChanged(w)
          /\ credit' = [credit EXCEPT ![s] = @ + w.amount]
      BY <1>3, <2>1, <2>4
    <3>2. subs[s] = w.read /\ (w.day = today \/ SameUse(w))
      BY <3>1 DEF UpToDate, w, s
    <3>3. credit'[s] = Ahead(w.read, today) + w.amount
      BY <1>1, <2>3, <2>4, <3>1, <3>2 DEF IInv, TypeOK
    <3>4. \A day \in Nat : Ahead(w.read, day) \in Int /\ Ahead(w.write, day) \in Int
      BY <1>1, <1>4, AheadType
    <3>5. w.amount = Ahead(w.write, today) - Ahead(w.read, today)
      <4>1. SameUse(w) => \A day \in Nat : Ahead(w.write, day) = Ahead(w.read, day)
        BY <1>4 DEF SameUse, Ahead, DaysLeft
      <4> QED
        BY <1>1, <1>4, <3>1, <3>2, <3>4, <4>1
    <3> QED
      BY <1>1, <1>6, <2>4, <3>3, <3>4, <3>5
  <2>5. CASE r # s
    <3>1. credit'[r] = credit[r]
      BY <1>3, <2>2, <2>5 DEF IInv, TypeOK
    <3> QED
      BY <1>6, <2>2, <2>3, <2>5, <3>1
  <2> QED
    BY <2>4, <2>5
<1>11. WindowInv'
  <2>1. w.write.status = "CANCELLED" => w.write.cancelledAt # Never
    BY <1>4 DEF IInv, WindowInv, w
  <2> QED
    BY <1>1, <1>6, <2>1 DEF IInv, WindowInv, Held
<1> QED
  BY <1>7, <1>8, <1>9, <1>10, <1>11 DEF IInv

LEMMA SubscribeKeeps ==
  ASSUME IInv, NEW plan \in Plan, NEW start \in today..(today + MaxLead),
         NEW days \in Days[plan], NEW seats \in 1..MaxSeats, Subscribe(plan, start, days, seats)
  PROVE  IInv'
<1> DEFINE s == counter + 1
           sub == [plan |-> plan, status |-> InitialStatus(plan), start |-> start,
                   end |-> start + days - 1, seats |-> seats, cancelledAt |-> Never]
           price == Price[plan] * seats * days
<1>1. /\ s \in Id /\ s \in Nat /\ counter \in Nat /\ today \in Nat /\ start \in Nat /\ seats \in Nat \ {0}
      /\ days \in Nat \ {0} /\ Price[plan] \in Nat
      /\ start >= today
  BY SubscriptionsAssumption DEF Subscribe, IInv, TypeOK, Id
<1>2. /\ sub \in Subscription /\ sub # Absent
      /\ sub.start <= sub.end /\ sub.status # "CANCELLED"
  BY <1>1, SubscriptionsAssumption DEF Subscription, InitialStatus
<1>3. price \in Int /\ price = Ahead(sub, today)
  <2>1. DaysLeft(sub, today) = days
    BY <1>1 DEF DaysLeft
  <2>2. Ahead(sub, today) = price
    BY <2>1 DEF Ahead
  <2> QED
    BY <1>1, <2>2
<1>4. /\ subs' = [subs EXCEPT ![s] = sub]
      /\ credit' = [credit EXCEPT ![s] = price]
      /\ settled' = settled \cup {s}
      /\ counter' = s
      /\ UNCHANGED <<call, today>>
  BY DEF Subscribe
<1> HIDE DEF sub, price
<1>5. /\ subs'[s] = sub /\ credit'[s] = price
      /\ \A r \in Id : r # s => /\ subs'[r] = subs[r] /\ credit'[r] = credit[r]
  BY <1>1, <1>4 DEF IInv, TypeOK
<1>6. TypeOK'
  <2>1. subs' \in [Id -> Subscription \cup {Absent}] /\ credit' \in [Id -> Int]
    BY <1>1, <1>2, <1>3, <1>4 DEF IInv, TypeOK
  <2>2. settled' \subseteq Id
    BY <1>1, <1>4 DEF IInv, TypeOK
  <2>3. counter' \in 0..MaxId
    BY <1>1, <1>4, SubscriptionsAssumption DEF Subscribe
  <2> QED
    BY <1>4, <2>1, <2>2, <2>3 DEF IInv, TypeOK
<1>7. StoredInv'
  BY <1>1, <1>2, <1>4, <1>5 DEF IInv, StoredInv, Id
<1>8. ASSUME NEW c \in Caller, call[c] # NoCall
      PROVE  call[c].sub \in Id /\ call[c].sub # s /\ call[c].sub <= counter
  BY <1>1, <1>8 DEF IInv, TypeOK, StoredInv, CallInv, Call, Id
<1>9. CallInv'
  BY <1>4, <1>5, <1>8 DEF IInv, CallInv, PlanOfSeatsChanged, Ahead, DaysLeft
<1>10. ChargesMatchUse'
  BY <1>3, <1>4, <1>5 DEF IInv, TypeOK, ChargesMatchUse, Balanced, Ahead, DaysLeft
<1>11. WindowInv'
  BY <1>2, <1>4, <1>5 DEF IInv, WindowInv, Held
<1> QED
  BY <1>6, <1>7, <1>9, <1>10, <1>11 DEF IInv

LEMMA NextDayKeeps ==
  ASSUME IInv, NextDay
  PROVE  IInv'
<1>1. /\ today \in Nat /\ today' = today + 1 /\ today' \in 0..MaxDay
      /\ UNCHANGED <<subs, counter, call, settled>>
  BY SubscriptionsAssumption DEF NextDay, IInv, TypeOK
<1>2. ASSUME NEW s \in settled
      PROVE  /\ credit'[s] = Ahead(subs[s], today + 1)
             /\ credit'[s] \in Int
  <2>1. /\ s \in Id /\ subs[s] \in Subscription /\ subs[s].start <= subs[s].end
        /\ credit[s] = Ahead(subs[s], today)
    BY DEF IInv, TypeOK, StoredInv, ChargesMatchUse, Balanced
  <2>2. credit'[s] = IF InPeriod(subs[s], today)
                     THEN credit[s] - Price[subs[s].plan] * subs[s].seats
                     ELSE credit[s]
    BY <2>1 DEF NextDay
  <2>3. Ahead(subs[s], today + 1) \in Int
    BY <1>1, <2>1, AheadType
  <2> QED
    BY <1>1, <2>1, <2>2, <2>3, AheadStep
<1>3. credit' \in [Id -> Int]
  <2>1. ASSUME NEW s \in Id
        PROVE  credit'[s] \in Int
    <3>1. CASE s \in settled
      BY <1>2, <3>1
    <3>2. CASE s \notin settled
      BY <3>2 DEF NextDay, IInv, TypeOK
    <3> QED
      BY <3>1, <3>2
  <2>2. DOMAIN credit' = Id /\ credit' = [s \in Id |-> credit'[s]]
    BY DEF NextDay
  <2> QED
    BY <2>1, <2>2
<1>4. TypeOK'
  BY <1>1, <1>3 DEF IInv, TypeOK
<1>5. StoredInv' /\ WindowInv'
  BY <1>1 DEF IInv, StoredInv, WindowInv, Held
<1>6. CallInv'
  BY <1>1 DEF IInv, CallInv, PlanOfSeatsChanged, Ahead, DaysLeft
<1>7. ChargesMatchUse'
  BY <1>1, <1>2 DEF ChargesMatchUse, Balanced, Ahead, DaysLeft
<1> QED
  BY <1>4, <1>5, <1>6, <1>7 DEF IInv

(***************************************************************************)
(* The theorems                                                            *)
(***************************************************************************)

LEMMA InitHolds ==
  ASSUME Init
  PROVE  IInv
<1>1. TypeOK
  BY SubscriptionsAssumption DEF Init, TypeOK
<1>2. StoredInv /\ CallInv /\ ChargesMatchUse /\ WindowInv
  BY DEF Init, StoredInv, CallInv, ChargesMatchUse, WindowInv, Held
<1> QED
  BY <1>1, <1>2 DEF IInv

LEMMA StepKeeps ==
  ASSUME IInv, [Next]_vars
  PROVE  IInv'
<1>1. CASE Next
  BY <1>1, SubscribeKeeps, StoreKeeps, ManageSeatsKeeps, ChangePlanKeeps, StatusKeeps,
     NextDayKeeps DEF Next
<1>2. CASE UNCHANGED vars
  BY <1>2 DEF vars, IInv, TypeOK, StoredInv, CallInv, ChargesMatchUse, Balanced, WindowInv,
     Held, PlanOfSeatsChanged, Ahead, DaysLeft
<1> QED
  BY <1>1, <1>2

THEOREM InvariantHolds == Spec => []IInv
<1>1. Init => IInv
  BY InitHolds
<1>2. IInv /\ [Next]_vars => IInv'
  BY StepKeeps
<1> QED
  BY <1>1, <1>2, PTL DEF Spec

\* Whatever the callers do, a subscription keeps at least one seat, a period and a plan.
THEOREM TypeCorrect == Spec => []TypeOK
<1>1. IInv => TypeOK
  BY DEF IInv
<1> QED
  BY <1>1, InvariantHolds, PTL

\* For any prices, periods and dates, the amounts charged and credited add up to the
\* price of what was used and of what is still ahead.
THEOREM ChargesSettle == Spec => []ChargesMatchUse
<1>1. IInv => ChargesMatchUse
  BY DEF IInv
<1> QED
  BY <1>1, InvariantHolds, PTL

\* A step that takes a subscription out of CANCELLED stores a copy of something older, or
\* a reactivation within the window of the cancellation it read.
LEMMA LeavesInWindow ==
  ASSUME IInv, Next, NEW s \in Id, Held(s, {"CANCELLED"}), subs'[s].status # "CANCELLED"
  PROVE  \E c \in Caller :
           /\ call[c] # NoCall /\ call[c].sub = s /\ call'[c] = NoCall
           /\ \/ call[c].read.status # "CANCELLED"
              \/ /\ call[c].read.cancelledAt # Never
                 /\ call[c].day - call[c].read.cancelledAt <= Window
<1>1. subs[s] # Absent /\ subs[s].status = "CANCELLED"
  BY DEF Held
<1>2. CASE \E plan \in Plan, start \in today..(today + MaxLead), seats \in 1..MaxSeats :
             \E days \in Days[plan] : Subscribe(plan, start, days, seats)
  <2>1. subs' = [subs EXCEPT ![counter + 1] = subs'[counter + 1]]
    BY <1>2 DEF Subscribe, IInv, TypeOK
  <2>2. s # counter + 1
    BY <1>1, SubscriptionsAssumption DEF IInv, StoredInv, TypeOK, Id
  <2>3. subs'[s] = subs[s]
    BY <2>1, <2>2 DEF IInv, TypeOK
  <2> QED
    BY <1>1, <2>3
<1>3. CASE \E c \in Caller : Store(c)
  <2>1. PICK c \in Caller : Store(c)
    BY <1>3
  <2>2. /\ call[c] # NoCall /\ call'[c] = NoCall
        /\ subs' = [subs EXCEPT ![call[c].sub] = call[c].write]
    BY <2>1 DEF Store, IInv, TypeOK
  <2>3. call[c].sub = s
    BY <1>1, <2>2 DEF IInv, TypeOK
  <2> QED
    BY <2>2, <2>3 DEF IInv, WindowInv
<1>4. CASE UNCHANGED subs
  BY <1>1, <1>4
<1>5. ASSUME NEW c \in Caller, NEW r \in Id, NEW day \in 0..MaxDay,
             \/ Activate(c, r)
             \/ \E delta \in -MaxSeats..MaxSeats : ManageSeats(c, r, delta, day)
             \/ \E plan \in Plan : ChangePlan(c, r, plan, day)
             \/ \E immediate \in BOOLEAN : Cancel(c, r, day, immediate)
             \/ Reactivate(c, r, day)
      PROVE  UNCHANGED subs
  BY <1>5 DEF Activate, ManageSeats, ChangePlan, Cancel, Reactivate, Begin
<1>6. NextDay => UNCHANGED subs
  BY DEF NextDay
<1>7. 0 \in 0..MaxDay
  BY SubscriptionsAssumption
<1> QED
  BY <1>2, <1>3, <1>4, <1>5, <1>6, <1>7 DEF Next

\* However many callers overlap and whatever dates they give, CANCELLED is left only by a
\* caller that read the subscription before, or for a day within the window of the
\* cancellation the caller read.
THEOREM CancelledInWindow == Spec => CancelledLeftInWindow
<1> DEFINE InTime ==
      \A s \in Id :
        /\ Held(s, {"CANCELLED"})
        /\ subs'[s].status # "CANCELLED"
        => \E c \in Caller :
             /\ call[c] # NoCall /\ call[c].sub = s /\ call'[c] = NoCall
             /\ \/ call[c].read.status # "CANCELLED"
                \/ /\ call[c].read.cancelledAt # Never
                   /\ call[c].day - call[c].read.cancelledAt <= Window
<1>1. IInv /\ [Next]_vars => [InTime]_vars
  BY LeavesInWindow
<1>2. CancelledLeftInWindow <=> [][InTime]_vars
  BY DEF CancelledLeftInWindow
<1> QED
  BY <1>1, <1>2, InvariantHolds, PTL DEF Spec

=============================================================================
