----------------------------- MODULE Recurring -----------------------------
(***************************************************************************)
(* Recurrence rules and subscriptions: services/finance_recurring.py and   *)
(* services/subscriptions.py.  A schedule stands for the rrule with its    *)
(* start and its end, and is the set of the times it expands to.           *)
(***************************************************************************)
EXTENDS Finance

CONSTANTS
  Schedules,     \* the schedules clients send
  Windows,       \* the ranges of times clients generate plans for
  Prices,        \* the amounts clients give a subscription
  Limit          \* the occurrences one expansion may return

ASSUME RecurringAssumption ==
  /\ \A window \in Windows : IsFiniteSet(window)
  /\ \A schedule \in Schedules : schedule \subseteq Times
  /\ Prices \subseteq Nat \ {0}

RuleStatus == {"active", "paused", "ended"}

SubscriptionStatus == {"active", "paused", "cancelled"}

\* What a subscription dictates to the rules linked to it.
SubscriptionEntry(sub) ==
  [account |-> sub.account, to |-> None, category |-> sub.category,
   type |-> "expense", amount |-> sub.amount]

(***************************************************************************)
(* Rules.                                                                  *)
(***************************************************************************)
RuleBodies ==
  {[entry |-> e, sub |-> s, schedule |-> schedule] :
     e \in Entries, s \in Field(Ids["sub"]), schedule \in Schedules}

\* A linked rule is what its subscription says, whatever the body says.
Dictated(body) ==
  IF body.sub = None
  THEN body
  ELSE [entry |-> SubscriptionEntry(db.sub[body.sub]), sub |-> body.sub,
        schedule |-> db.sub[body.sub].schedule]

BeginCreateRule(c) ==
  Reads(c, "create_rule",
    {Dictated(body) & Creation("rule") :
       body \in {b \in RuleBodies : Free("rule") # {} /\ ValidEntry(b.entry, b.sub)}})

CreateRule(c) ==
  /\ Writes(c, "create_rule")
  /\ db' = Added("rule",
       [entry |-> request[c].entry, sub |-> request[c].sub,
        schedule |-> request[c].schedule, status |-> "active"])

\* A linked rule takes its amount and its schedule from the subscription.
RulePatches(rule) ==
  {[entry |-> rule.entry, schedule |-> rule.schedule]}
    \cup {[entry |-> WithAmount(rule.entry, a), schedule |-> s] :
            a \in {b \in Amounts : rule.sub = None}, s \in Schedules}

BeginUpdateRule(c) ==
  Reads(c, "update_rule",
    UNION {{patch & Change("rule", i) : patch \in RulePatches(db.rule[i])} :
           i \in {j \in Changeable("rule") : db.rule[j].status # "ended"}})

UpdateRule(c) ==
  /\ Writes(c, "update_rule")
  /\ db' = Updated(request[c],
       [entry |-> request[c].entry, schedule |-> request[c].schedule])

BeginSetRuleStatus(c) ==
  Reads(c, "set_rule_status",
    {[status |-> status] & Change("rule", i) :
       i \in {j \in Changeable("rule") : db.rule[j].status # "ended"},
       status \in RuleStatus})

SetRuleStatus(c) ==
  /\ Writes(c, "set_rule_status")
  /\ db' = Updated(request[c], [status |-> request[c].status])

BeginDeleteRule(c) ==
  Reads(c, "delete_rule", {Change("rule", i) : i \in Changeable("rule")})

DeleteRule(c) ==
  Writes(c, "delete_rule") /\ db' = SoftDeleted(request[c])

(***************************************************************************)
(* Generation.  What the rule or its subscription says is read before the  *)
(* transaction, the keys of the occurrences it has had as well, those of   *)
(* deleted plans included.                                                 *)
(***************************************************************************)
Generates(i) ==
  LET rule == db.rule[i]
  IN /\ rule.status = "active"
     /\ rule.sub # None => rule.sub \in Live("sub") /\ db.sub[rule.sub].status = "active"

\* The entry and the schedule plans are generated from.
Source(rule) ==
  IF rule.sub = None
  THEN [entry |-> rule.entry, schedule |-> rule.schedule]
  ELSE [entry |-> SubscriptionEntry(db.sub[rule.sub]),
        schedule |-> db.sub[rule.sub].schedule]

ExistingOccurrences(i) ==
  {due \in Times : \E p \in Ids["plan"] : Occurrence(i, due) \in db.plan[p].held}

NewPlans(i, window) ==
  LET source == Source(db.rule[i])
  IN {PlanRow(source.entry, due, i, db.rule[i].sub)
        & [held |-> {Occurrence(i, due)}] :
      due \in (source.schedule \cap window) \ ExistingOccurrences(i)}

Keys(plans) == UNION {p.held : p \in plans}

BeginGenerate(c) ==
  Reads(c, "generate",
    UNION {{[plans |-> NewPlans(i, window)] & Claiming("plan", Keys(NewPlans(i, window))) :
              window \in {w \in Windows :
                            Cardinality(Source(db.rule[i]).schedule \cap w) <= Limit}} :
           i \in {j \in Live("rule") : Generates(j)}})

\* The rows of the plans, each with an identifier of its own.
Numbered(plans) ==
  CHOOSE f \in [plans -> Free("plan")] :
    \A p, q \in plans : p # q => f[p] # f[q]

Generate(c) ==
  LET plans == request[c].plans
      id == Numbered(plans)
  IN /\ Writes(c, "generate")
     /\ Cardinality(plans) <= Cardinality(Free("plan"))
     /\ db' = [db EXCEPT !.plan =
          [i \in {id[p] : p \in plans} |->
             (CHOOSE p \in plans : id[p] = i) & [rev |-> 1, live |-> TRUE]] & @]

(***************************************************************************)
(* Subscriptions.                                                          *)
(***************************************************************************)
ValidSubscriptionRow(account, category) ==
  /\ account \in Live("account")
  /\ category # None => category \in Live("category") /\ Kind[category] = "expense"

BeginCreateSubscription(c) ==
  Reads(c, "create_sub",
    {[account |-> a, category |-> k, amount |-> price, schedule |-> schedule]
       & Creation("sub") :
       a \in {b \in Live("account") : Free("sub") # {}},
       k \in {l \in Field(Live("category")) : l # None => Kind[l] = "expense"},
       price \in Prices, schedule \in Schedules})

CreateSubscription(c) ==
  /\ Writes(c, "create_sub")
  /\ db' = Added("sub",
       [account |-> request[c].account, category |-> request[c].category,
        amount |-> request[c].amount, schedule |-> request[c].schedule,
        status |-> "active", prices |-> <<>>])

SubscriptionPatches(sub) ==
  {[sub EXCEPT !.amount = price] : price \in Prices}
    \cup {[sub EXCEPT !.category = k] : k \in Field(Ids["category"])}
    \cup {[sub EXCEPT !.schedule = schedule] : schedule \in Schedules}
    \cup {[sub EXCEPT !.status = status] : status \in SubscriptionStatus}

Settings(sub) ==
  [category |-> sub.category, amount |-> sub.amount,
   schedule |-> sub.schedule, status |-> sub.status]

\* The amount before is the one read before the transaction.
BeginUpdateSubscription(c) ==
  Reads(c, "update_sub",
    UNION {{[settings |-> Settings(sub), old |-> db.sub[s].amount] & Change("sub", s) :
              sub \in {t \in SubscriptionPatches(db.sub[s]) :
                         ValidSubscriptionRow(t.account, t.category)}} :
           s \in Changeable("sub")})

Linked(i, s) ==
  i \in Live("rule") /\ db.rule[i].sub = s /\ db.rule[i].status # "ended"

Mirrors(rule, sub) ==
  rule.entry = SubscriptionEntry(sub) /\ rule.schedule = sub.schedule

\* Mutant: a paused rule is left as it is.
SynchronizedActive(s, sub) ==
  [i \in Ids["rule"] |->
     IF Linked(i, s) /\ db.rule[i].status = "active"
     THEN [db.rule[i] EXCEPT !.entry = SubscriptionEntry(sub),
                             !.schedule = sub.schedule, !.rev = @ + 1]
     ELSE db.rule[i]]

\* The linked rules take what the subscription now says.
Synchronized(s, sub) ==
  [i \in Ids["rule"] |->
     IF Linked(i, s) /\ ~Mirrors(db.rule[i], sub)
     THEN [db.rule[i] EXCEPT !.entry = SubscriptionEntry(sub),
                             !.schedule = sub.schedule, !.rev = @ + 1]
     ELSE db.rule[i]]

PriceChange(r) ==
  IF r.settings.amount = r.old THEN <<>> ELSE <<<<r.old, r.settings.amount>>>>

UpdateSubscription(c) ==
  LET r == request[c]
      sub == r.settings & db.sub[r.id]
  IN /\ Writes(c, "update_sub")
     /\ db' = [Updated(r, r.settings & [prices |-> sub.prices \o PriceChange(r)])
                 EXCEPT !.rule = Synchronized(r.id, sub)]

BeginDeleteSubscription(c) ==
  Reads(c, "delete_sub", {Change("sub", s) : s \in Changeable("sub")})

\* The rules linked to it stay as they are.
DeleteSubscription(c) ==
  Writes(c, "delete_sub") /\ db' = SoftDeleted(request[c])

(***************************************************************************)
(* The requests of finance_planning.py and finance_subscriptions.py.       *)
(***************************************************************************)
RuleRequest(c) ==
  \/ BeginCreateRule(c) \/ CreateRule(c)
  \/ BeginUpdateRule(c) \/ UpdateRule(c)
  \/ BeginSetRuleStatus(c) \/ SetRuleStatus(c)
  \/ BeginDeleteRule(c) \/ DeleteRule(c)
  \/ BeginGenerate(c) \/ Generate(c)

SubscriptionRequest(c) ==
  \/ BeginCreateSubscription(c) \/ CreateSubscription(c)
  \/ BeginUpdateSubscription(c) \/ UpdateSubscription(c)
  \/ BeginDeleteSubscription(c) \/ DeleteSubscription(c)

(***************************************************************************)
(* Properties.                                                             *)
(***************************************************************************)
\* While one client works alone, a rule linked to an active subscription
\* says what the subscription says, until it has ended: every way to change
\* either keeps them together.
LinkedRulesFollow ==
  Alone => \A s \in Live("sub") : \A i \in Live("rule") :
             Linked(i, s) => Mirrors(db.rule[i], db.sub[s])

\* The price changes of a subscription are a chain that ends at its amount:
\* no change of price is lost or recorded against an amount that was not
\* the one replaced, whichever updates overlap.
PriceHistory ==
  \A s \in {t \in Ids["sub"] : db.sub[t].rev > 0} :
    LET prices == db.sub[s].prices
    IN /\ \A n \in 1 .. Len(prices) :
            /\ prices[n][1] # prices[n][2]
            /\ n > 1 => prices[n][1] = prices[n - 1][2]
       /\ prices # <<>> => prices[Len(prices)][2] = db.sub[s].amount

\* An occurrence of a rule is planned once for good: overlapping generations
\* do not plan it twice, and a plan that was cancelled, moved or deleted does
\* not come back.
OccurrencePlannedOnce ==
  \A p, q \in {i \in Ids["plan"] : db.plan[i].rev > 0 /\ db.plan[i].rule # None} :
    db.plan[p].rule = db.plan[q].rule /\ db.plan[p].born = db.plan[q].born => p = q

\* The validation of a request by a client that is alone is the whole truth:
\* the transaction does not fail afterwards on a revision or an index.
AloneIsServed ==
  Alone => \A c \in Clients :
             request[c] # Idle => ~Stale(request[c]) /\ ~Collides(request[c])
=============================================================================
