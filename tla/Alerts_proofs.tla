--------------------------- MODULE Alerts_proofs ---------------------------
(***************************************************************************)
(* Machine-checked proofs about alerting, for any rules, conditions and    *)
(* query results and any number of edits, failures and restarts: a rule is *)
(* told once, with a value that explains it, and neither the scheduler nor *)
(* the API overwrites what the other has written.                          *)
(***************************************************************************)
EXTENDS Alerts, FiniteSetTheorems, TLAPS

-----------------------------------------------------------------------------
(* Evaluation: the value that the loop over the rows ends with.              *)

\* The order of the naturals, as a set of pairs, is well founded.
LEMMA NatOrder == IsWellFoundedOn({p \in Nat \X Nat : p[1] < p[2]}, Nat)
<1>1. OpToRel(<, Nat) = {p \in Nat \X Nat : p[1] < p[2]}
  BY DEF OpToRel
<1> QED BY <1>1, NatLessThanWellFounded

\* A set of naturals has a least element.
LEMMA Least ==
    ASSUME NEW S \in SUBSET Nat, S # {}
    PROVE  \E m \in S : \A x \in S : m <= x
<1> DEFINE R == {p \in Nat \X Nat : p[1] < p[2]}
<1>1. IsWellFoundedOn(R, Nat)
  BY NatOrder
<1>2. \A x, y \in Nat : x < y => <<x, y>> \in R
  OBVIOUS
<1> HIDE DEF R
<1>3. PICK m \in S : \A y \in S : ~(<<y, m>> \in R)
  BY <1>1, WFMin
<1>4. ASSUME NEW x \in S PROVE m <= x
  <2>1. x \in Nat /\ m \in Nat /\ ~(<<x, m>> \in R)
    BY <1>3
  <2>2. ~(x < m)
    BY <2>1, <1>2
  <2> QED BY <2>1, <2>2
<1> QED BY <1>4

\* What is kept once row n has gone by.
Keep(cond, rows, n, before) ==
    IF n \in Measures(rows) /\ (~before.seen \/ MoreExtreme(cond.op, rows[n], before.value))
    THEN [seen |-> TRUE, value |-> rows[n]] ELSE before

\* f holds what is kept, up to row m.
Keeps(cond, rows, m, f) ==
    f = [n \in 0..m |-> IF n = 0 THEN [seen |-> FALSE, value |-> 0]
                        ELSE Keep(cond, rows, n, f[n - 1])]

\* The loop ends.
LEMMA KeepsExists ==
    ASSUME NEW cond, NEW rows, NEW m \in Nat
    PROVE  \E f : Keeps(cond, rows, m, f)
<1> DEFINE S == {k \in Nat : ~\E f : Keeps(cond, rows, k, f)}
<1>1. SUFFICES ASSUME S # {} PROVE FALSE
  OBVIOUS
<1>2. PICK k \in S : \A x \in S : k <= x
  <2>1. S \in SUBSET Nat
    OBVIOUS
  <2> HIDE DEF S
  <2> QED BY <1>1, <2>1, Least
<1>3. k # 0
  <2>1. Keeps(cond, rows, 0, [n \in 0..0 |-> [seen |-> FALSE, value |-> 0]])
    BY DEF Keeps
  <2> QED BY <2>1
<1>4. PICK f : Keeps(cond, rows, k - 1, f)
  <2>1. k - 1 \in Nat /\ ~(k <= k - 1)
    BY <1>3
  <2>2. k - 1 \notin S
    BY <1>2, <2>1
  <2> QED BY <2>1, <2>2
<1> DEFINE g == [n \in 0..k |-> IF n = k THEN Keep(cond, rows, n, f[n - 1]) ELSE f[n]]
<1>5. Keeps(cond, rows, k, g)
  <2>1. \A n \in 0..(k - 1) : f[n] = IF n = 0 THEN [seen |-> FALSE, value |-> 0]
                                     ELSE Keep(cond, rows, n, f[n - 1])
    BY <1>4 DEF Keeps
  <2>2. ASSUME NEW n \in 0..k
        PROVE  g[n] = IF n = 0 THEN [seen |-> FALSE, value |-> 0]
                      ELSE Keep(cond, rows, n, g[n - 1])
    <3>1. CASE n = 0
      BY <1>3, <2>1, <3>1
    <3>2. CASE n # 0
      <4>1. n - 1 \in 0..(k - 1) /\ n - 1 # k /\ n - 1 \in 0..k
        BY <3>2
      <4>2. g[n - 1] = f[n - 1]
        BY <4>1
      <4>3. g[n] = Keep(cond, rows, n, f[n - 1])
        <5>1. CASE n = k
          BY <5>1
        <5>2. CASE n # k
          <6>1. n \in 0..(k - 1)
            BY <5>2
          <6> QED BY <6>1, <5>2, <3>2, <2>1
        <5> QED BY <5>1, <5>2
      <4> QED BY <3>2, <4>2, <4>3
    <3> QED BY <3>1, <3>2
  <2>3. g = [n \in 0..k |-> g[n]]
    OBVIOUS
  <2> HIDE DEF g
  <2> QED BY <2>2, <2>3 DEF Keeps
<1> QED BY <1>2, <1>5

\* Value is what such an f holds at the end.
LEMMA ValueIsKept ==
    ASSUME NEW cond, NEW rows \in Seq(Int \cup {NotANumber})
    PROVE  \E f : /\ Keeps(cond, rows, Len(rows), f)
                  /\ Value(cond, rows) = f[Len(rows)].value
<1>1. PICK f : Keeps(cond, rows, Len(rows), f)
  <2>1. Len(rows) \in Nat
    OBVIOUS
  <2> QED BY <2>1, KeepsExists
<1> DEFINE Loop(kept) == [n \in 0..Len(rows) |->
                IF n = 0 THEN [seen |-> FALSE, value |-> 0]
                ELSE IF /\ n \in Measures(rows)
                        /\ ~kept[n - 1].seen \/ MoreExtreme(cond.op, rows[n], kept[n - 1].value)
                     THEN [seen |-> TRUE, value |-> rows[n]]
                     ELSE kept[n - 1]]
<1>2. \A kept : Keeps(cond, rows, Len(rows), kept) <=> kept = Loop(kept)
  BY DEF Keeps, Keep
<1> DEFINE chosen == CHOOSE kept : kept = Loop(kept)
<1>3. Value(cond, rows) = chosen[Len(rows)].value
  BY DEF Value
<1> HIDE DEF Loop
<1>4. chosen = Loop(chosen)
  BY <1>1, <1>2
<1> HIDE DEF chosen
<1> QED BY <1>2, <1>3, <1>4

\* What is more extreme meets the condition too.
LEMMA ExtremeMatches ==
    ASSUME NEW cond, cond.value \in Int, cond.op \in {"gt", "gte", "lt", "lte"},
           NEW x \in Int, NEW y \in Int, Match(cond, x), ~MoreExtreme(cond.op, x, y)
    PROVE  Match(cond, y)
<1>1. CASE cond.op = "gt"
  BY <1>1 DEF Match, MoreExtreme
<1>2. CASE cond.op = "gte"
  BY <1>2 DEF Match, MoreExtreme
<1>3. CASE cond.op = "lt"
  BY <1>3 DEF Match, MoreExtreme
<1>4. CASE cond.op = "lte"
  BY <1>4 DEF Match, MoreExtreme
<1> QED BY <1>1, <1>2, <1>3, <1>4

\* The value is the worst measure: if any measure meets a condition that orders
\* its values, the value does; and it is one of them, or zero without any.
LEMMA ValueIsWorst ==
    ASSUME NEW cond, NEW rows \in Seq(Int \cup {NotANumber}), cond.value \in Int
    PROVE  /\ Value(cond, rows) \in Int
           /\ cond.op \in {"gt", "gte", "lt", "lte"} =>
                (Fires(cond, rows) <=> Match(cond, Value(cond, rows)))
<1>1. PICK f : /\ Keeps(cond, rows, Len(rows), f)
               /\ Value(cond, rows) = f[Len(rows)].value
  BY ValueIsKept
<1> DEFINE ordered == cond.op \in {"gt", "gte", "lt", "lte"}
           Good(n) ==
              /\ f[n].value \in Int /\ f[n].seen \in BOOLEAN
              /\ ~f[n].seen => f[n].value = 0 /\ \A i \in 1..n : i \notin Measures(rows)
              /\ f[n].seen => \E i \in 1..n : i \in Measures(rows) /\ f[n].value = rows[i]
              /\ f[n].seen /\ ordered => \A i \in 1..n :
                    i \in Measures(rows) => ~MoreExtreme(cond.op, rows[i], f[n].value)
<1>2. /\ f[0] = [seen |-> FALSE, value |-> 0]
      /\ \A n \in 1..Len(rows) : f[n] = Keep(cond, rows, n, f[n - 1])
      /\ \A i \in Measures(rows) : i \in 1..Len(rows) /\ rows[i] \in Int
      /\ Len(rows) \in Nat
  <2>1. \A n \in 0..Len(rows) : f[n] = IF n = 0 THEN [seen |-> FALSE, value |-> 0]
                                       ELSE Keep(cond, rows, n, f[n - 1])
    BY <1>1 DEF Keeps
  <2>2. Len(rows) \in Nat
    OBVIOUS
  <2>3. \A n \in 1..Len(rows) : f[n] = Keep(cond, rows, n, f[n - 1])
    BY <2>1
  <2>4. f[0] = [seen |-> FALSE, value |-> 0]
    BY <2>1, <2>2
  <2>5. \A i \in Measures(rows) : i \in 1..Len(rows) /\ rows[i] \in Int
    BY DEF Measures
  <2> QED BY <2>2, <2>3, <2>4, <2>5
<1>3. Good(0)
  BY <1>2
<1>4. ASSUME NEW n \in 1..Len(rows), Good(n - 1) PROVE Good(n)
  <2>1. f[n] = Keep(cond, rows, n, f[n - 1])
    BY <1>2
  <2>2. \A i \in 1..n : i \in 1..(n - 1) \/ i = n
    OBVIOUS
  <2>3. \A i \in 1..(n - 1) : i \in 1..n
    OBVIOUS
  <2>4. CASE n \in Measures(rows) /\ (~f[n - 1].seen \/ MoreExtreme(cond.op, rows[n], f[n - 1].value))
    <3>1. f[n] = [seen |-> TRUE, value |-> rows[n]] /\ rows[n] \in Int
      BY <2>1, <2>4, <1>2 DEF Keep
    <3>2. ASSUME ordered, NEW i \in 1..n, i \in Measures(rows)
          PROVE  ~MoreExtreme(cond.op, rows[i], rows[n])
      <4>1. rows[i] \in Int
        BY <3>2, <1>2
      <4>2. CASE i = n
        BY <3>1, <3>2, <4>2 DEF MoreExtreme
      <4>3. CASE i # n
        <5>1. i \in 1..(n - 1)
          BY <2>2, <4>3
        <5>2. f[n - 1].seen
          BY <1>4, <3>2, <5>1
        <5>3. ~MoreExtreme(cond.op, rows[i], f[n - 1].value) /\ f[n - 1].value \in Int
          BY <1>4, <3>2, <5>1, <5>2
        <5> QED BY <2>4, <3>1, <3>2, <4>1, <5>2, <5>3 DEF MoreExtreme
      <4> QED BY <4>2, <4>3
    <3> QED BY <2>4, <3>1, <3>2
  <2>5. CASE ~(n \in Measures(rows) /\ (~f[n - 1].seen \/ MoreExtreme(cond.op, rows[n], f[n - 1].value)))
    <3>1. f[n] = f[n - 1]
      BY <2>1, <2>5 DEF Keep
    <3> QED BY <1>4, <2>2, <2>3, <2>5, <3>1
  <2> QED BY <2>4, <2>5
<1>5. Good(Len(rows))
  <2> DEFINE S == {k \in 0..Len(rows) : ~Good(k)}
  <2>1. SUFFICES ASSUME S # {} PROVE FALSE
    BY <1>2
  <2>2. S \in SUBSET Nat
    OBVIOUS
  <2>3. PICK k \in S : \A x \in S : k <= x
    <3> HIDE DEF S
    <3> QED BY <2>1, <2>2, Least
  <2>4. k \in 0..Len(rows) /\ ~Good(k)
    OBVIOUS
  <2> HIDE DEF Good
  <2>5. k # 0
    BY <1>3, <2>4
  <2>6. k \in 1..Len(rows) /\ k - 1 \in 0..Len(rows) /\ ~(k <= k - 1)
    BY <1>2, <2>4, <2>5
  <2>7. Good(k - 1)
    BY <2>3, <2>6
  <2> QED BY <1>4, <2>4, <2>6, <2>7
<1> DEFINE v == f[Len(rows)].value
<1>6. CASE Measures(rows) = {}
  <2>1. ~f[Len(rows)].seen /\ v = 0
    BY <1>5, <1>6
  <2> QED BY <1>1, <1>6, <2>1 DEF Fires
<1>7. CASE Measures(rows) # {}
  <2>1. f[Len(rows)].seen /\ v \in Int
    BY <1>2, <1>5, <1>7
  <2>2. PICK i \in Measures(rows) : v = rows[i]
    BY <1>5, <2>1
  <2>3. ASSUME ordered, NEW j \in Measures(rows), Match(cond, rows[j]) PROVE Match(cond, v)
    <3>1. ~MoreExtreme(cond.op, rows[j], v) /\ rows[j] \in Int
      BY <1>2, <1>5, <2>1, <2>3
    <3> QED BY <2>1, <2>3, <3>1, ExtremeMatches
  <2> HIDE DEF v
  <2> QED BY <1>1, <1>7, <2>1, <2>2, <2>3 DEF Fires, v
<1> QED BY <1>6, <1>7

-----------------------------------------------------------------------------
(* The inductive invariant.                                                  *)

Listed == {Rule(d, state) : d \in Definitions, state \in States}
Conditions == {d.cond : d \in Definitions}

\* What the pass holds of a rule while it works on it.
JobShape ==
    \/ job = NoJob
    \/ job \in [stage : {"evaluating"}, id : RuleIds, rule : Listed]
    \/ job \in [stage : {"saving"}, id : RuleIds, rule : Listed, state : States, value : Int]
    \/ /\ job.stage = "sending"
       /\ DOMAIN job = {"stage", "id", "rule", "state", "value"}
       /\ DOMAIN job.rule = {"name", "cond", "channels", "enabled", "state"}
       /\ job.rule.cond \in Conditions
       /\ job.state \in {"firing", "ok"}

TodoShape == todo \in Seq([id : RuleIds, rule : Listed])

UpdateShape ==
    update = NoUpdate \/ update \in [stage : {"read"}, id : RuleIds, def : Definitions, state : States]

Histories ==
    /\ edited \in [RuleIds -> Definitions]
    /\ judged \in [RuleIds -> States \cup {"none"}]
    /\ streak \in [RuleIds -> Nat]
    /\ unsaved \in [RuleIds -> Nat]

\* The row of a rule: what was last put, and the state last judged.
Stored ==
    /\ DOMAIN rules \subseteq RuleIds /\ IsFiniteSet(DOMAIN rules)
    /\ \A r \in DOMAIN rules : judged[r] \in States /\ rules[r] = Rule(edited[r], judged[r])

\* A rule is in hand only in a pass.
InPass == pass # "running" => job = NoJob

\* A pass looks at a rule once.
EachOnce ==
    /\ \A i, j \in 1..Len(todo) : todo[i].id = todo[j].id => i = j
    /\ job.stage \in {"evaluating", "saving"} => \A i \in 1..Len(todo) : todo[i].id # job.id

\* Every note that went out since the rule fired goes with a failed save.
Untold(r) == streak[r] <= unsaved[r]

\* A rule that is not down as firing, in its row, in the list of the pass or in
\* its hands, may still be told.
MayBeTold ==
    /\ \A r \in DOMAIN rules : judged[r] # "firing" => Untold(r)
    /\ \A i \in 1..Len(todo) : todo[i].rule.state # "firing" => Untold(todo[i].id)
    /\ job.stage \in {"evaluating", "saving"} /\ job.rule.state # "firing" => Untold(job.id)
    /\ job.stage = "saving" /\ job.state # "firing" => Untold(job.id)

\* The value of a judgement meets the condition if the rule is judged to fire.
ValueJudged ==
    job.stage \in {"saving", "sending"} /\ job.state # "unknown"
        /\ job.rule.cond.op \in {"gt", "gte", "lt", "lte"} =>
            ((job.state = "firing") <=> Match(job.rule.cond, job.value))

\* What the tables and the histories hold.
TablesInv == UpdateShape /\ Histories /\ Stored

\* What the pass holds, and what it means for the tables.
PassInv == TodoShape /\ JobShape /\ InPass /\ EachOnce /\ MayBeTold /\ ToldOnce /\ ValueJudged

AlertInv == TablesInv /\ PassInv

\* A listed rule has the fields of its definition, and a state.
LEMMA ListedFields ==
    ASSUME NEW x \in Listed
    PROVE  /\ x = [name |-> x.name, cond |-> x.cond, channels |-> x.channels,
                   enabled |-> x.enabled, state |-> x.state]
           /\ x.cond \in Conditions /\ x.state \in States
           /\ Definition(x) \in Definitions
<1>1. PICK d \in Definitions, state \in States : x = Rule(d, state)
  BY DEF Listed
<1>2. d = [name |-> d.name, cond |-> d.cond, channels |-> d.channels, enabled |-> d.enabled]
  BY AlertsAssumption DEF AlertsAssumption
<1>3. Definition(x) = d
  BY <1>1, <1>2 DEF Rule, Definition
<1> QED BY <1>1, <1>3 DEF Rule, Conditions

\* A rule read from the table is a listed rule.
LEMMA RowsListed ==
    ASSUME Stored, Histories, NEW r \in DOMAIN rules
    PROVE  r \in RuleIds /\ rules[r] \in Listed /\ rules[r].state = judged[r] /\ judged[r] \in States
<1>1. r \in RuleIds /\ judged[r] \in States /\ rules[r] = Rule(edited[r], judged[r])
  BY DEF Stored
<1>2. edited[r] \in Definitions
  BY <1>1 DEF Histories
<1> QED BY <1>1, <1>2 DEF Listed, Rule

\* What is still to be looked at are listed rules.
LEMMA ElementsListed ==
    ASSUME TodoShape
    PROVE  \A i \in 1..Len(todo) : /\ todo[i] \in [id : RuleIds, rule : Listed]
                                  /\ todo[i].id \in RuleIds /\ todo[i].rule \in Listed
<1> DEFINE Entries == [id : RuleIds, rule : Listed]
<1>1. todo \in Seq(Entries)
  BY DEF TodoShape
<1>2. \A e \in Entries : e.id \in RuleIds /\ e.rule \in Listed
  OBVIOUS
<1>3. \A i \in 1..Len(todo) : todo[i] \in Entries
  <2> HIDE DEF Entries
  <2> QED BY <1>1
<1> QED BY <1>2, <1>3

\* Nothing is listed, noted or stored at the start.
LEMMA AlertStarts == AlertInit => AlertInv
<1>1. SUFFICES ASSUME AlertInit PROVE AlertInv
  OBVIOUS
<1>2. DOMAIN rules = {} /\ todo = <<>> /\ job = NoJob /\ update = NoUpdate
  BY <1>1 DEF AlertInit, NoRules
<1>3. UpdateShape /\ TodoShape /\ JobShape /\ InPass
  BY <1>2 DEF UpdateShape, TodoShape, JobShape, InPass
<1>4. Stored
  BY <1>2, FS_EmptySet DEF Stored
<1>5. Histories
  <2>1. (CHOOSE d \in Definitions : TRUE) \in Definitions
    BY AlertsAssumption DEF AlertsAssumption
  <2> QED BY <1>1, <2>1 DEF AlertInit, Histories
<1>6. ToldOnce
  BY <1>1 DEF AlertInit, ToldOnce
<1>7. EachOnce /\ MayBeTold /\ ValueJudged
  BY <1>2 DEF EachOnce, MayBeTold, ValueJudged, NoJob
<1> QED BY <1>3, <1>4, <1>5, <1>6, <1>7 DEF AlertInv, TablesInv, PassInv

-----------------------------------------------------------------------------
(* The scheduler's steps. *)

\* Only the rows, a save and the API touch the tables and the histories.
LEMMA TablesFrame ==
    ASSUME TablesInv,
           \/ ListRules \/ ListChannels \/ ListFails \/ Skip \/ Claim \/ PassDone
           \/ Send \/ Sent \/ (\E r \in RuleIds : Elapse(r)) \/ (\E c \in Channels : DeleteChannel(c))
           \/ UNCHANGED alertVars
    PROVE  TablesInv' /\ UNCHANGED <<rules, edited, judged, streak, unsaved>>
<1>1. UNCHANGED <<rules, edited, judged, streak, unsaved, update>>
  BY DEF ListRules, ListChannels, ListFails, Skip, Claim, PassDone, Send, Sent, Elapse,
         DeleteChannel, alertVars, dbVars, notedVars
<1> QED BY <1>1 DEF TablesInv, UpdateShape, Histories, Stored

\* With nothing in hand, and the list shorter than before or as before, what
\* was said of the list stays true.
LEMMA ShorterList ==
    ASSUME PassInv, UNCHANGED <<rules, edited, judged, streak, unsaved>>,
           job' = NoJob, todo' = todo \/ todo' = <<>> \/ (todo # <<>> /\ todo' = Tail(todo))
    PROVE  PassInv'
<1>1. /\ todo' \in Seq([id : RuleIds, rule : Listed])
      /\ \A i \in 1..Len(todo') : \E k \in 0..1 : i + k \in 1..Len(todo) /\ todo'[i] = todo[i + k]
      /\ \A i, j \in 1..Len(todo') : todo'[i].id = todo'[j].id => i = j
  <2>1. todo \in Seq([id : RuleIds, rule : Listed]) /\ Len(todo) \in Nat
        /\ \A i, j \in 1..Len(todo) : todo[i].id = todo[j].id => i = j
    BY DEF PassInv, TodoShape, EachOnce
  <2>2. CASE todo' = todo
    BY <2>1, <2>2
  <2>3. CASE todo' = <<>>
    BY <2>3
  <2>4. CASE todo # <<>> /\ todo' = Tail(todo)
    <3>1. /\ todo' \in Seq([id : RuleIds, rule : Listed]) /\ Len(todo') = Len(todo) - 1
          /\ \A i \in 1..Len(todo') : todo'[i] = todo[i + 1] /\ i + 1 \in 1..Len(todo)
      BY <2>1, <2>4
    <3>2. \A i, j \in 1..Len(todo') : todo'[i].id = todo'[j].id => i = j
      BY <2>1, <3>1
    <3> QED BY <3>1, <3>2
  <2> QED BY <2>2, <2>3, <2>4
<1>2. TodoShape' /\ JobShape' /\ InPass'
  BY <1>1 DEF TodoShape, JobShape, InPass
<1>3. job'.stage = "none"
  BY DEF NoJob
<1>4. EachOnce' /\ ValueJudged'
  BY <1>1, <1>3 DEF EachOnce, ValueJudged
<1>5. MayBeTold'
  <2>1. \A i \in 1..Len(todo') : todo'[i].rule.state # "firing" => Untold(todo'[i].id)
    BY <1>1 DEF PassInv, MayBeTold
  <2> QED BY <1>3, <2>1 DEF PassInv, MayBeTold, Untold
<1>6. ToldOnce'
  BY DEF PassInv, ToldOnce
<1> QED BY <1>2, <1>4, <1>5, <1>6 DEF PassInv

\* A pass lists each rule of the table once, with the state it is in.
LEMMA ListRulesStep ==
    ASSUME AlertInv, ListRules, UNCHANGED <<rules, edited, judged, streak, unsaved>>
    PROVE  PassInv'
<1>1. /\ UNCHANGED job
      /\ \E order \in SetToSeqs(DOMAIN rules) :
            todo' = [i \in DOMAIN order |-> [id |-> order[i], rule |-> rules[order[i]]]]
  BY DEF ListRules
<1>2. PICK order \in SetToSeqs(DOMAIN rules) :
         todo' = [i \in DOMAIN order |-> [id |-> order[i], rule |-> rules[order[i]]]]
  BY <1>1
<1> DEFINE n == Cardinality(DOMAIN rules)
<1>3. n \in Nat
  BY FS_CardinalityType DEF AlertInv, TablesInv, Stored
<1> HIDE DEF n
<1>4. /\ order \in [1..n -> DOMAIN rules]
      /\ \A i, j \in 1..n : order[i] = order[j] => i = j
  BY DEF SetToSeqs, n
<1>5. /\ todo' = [i \in 1..n |-> [id |-> order[i], rule |-> rules[order[i]]]]
      /\ \A i \in 1..n : [id |-> order[i], rule |-> rules[order[i]]] \in [id : RuleIds, rule : Listed]
  BY <1>2, <1>4, RowsListed DEF AlertInv, TablesInv
<1>6. todo' \in Seq([id : RuleIds, rule : Listed]) /\ Len(todo') = n
  BY <1>3, <1>5
<1>7. \A i \in 1..n : todo'[i].id = order[i] /\ todo'[i].rule = rules[order[i]]
  BY <1>5
<1>8. job' = NoJob /\ job'.stage = "none"
  BY <1>1 DEF ListRules, AlertInv, PassInv, InPass, NoJob
<1>9. TodoShape' /\ JobShape' /\ InPass'
  BY <1>6, <1>8 DEF TodoShape, JobShape, InPass
<1>10. EachOnce' /\ ValueJudged'
  BY <1>4, <1>6, <1>7, <1>8 DEF EachOnce, ValueJudged
<1>11. MayBeTold'
  <2>1. \A r \in DOMAIN rules : judged[r] # "firing" => Untold(r)
    BY DEF AlertInv, PassInv, MayBeTold
  <2>2. \A i \in 1..n : order[i] \in DOMAIN rules /\ rules[order[i]].state = judged[order[i]]
    BY <1>4, RowsListed DEF AlertInv, TablesInv
  <2>3. \A i \in 1..Len(todo') : todo'[i].rule.state # "firing" => Untold(todo'[i].id)
    BY <1>6, <1>7, <2>1, <2>2
  <2> QED BY <1>8, <2>1, <2>3 DEF MayBeTold, Untold
<1>12. ToldOnce'
  BY DEF AlertInv, PassInv, ToldOnce
<1> QED BY <1>9, <1>10, <1>11, <1>12 DEF PassInv

\* The next due rule is taken in hand.
LEMMA ClaimStep ==
    ASSUME AlertInv, Claim, UNCHANGED <<rules, edited, judged, streak, unsaved>>
    PROVE  PassInv'
<1>1. /\ todo \in Seq([id : RuleIds, rule : Listed]) /\ todo # <<>>
      /\ pass' = "running" /\ todo' = Tail(todo)
      /\ job' = [stage |-> "evaluating", id |-> Head(todo).id, rule |-> Head(todo).rule]
  BY DEF Claim, AlertInv, PassInv, TodoShape
<1>2. /\ Len(todo) \in Nat /\ 1 \in 1..Len(todo) /\ Head(todo) = todo[1]
      /\ todo' \in Seq([id : RuleIds, rule : Listed]) /\ Len(todo') = Len(todo) - 1
      /\ \A i \in 1..Len(todo') : todo'[i] = todo[i + 1] /\ i + 1 \in 1..Len(todo) /\ i + 1 # 1
  BY <1>1
<1>3. Head(todo).id \in RuleIds /\ Head(todo).rule \in Listed
  <2>1. todo[1] \in [id : RuleIds, rule : Listed]
    BY <1>1, <1>2, ElementsListed DEF TodoShape
  <2> QED BY <1>2, <2>1
<1>4. job'.stage = "evaluating" /\ job'.id = todo[1].id /\ job'.rule = todo[1].rule
  <2>1. Head(todo) = todo[1]
    BY <1>2
  <2>2. job' = [stage |-> "evaluating", id |-> todo[1].id, rule |-> todo[1].rule]
    BY <1>1, <2>1
  <2> QED BY <2>2
<1>5. TodoShape' /\ JobShape' /\ InPass'
  <2>1. job' \in [stage : {"evaluating"}, id : RuleIds, rule : Listed]
    BY <1>1, <1>3
  <2> QED BY <1>1, <1>2, <2>1 DEF TodoShape, JobShape, InPass
<1>6. EachOnce' /\ ValueJudged'
  <2>1. \A i, j \in 1..Len(todo) : todo[i].id = todo[j].id => i = j
    BY DEF AlertInv, PassInv, EachOnce
  <2>2. \A i, j \in 1..Len(todo') : todo'[i].id = todo'[j].id => i = j
    BY <1>2, <2>1
  <2>3. \A i \in 1..Len(todo') : todo'[i].id # job'.id
    BY <1>2, <1>4, <2>1
  <2> QED BY <1>4, <2>2, <2>3 DEF EachOnce, ValueJudged
<1>7. MayBeTold'
  <2>1. /\ \A r \in DOMAIN rules : judged[r] # "firing" => Untold(r)
        /\ \A i \in 1..Len(todo) : todo[i].rule.state # "firing" => Untold(todo[i].id)
    BY DEF AlertInv, PassInv, MayBeTold
  <2>2. \A i \in 1..Len(todo') : todo'[i].rule.state # "firing" => Untold(todo'[i].id)
    BY <1>2, <2>1
  <2> QED BY <1>2, <1>4, <2>1, <2>2 DEF MayBeTold, Untold
<1>8. ToldOnce'
  BY DEF AlertInv, PassInv, ToldOnce
<1> QED BY <1>5, <1>6, <1>7, <1>8 DEF PassInv

\* A judgement of the rule in hand replaces it by what is to be saved.
LEMMA EvaluateStep ==
    ASSUME AlertInv, Evaluate \/ EvaluateFails
    PROVE  AlertInv'
<1>1. /\ job \in [stage : {"evaluating"}, id : RuleIds, rule : Listed]
      /\ UNCHANGED <<rules, edited, judged, update, pass, todo>>
  <2>1. job.stage = "evaluating"
    BY DEF Evaluate, EvaluateFails
  <2> QED BY <2>1 DEF Evaluate, EvaluateFails, AlertInv, PassInv, JobShape, dbVars, NoJob
<1>2. job.id \in RuleIds /\ job.rule \in Listed /\ job.stage = "evaluating"
  BY <1>1
<1>3. /\ job.rule.cond.op \in {"gt", "gte", "lt", "lte", "eq", "ne"}
      /\ job.rule.cond.value \in Int
  <2>1. PICK d \in Definitions : job.rule.cond = d.cond
    BY <1>2, ListedFields DEF Conditions
  <2> QED BY <2>1, AlertsAssumption DEF AlertsAssumption
<1>4. PICK state \in States, value \in Int :
        /\ Judged(state, value)
        /\ (state # "unknown" /\ job.rule.cond.op \in {"gt", "gte", "lt", "lte"}) =>
              ((state = "firing") <=> Match(job.rule.cond, value))
        /\ \/ state = "firing" /\ UNCHANGED <<streak, unsaved>>
           \/ state # "firing" /\ NotFiring(job.id)
  <2>1. CASE Evaluate
    <3>1. PICK rows \in Results :
             IF Fires(job.rule.cond, rows)
             THEN /\ Judged("firing", Value(job.rule.cond, rows))
                  /\ UNCHANGED <<streak, unsaved>>
             ELSE /\ Judged("ok", Value(job.rule.cond, rows))
                  /\ NotFiring(job.id)
      BY <2>1 DEF Evaluate
    <3>2. rows \in Seq(Int \cup {NotANumber})
      BY AlertsAssumption DEF AlertsAssumption
    <3>3. /\ Value(job.rule.cond, rows) \in Int
          /\ job.rule.cond.op \in {"gt", "gte", "lt", "lte"} =>
                (Fires(job.rule.cond, rows) <=> Match(job.rule.cond, Value(job.rule.cond, rows)))
      BY <1>3, <3>2, ValueIsWorst
    <3>4. CASE Fires(job.rule.cond, rows)
      <4>1. Judged("firing", Value(job.rule.cond, rows)) /\ UNCHANGED <<streak, unsaved>>
        BY <3>1, <3>4
      <4>2. "firing" \in States
        BY DEF States
      <4> QED BY <3>3, <3>4, <4>1, <4>2
    <3>5. CASE ~Fires(job.rule.cond, rows)
      <4>1. Judged("ok", Value(job.rule.cond, rows)) /\ NotFiring(job.id)
        BY <3>1, <3>5
      <4>2. "ok" \in States
        BY DEF States
      <4> QED BY <3>3, <3>5, <4>1, <4>2
    <3> QED BY <3>4, <3>5
  <2>2. CASE EvaluateFails
    <3>1. Judged("unknown", 0) /\ NotFiring(job.id) /\ "unknown" \in States /\ 0 \in Int
      BY <2>2 DEF EvaluateFails, States
    <3> QED BY <3>1
  <2> QED BY <2>1, <2>2
<1>5. /\ job' = [stage |-> "saving", id |-> job.id, rule |-> job.rule, state |-> state, value |-> value]
      /\ job' \in [stage : {"saving"}, id : RuleIds, rule : Listed, state : States, value : Int]
      /\ job'.stage = "saving" /\ job'.id = job.id /\ job'.rule = job.rule
      /\ job'.state = state /\ job'.value = value
  BY <1>2, <1>4 DEF Judged
<1>6. Histories /\ Stored /\ UpdateShape /\ TodoShape /\ EachOnce /\ MayBeTold /\ ToldOnce /\ InPass
  BY DEF AlertInv, TablesInv, PassInv
<1>7. /\ streak' \in [RuleIds -> Nat] /\ unsaved' \in [RuleIds -> Nat]
      /\ \A r \in RuleIds : (streak[r] <= unsaved[r] => streak'[r] <= unsaved'[r])
      /\ \A r \in RuleIds : (streak[r] <= 1 + unsaved[r] => streak'[r] <= 1 + unsaved'[r])
      /\ state # "firing" => streak'[job.id] <= unsaved'[job.id]
  <2>1. streak \in [RuleIds -> Nat] /\ unsaved \in [RuleIds -> Nat]
    BY <1>6 DEF Histories
  <2>2. CASE state = "firing" /\ UNCHANGED <<streak, unsaved>>
    BY <2>1, <2>2
  <2>3. CASE state # "firing" /\ NotFiring(job.id)
    <3>1. streak' = [streak EXCEPT ![job.id] = 0] /\ unsaved' = [unsaved EXCEPT ![job.id] = 0]
      BY <2>3 DEF NotFiring
    <3> QED BY <1>2, <2>1, <2>3, <3>1
  <2> QED BY <1>4, <2>2, <2>3
<1>8. TablesInv'
  BY <1>1, <1>6, <1>7 DEF TablesInv, UpdateShape, Histories, Stored
<1>9. TodoShape' /\ JobShape' /\ InPass' /\ EachOnce' /\ ValueJudged'
  <2>1. TodoShape' /\ JobShape'
    BY <1>1, <1>5, <1>6 DEF TodoShape, JobShape
  <2>2. InPass'
    BY <1>1, <1>2, <1>6 DEF InPass, NoJob
  <2>3. EachOnce'
    BY <1>1, <1>2, <1>5, <1>6 DEF EachOnce
  <2>4. ValueJudged'
    BY <1>4, <1>5 DEF ValueJudged
  <2> QED BY <2>1, <2>2, <2>3, <2>4
<1>10. MayBeTold'
  <2>1. \A r \in DOMAIN rules : judged[r] # "firing" => streak'[r] <= unsaved'[r]
    BY <1>6, <1>7 DEF MayBeTold, Untold, Stored
  <2>2. \A i \in 1..Len(todo) : todo[i].rule.state # "firing" => streak'[todo[i].id] <= unsaved'[todo[i].id]
    <3>1. \A i \in 1..Len(todo) : todo[i].id \in RuleIds
      BY <1>6, ElementsListed
    <3>2. \A i \in 1..Len(todo) : todo[i].rule.state # "firing" => streak[todo[i].id] <= unsaved[todo[i].id]
      BY <1>6 DEF MayBeTold, Untold
    <3> QED BY <1>7, <3>1, <3>2
  <2>3. job.rule.state # "firing" => streak'[job.id] <= unsaved'[job.id]
    BY <1>2, <1>6, <1>7 DEF MayBeTold, Untold
  <2> QED BY <1>1, <1>5, <1>7, <2>1, <2>2, <2>3 DEF MayBeTold, Untold
<1>11. ToldOnce'
  BY <1>6, <1>7 DEF ToldOnce
<1> QED BY <1>8, <1>9, <1>10, <1>11 DEF AlertInv, PassInv

\* What a judgement that is saved, or could not be, tells its channels: a note
\* of a rule that was not yet told of, or that a failed save goes with.
LEMMA NotifyStep ==
    ASSUME AlertInv, job.stage = "saving", Notify,
           unsaved' \in [RuleIds -> Nat], \A r \in RuleIds : unsaved'[r] >= unsaved[r]
    PROVE  /\ job.id \in RuleIds /\ job.rule \in Listed /\ job.state \in States
           /\ JobShape' /\ ValueJudged' /\ job'.stage \in {"none", "sending"}
           /\ streak' \in [RuleIds -> Nat]
           /\ \A r \in RuleIds : streak'[r] <= 1 + unsaved'[r]
           /\ \A r \in RuleIds \ {job.id} : Untold(r) => streak'[r] <= unsaved'[r]
           /\ Untold(job.id) /\ (job.state # "firing" \/ unsaved'[job.id] = unsaved[job.id] + 1)
                => streak'[job.id] <= unsaved'[job.id]
           /\ job.state # "firing" => Untold(job.id)
<1>1. job \in [stage : {"saving"}, id : RuleIds, rule : Listed, state : States, value : Int]
  BY DEF AlertInv, PassInv, JobShape, NoJob
<1>2. job.id \in RuleIds /\ job.rule \in Listed /\ job.state \in States
  BY <1>1
<1>3. job.rule.cond \in Conditions
      /\ job.rule = [name |-> job.rule.name, cond |-> job.rule.cond, channels |-> job.rule.channels,
                     enabled |-> job.rule.enabled, state |-> job.rule.state]
  BY <1>2, ListedFields
<1>4. /\ streak \in [RuleIds -> Nat] /\ unsaved \in [RuleIds -> Nat]
      /\ \A r \in RuleIds : streak[r] <= 1 + unsaved[r]
      /\ job.rule.state # "firing" => Untold(job.id)
      /\ job.state # "firing" => Untold(job.id)
  BY DEF AlertInv, TablesInv, Histories, PassInv, ToldOnce, MayBeTold
<1>5. CASE Transition(job.state, job.rule.state)
  <2>1. /\ job' = [job EXCEPT !.stage = "sending",
                              !.rule.channels = SelectSeq(@, LAMBDA c : c \in reachable)]
        /\ streak' = [streak EXCEPT ![job.id] = IF job.state = "firing" THEN @ + 1 ELSE @]
    BY <1>5 DEF Notify
  <2>2. job.state \in {"firing", "ok"} /\ (job.state = "firing" => Untold(job.id))
    BY <1>4, <1>5 DEF Transition
  <2> DEFINE told == [job.rule EXCEPT !.channels = SelectSeq(job.rule.channels, LAMBDA c : c \in reachable)]
  <2>3. /\ job' = [stage |-> "sending", id |-> job.id, rule |-> told, state |-> job.state,
                   value |-> job.value]
        /\ told.cond = job.rule.cond
        /\ DOMAIN told = {"name", "cond", "channels", "enabled", "state"}
    BY <1>1, <1>3, <2>1
  <2> HIDE DEF told
  <2>4. /\ job'.stage = "sending" /\ job'.rule.cond = job.rule.cond /\ job'.state = job.state
        /\ job'.value = job.value /\ job'.rule = told
        /\ DOMAIN job' = {"stage", "id", "rule", "state", "value"}
    BY <2>3
  <2>5. JobShape'
    BY <1>3, <2>2, <2>3, <2>4 DEF JobShape
  <2>6. ValueJudged'
    <3>1. job.state # "unknown"
      BY <2>2
    <3>2. job.rule.cond.op \in {"gt", "gte", "lt", "lte"} =>
             ((job.state = "firing") <=> Match(job.rule.cond, job.value))
      BY <3>1 DEF AlertInv, PassInv, ValueJudged
    <3> QED BY <2>4, <3>2 DEF ValueJudged
  <2>7. /\ streak' \in [RuleIds -> Nat]
        /\ \A r \in RuleIds \ {job.id} : streak'[r] = streak[r]
        /\ streak'[job.id] = IF job.state = "firing" THEN streak[job.id] + 1 ELSE streak[job.id]
    BY <1>2, <1>4, <2>1
  <2>8. /\ \A r \in RuleIds \ {job.id} : streak'[r] <= 1 + unsaved'[r]
        /\ \A r \in RuleIds \ {job.id} : streak[r] <= unsaved[r] => streak'[r] <= unsaved'[r]
    BY <1>4, <2>7
  <2>9. /\ streak'[job.id] <= 1 + unsaved'[job.id]
        /\ streak[job.id] <= unsaved[job.id]
              /\ (job.state # "firing" \/ unsaved'[job.id] = unsaved[job.id] + 1)
                => streak'[job.id] <= unsaved'[job.id]
    <3>1. job.state = "firing" => streak[job.id] <= unsaved[job.id]
      BY <2>2 DEF Untold
    <3>2. unsaved'[job.id] >= unsaved[job.id] /\ streak[job.id] \in Nat /\ unsaved[job.id] \in Nat
          /\ unsaved'[job.id] \in Nat /\ streak[job.id] <= 1 + unsaved[job.id]
      BY <1>2, <1>4
    <3> QED BY <2>7, <3>1, <3>2
  <2> QED BY <1>2, <1>4, <2>4, <2>5, <2>6, <2>7, <2>8, <2>9 DEF Untold
<1>6. CASE ~Transition(job.state, job.rule.state)
  <2>1. job' = NoJob /\ streak' = streak
    BY <1>6 DEF Notify
  <2>2. job'.stage = "none"
    BY <2>1 DEF NoJob
  <2>3. JobShape' /\ ValueJudged'
    BY <2>1, <2>2 DEF JobShape, ValueJudged
  <2>4. /\ \A r \in RuleIds : streak'[r] <= 1 + unsaved'[r]
        /\ \A r \in RuleIds : streak[r] <= unsaved[r] => streak'[r] <= unsaved'[r]
    BY <1>4, <2>1
  <2> QED BY <1>2, <1>4, <2>1, <2>2, <2>3, <2>4 DEF Untold
<1> QED BY <1>5, <1>6

\* A judgement is saved, or lost, and told.
LEMMA SaveStep ==
    ASSUME AlertInv, Save \/ SaveFails
    PROVE  AlertInv'
<1>1. /\ job.stage = "saving" /\ Notify
      /\ UNCHANGED <<edited, update, pass, todo>>
  BY DEF Save, SaveFails, dbVars
<1>2. /\ Histories /\ Stored /\ UpdateShape /\ TodoShape /\ EachOnce /\ MayBeTold /\ ToldOnce /\ InPass
      /\ edited \in [RuleIds -> Definitions] /\ judged \in [RuleIds -> States \cup {"none"}]
      /\ unsaved \in [RuleIds -> Nat]
  BY DEF AlertInv, TablesInv, PassInv, Histories
<1>3. job.id \in RuleIds /\ job.state \in States
  <2>1. job \in [stage : {"saving"}, id : RuleIds, rule : Listed, state : States, value : Int]
    BY <1>1 DEF AlertInv, PassInv, JobShape, NoJob
  <2> QED BY <2>1
<1>4. /\ unsaved' \in [RuleIds -> Nat] /\ \A r \in RuleIds : unsaved'[r] >= unsaved[r]
      /\ SaveFails => (job.state # "firing" \/ unsaved'[job.id] = unsaved[job.id] + 1)
  <2>1. CASE Save
    <3>1. unsaved' = unsaved
      BY <2>1 DEF Save
    <3>2. ~SaveFails \/ job.state # "firing"
      <4>1. CASE SaveFails
        <5>1. unsaved' = [unsaved EXCEPT ![job.id] = IF job.state = "firing" THEN @ + 1 ELSE @]
          BY <4>1 DEF SaveFails
        <5> QED BY <1>2, <1>3, <3>1, <5>1
      <4> QED BY <4>1
    <3> QED BY <1>2, <3>1, <3>2
  <2>2. CASE SaveFails
    <3>1. unsaved' = [unsaved EXCEPT ![job.id] = IF job.state = "firing" THEN @ + 1 ELSE @]
      BY <2>2 DEF SaveFails
    <3> QED BY <1>2, <1>3, <3>1
  <2> QED BY <2>1, <2>2
<1>5. /\ JobShape' /\ ValueJudged' /\ job'.stage \in {"none", "sending"}
      /\ streak' \in [RuleIds -> Nat]
      /\ \A r \in RuleIds : streak'[r] <= 1 + unsaved'[r]
      /\ \A r \in RuleIds \ {job.id} : Untold(r) => streak'[r] <= unsaved'[r]
      /\ Untold(job.id) /\ (job.state # "firing" \/ unsaved'[job.id] = unsaved[job.id] + 1)
            => streak'[job.id] <= unsaved'[job.id]
      /\ job.state # "firing" => Untold(job.id)
  BY <1>1, <1>4, NotifyStep
<1>6. /\ DOMAIN rules' = DOMAIN rules
      /\ judged' \in [RuleIds -> States \cup {"none"}]
      /\ \A r \in DOMAIN rules : judged'[r] \in States /\ rules'[r] = Rule(edited[r], judged'[r])
      /\ \A r \in DOMAIN rules \ {job.id} : judged'[r] = judged[r]
      /\ job.id \in DOMAIN rules => (judged'[job.id] = job.state \/ (SaveFails /\ judged' = judged))
  <2>1. DOMAIN rules \subseteq RuleIds
        /\ \A r \in DOMAIN rules : judged[r] \in States /\ rules[r] = Rule(edited[r], judged[r])
    BY <1>2 DEF Stored
  <2>2. CASE SaveFails \/ (Save /\ job.id \notin DOMAIN rules)
    <3>1. UNCHANGED <<rules, judged>>
      BY <2>2 DEF Save, SaveFails, dbVars
    <3>2. CASE SaveFails
      BY <1>2, <2>1, <3>1, <3>2
    <3>3. CASE ~SaveFails
      BY <1>2, <2>1, <2>2, <3>1, <3>3
    <3> QED BY <3>2, <3>3
  <2>3. CASE Save /\ job.id \in DOMAIN rules
    <3>1. /\ rules' = [rules EXCEPT ![job.id].state = job.state]
          /\ judged' = [judged EXCEPT ![job.id] = job.state]
      BY <2>3 DEF Save, SaveState
    <3>2. /\ DOMAIN rules' = DOMAIN rules
          /\ \A r \in DOMAIN rules \ {job.id} : rules'[r] = rules[r]
          /\ rules'[job.id] = [rules[job.id] EXCEPT !.state = job.state]
      <4> QED BY <2>3, <3>1
    <3>3. /\ judged' \in [RuleIds -> States \cup {"none"}] /\ judged'[job.id] = job.state
          /\ \A r \in RuleIds \ {job.id} : judged'[r] = judged[r]
      BY <1>2, <1>3, <3>1
    <3>4. [rules[job.id] EXCEPT !.state = job.state] = Rule(edited[job.id], job.state)
      <4>1. rules[job.id] = Rule(edited[job.id], judged[job.id])
        BY <2>1, <2>3
      <4> QED BY <4>1 DEF Rule
    <3> QED BY <1>3, <2>1, <2>3, <3>2, <3>3, <3>4
  <2> QED BY <1>1, <2>2, <2>3
<1>7. TablesInv'
  <2>1. Stored'
    BY <1>1, <1>2, <1>6 DEF Stored
  <2>2. Histories'
    BY <1>1, <1>2, <1>4, <1>5, <1>6 DEF Histories
  <2> QED BY <1>1, <1>2, <2>1, <2>2 DEF TablesInv, UpdateShape
<1>8. TodoShape' /\ InPass' /\ EachOnce'
  <2>1. pass = "running"
    BY <1>1, <1>2 DEF InPass, NoJob
  <2>2. TodoShape'
    BY <1>1, <1>2 DEF TodoShape
  <2> QED BY <1>1, <1>2, <1>5, <2>1, <2>2 DEF InPass, EachOnce
<1>9. MayBeTold'
  <2>1. ASSUME NEW r \in DOMAIN rules, judged'[r] # "firing" PROVE streak'[r] <= unsaved'[r]
    <3>1. r \in RuleIds
      BY <1>2 DEF Stored
    <3>2. judged[r] # "firing" => Untold(r)
      BY <1>2 DEF MayBeTold
    <3>3. CASE r # job.id
      <4>1. judged'[r] = judged[r]
        BY <1>6, <3>3
      <4>2. Untold(r) => streak'[r] <= unsaved'[r]
        BY <1>5, <3>1, <3>3
      <4> QED BY <2>1, <3>2, <4>1, <4>2
    <3>4. CASE r = job.id
      <4>1. CASE judged'[r] = job.state
        BY <1>5, <2>1, <3>4, <4>1
      <4>2. CASE SaveFails /\ judged' = judged
        BY <1>4, <1>5, <2>1, <3>2, <3>4, <4>2
      <4> QED BY <1>6, <3>4, <4>1, <4>2
    <3> QED BY <3>3, <3>4
  <2>2. ASSUME NEW i \in 1..Len(todo), todo[i].rule.state # "firing"
        PROVE  streak'[todo[i].id] <= unsaved'[todo[i].id]
    <3>1. todo[i].id \in RuleIds /\ todo[i].id # job.id
      BY <1>1, <1>2, ElementsListed DEF EachOnce
    <3>2. Untold(todo[i].id)
      BY <1>2, <2>2 DEF MayBeTold
    <3> QED BY <1>5, <3>1, <3>2
  <2> QED BY <1>1, <1>5, <1>6, <2>1, <2>2 DEF MayBeTold, Untold
<1>10. ToldOnce'
  BY <1>5 DEF ToldOnce
<1> QED BY <1>5, <1>7, <1>8, <1>9, <1>10 DEF AlertInv, PassInv

\* A note to one channel leaves the rest of the job as it is.
LEMMA SendStep ==
    ASSUME AlertInv, Send, UNCHANGED <<rules, edited, judged, streak, unsaved>>
    PROVE  PassInv'
<1>1. /\ job.stage = "sending" /\ job' = [job EXCEPT !.rule.channels = Tail(@)]
      /\ UNCHANGED <<todo, pass>>
  BY DEF Send
<1>2. /\ DOMAIN job = {"stage", "id", "rule", "state", "value"}
      /\ DOMAIN job.rule = {"name", "cond", "channels", "enabled", "state"}
      /\ job.rule.cond \in Conditions
      /\ job.state \in {"firing", "ok"}
  BY <1>1 DEF AlertInv, PassInv, JobShape, NoJob
<1> DEFINE rest == [job.rule EXCEPT !.channels = Tail(@)]
<1>3. job' = [job EXCEPT !.rule = rest]
  BY <1>1, <1>2
<1>4. rest.cond = job.rule.cond /\ DOMAIN rest = {"name", "cond", "channels", "enabled", "state"}
  BY <1>2
<1> HIDE DEF rest
<1>5. /\ job'.stage = "sending" /\ job'.rule = rest /\ job'.state = job.state
      /\ job'.value = job.value
      /\ DOMAIN job' = {"stage", "id", "rule", "state", "value"}
  BY <1>1, <1>2, <1>3
<1>6. TodoShape /\ EachOnce /\ MayBeTold /\ ToldOnce /\ ValueJudged /\ InPass
  BY DEF AlertInv, PassInv
<1>7. TodoShape' /\ JobShape'
  BY <1>1, <1>2, <1>4, <1>5, <1>6 DEF TodoShape, JobShape
<1>8. InPass'
  BY <1>1, <1>6 DEF InPass, NoJob
<1>9. EachOnce' /\ MayBeTold' /\ ToldOnce'
  BY <1>1, <1>5, <1>6 DEF EachOnce, MayBeTold, ToldOnce, Untold
<1>10. ValueJudged'
  BY <1>1, <1>4, <1>5, <1>6 DEF ValueJudged
<1> QED BY <1>7, <1>8, <1>9, <1>10 DEF PassInv

\* The list may come to nothing, and with it what is in hand.
LEMMA RestartStep == AlertInv /\ Restart => AlertInv'
<1>1. SUFFICES ASSUME AlertInv, Restart PROVE AlertInv'
  OBVIOUS
<1>2. UNCHANGED <<rules, edited, judged, streak, unsaved>> /\ update' = NoUpdate
      /\ job' = NoJob /\ todo' = <<>>
  BY <1>1 DEF Restart, dbVars, notedVars
<1>3. TablesInv'
  BY <1>1, <1>2 DEF AlertInv, TablesInv, UpdateShape, Histories, Stored
<1> QED BY <1>1, <1>2, <1>3, ShorterList DEF AlertInv

-----------------------------------------------------------------------------
(* The API's steps. *)

\* What the API does to the tables leaves the pass its rights.
LEMMA PassFrame ==
    ASSUME AlertInv, UNCHANGED passVars,
           \A r \in RuleIds : streak[r] <= unsaved[r] => streak'[r] <= unsaved'[r],
           \A r \in RuleIds : streak[r] <= 1 + unsaved[r] => streak'[r] <= 1 + unsaved'[r],
           \A r \in DOMAIN rules' : judged'[r] # "firing" => streak'[r] <= unsaved'[r]
    PROVE  PassInv'
<1>1. UNCHANGED <<pass, todo, job>>
  BY DEF passVars
<1>2. TodoShape /\ JobShape /\ InPass /\ EachOnce /\ MayBeTold /\ ToldOnce /\ ValueJudged
  BY DEF AlertInv, PassInv
<1>3. TodoShape' /\ JobShape' /\ InPass' /\ EachOnce' /\ ValueJudged'
  <2>1. TodoShape' /\ JobShape'
    BY <1>1, <1>2 DEF TodoShape, JobShape
  <2> QED BY <1>1, <1>2, <2>1 DEF InPass, EachOnce, ValueJudged
<1>4. MayBeTold'
  <2>1. ASSUME NEW i \in 1..Len(todo), todo[i].rule.state # "firing"
        PROVE  streak'[todo[i].id] <= unsaved'[todo[i].id]
    <3>1. todo[i].id \in RuleIds
      BY <1>2, ElementsListed
    <3> QED BY <1>2, <2>1, <3>1 DEF MayBeTold, Untold
  <2>2. /\ job.stage \in {"evaluating", "saving"} /\ job.rule.state # "firing"
              => streak'[job.id] <= unsaved'[job.id]
        /\ job.stage = "saving" /\ job.state # "firing" => streak'[job.id] <= unsaved'[job.id]
    <3>1. job.stage \in {"evaluating", "saving"} => job.id \in RuleIds
      BY <1>2 DEF JobShape, NoJob
    <3> QED BY <1>2, <3>1 DEF MayBeTold, Untold
  <2> QED BY <1>1, <2>1, <2>2 DEF MayBeTold, Untold
<1>5. ToldOnce'
  BY <1>2 DEF ToldOnce
<1> QED BY <1>3, <1>4, <1>5 DEF PassInv

\* A row that comes, or comes again, starts its history anew.
LEMMA InsertedStep ==
    ASSUME AlertInv, NEW r \in RuleIds, NEW def \in Definitions, NEW state \in States,
           Inserted(r, def, state), UNCHANGED passVars, UpdateShape'
    PROVE  AlertInv'
<1>1. /\ rules' = [x \in DOMAIN rules \cup {r} |-> IF x = r THEN Rule(def, state) ELSE rules[x]]
      /\ edited' = [edited EXCEPT ![r] = def] /\ judged' = [judged EXCEPT ![r] = state]
      /\ streak' = [streak EXCEPT ![r] = 0] /\ unsaved' = [unsaved EXCEPT ![r] = 0]
  BY DEF Inserted, NotFiring
<1>2. /\ DOMAIN rules \subseteq RuleIds /\ IsFiniteSet(DOMAIN rules)
      /\ \A x \in DOMAIN rules : judged[x] \in States /\ rules[x] = Rule(edited[x], judged[x])
  BY DEF AlertInv, TablesInv, Stored
<1>3. /\ edited \in [RuleIds -> Definitions] /\ judged \in [RuleIds -> States \cup {"none"}]
      /\ streak \in [RuleIds -> Nat] /\ unsaved \in [RuleIds -> Nat]
  BY DEF AlertInv, TablesInv, Histories
<1>4. Histories'
  BY <1>1, <1>3 DEF Histories
<1>5. DOMAIN rules' = DOMAIN rules \cup {r} /\ IsFiniteSet(DOMAIN rules')
  BY <1>1, <1>2, FS_AddElement
<1>6. ASSUME NEW x \in DOMAIN rules'
      PROVE  judged'[x] \in States /\ rules'[x] = Rule(edited'[x], judged'[x])
  <2>1. CASE x = r
    BY <1>1, <1>3, <1>5, <2>1
  <2>2. CASE x # r
    <3>1. x \in DOMAIN rules /\ x \in RuleIds
      BY <1>2, <1>5, <2>2
    <3>2. rules'[x] = rules[x] /\ edited'[x] = edited[x] /\ judged'[x] = judged[x]
      BY <1>1, <1>3, <2>2, <3>1
    <3> QED BY <1>2, <3>1, <3>2
  <2> QED BY <2>1, <2>2
<1>7. Stored'
  BY <1>2, <1>5, <1>6 DEF Stored
<1>8. \A x \in RuleIds : \/ x = r /\ streak'[x] = 0 /\ unsaved'[x] = 0
                         \/ x # r /\ streak'[x] = streak[x] /\ unsaved'[x] = unsaved[x]
  BY <1>1, <1>3
<1>9. \A x \in RuleIds : /\ streak[x] <= unsaved[x] => streak'[x] <= unsaved'[x]
                         /\ streak[x] <= 1 + unsaved[x] => streak'[x] <= 1 + unsaved'[x]
  BY <1>8
<1>10. ASSUME NEW x \in DOMAIN rules', judged'[x] # "firing" PROVE streak'[x] <= unsaved'[x]
  <2>1. x \in RuleIds
    BY <1>2, <1>5
  <2>2. CASE x = r
    BY <1>8, <2>1, <2>2
  <2>3. CASE x # r
    <3>1. x \in DOMAIN rules /\ judged[x] # "firing"
      BY <1>1, <1>3, <1>5, <1>10, <2>1, <2>3
    <3>2. streak[x] <= unsaved[x]
      BY <3>1 DEF AlertInv, PassInv, MayBeTold, Untold
    <3> QED BY <1>9, <2>1, <3>2
  <2> QED BY <2>2, <2>3
<1>11. PassInv'
  BY <1>9, <1>10, PassFrame
<1> QED BY <1>4, <1>7, <1>11 DEF AlertInv, TablesInv

\* A new rule.
LEMMA CreateStep ==
    ASSUME AlertInv, NEW r \in RuleIds, NEW d \in Definitions, Create(r, d)
    PROVE  AlertInv'
<1>1. Inserted(r, d, "unknown") /\ UNCHANGED passVars /\ UNCHANGED update /\ "unknown" \in States
  BY DEF Create, States
<1>2. UpdateShape'
  BY <1>1 DEF AlertInv, TablesInv, UpdateShape
<1> QED BY <1>1, <1>2, InsertedStep

\* The first half of an update only reads.
LEMMA UpdateReadsStep ==
    ASSUME AlertInv, NEW r \in RuleIds, NEW d \in Definitions, UpdateReads(r, d)
    PROVE  AlertInv'
<1>1. /\ UNCHANGED <<rules, edited, judged, streak, unsaved>> /\ UNCHANGED passVars
      /\ update' = [stage |-> "read", id |-> r, def |-> d,
                    state |-> IF r \in DOMAIN rules THEN rules[r].state ELSE "unknown"]
  BY DEF UpdateReads, dbVars, notedVars
<1>2. UpdateShape'
  <2>1. (IF r \in DOMAIN rules THEN rules[r].state ELSE "unknown") \in States
    BY RowsListed DEF AlertInv, TablesInv, States
  <2> QED BY <1>1, <2>1 DEF UpdateShape
<1>3. TablesInv'
  BY <1>1, <1>2 DEF AlertInv, TablesInv, Histories, Stored
<1>4. \A x \in DOMAIN rules : judged[x] # "firing" => streak[x] <= unsaved[x]
  BY DEF AlertInv, PassInv, MayBeTold, Untold
<1>5. PassInv'
  BY <1>1, <1>4, PassFrame
<1> QED BY <1>3, <1>5 DEF AlertInv

\* The second half writes over whatever the row has become.
LEMMA UpdateWritesStep ==
    ASSUME AlertInv, UpdateWrites
    PROVE  AlertInv'
<1>1. update.stage = "read" /\ update' = NoUpdate /\ UNCHANGED passVars
  BY DEF UpdateWrites
<1>2. update.id \in RuleIds /\ update.def \in Definitions /\ update.state \in States
  BY <1>1 DEF AlertInv, TablesInv, UpdateShape, NoUpdate
<1>3. UpdateShape'
  BY <1>1 DEF UpdateShape
<1>4. CASE update.id \in DOMAIN rules
  <2>1. /\ rules' = [rules EXCEPT ![update.id] =
                        Rule(update.def, KeepState(@.state, update.state))]
        /\ edited' = [edited EXCEPT ![update.id] = update.def]
        /\ UNCHANGED <<judged, streak, unsaved>>
    BY <1>4 DEF UpdateWrites
  <2>2. /\ DOMAIN rules \subseteq RuleIds /\ IsFiniteSet(DOMAIN rules)
        /\ \A x \in DOMAIN rules : judged[x] \in States /\ rules[x] = Rule(edited[x], judged[x])
    BY DEF AlertInv, TablesInv, Stored
  <2>3. edited \in [RuleIds -> Definitions]
    BY DEF AlertInv, TablesInv, Histories
  <2>4. DOMAIN rules' = DOMAIN rules
    BY <2>1
  <2>5. ASSUME NEW x \in DOMAIN rules PROVE rules'[x] = Rule(edited'[x], judged[x])
    <3>1. CASE x = update.id
      <4>1. rules'[x] = Rule(update.def, rules[x].state)
        BY <1>4, <2>1, <3>1 DEF KeepState
      <4>2. rules[x].state = judged[x]
        BY <2>2 DEF Rule
      <4>3. edited'[x] = update.def
        BY <1>2, <2>1, <2>3, <3>1
      <4> QED BY <4>1, <4>2, <4>3
    <3>2. CASE x # update.id
      BY <2>1, <2>2, <2>3, <3>2
    <3> QED BY <3>1, <3>2
  <2>6. Stored'
    BY <2>1, <2>2, <2>4, <2>5 DEF Stored
  <2>7. Histories'
    BY <1>2, <2>1 DEF AlertInv, TablesInv, Histories
  <2>8. \A x \in DOMAIN rules : judged[x] # "firing" => streak[x] <= unsaved[x]
    BY DEF AlertInv, PassInv, MayBeTold, Untold
  <2>9. PassInv'
    BY <1>1, <2>1, <2>4, <2>8, PassFrame
  <2> QED BY <1>3, <2>6, <2>7, <2>9 DEF AlertInv, TablesInv
<1>5. CASE update.id \notin DOMAIN rules
  <2>1. Inserted(update.id, update.def, update.state)
    BY <1>5 DEF UpdateWrites
  <2> QED BY <1>1, <1>2, <1>3, <2>1, InsertedStep
<1> QED BY <1>4, <1>5

\* A rule that is deleted takes its row, and nothing else.
LEMMA DeleteRuleStep ==
    ASSUME AlertInv, NEW r \in RuleIds, DeleteRule(r)
    PROVE  AlertInv'
<1>1. /\ rules' = [x \in DOMAIN rules \ {r} |-> rules[x]]
      /\ UNCHANGED <<edited, judged, streak, unsaved, update>> /\ UNCHANGED passVars
  BY DEF DeleteRule, notedVars
<1>2. /\ DOMAIN rules \subseteq RuleIds /\ IsFiniteSet(DOMAIN rules)
      /\ \A x \in DOMAIN rules : judged[x] \in States /\ rules[x] = Rule(edited[x], judged[x])
  BY DEF AlertInv, TablesInv, Stored
<1>3. DOMAIN rules' = DOMAIN rules \ {r}
      /\ \A x \in DOMAIN rules' : x \in DOMAIN rules /\ rules'[x] = rules[x]
  BY <1>1
<1>4. IsFiniteSet(DOMAIN rules')
  BY <1>2, <1>3, FS_Subset
<1>5. Stored'
  BY <1>1, <1>2, <1>3, <1>4 DEF Stored
<1>6. UpdateShape' /\ Histories'
  BY <1>1 DEF AlertInv, TablesInv, UpdateShape, Histories
<1>7. \A x \in DOMAIN rules' : judged[x] # "firing" => streak[x] <= unsaved[x]
  BY <1>3 DEF AlertInv, PassInv, MayBeTold, Untold
<1>8. PassInv'
  BY <1>1, <1>7, PassFrame
<1> QED BY <1>5, <1>6, <1>8 DEF AlertInv, TablesInv

-----------------------------------------------------------------------------
(* The theorems. *)

\* Steps that leave the tables alone.
LEMMA PassStep ==
    ASSUME AlertInv,
           \/ ListRules \/ ListChannels \/ ListFails \/ Skip \/ Claim \/ PassDone
           \/ Send \/ Sent \/ (\E r \in RuleIds : Elapse(r)) \/ (\E c \in Channels : DeleteChannel(c))
           \/ UNCHANGED alertVars
    PROVE  AlertInv'
<1>1. TablesInv' /\ UNCHANGED <<rules, edited, judged, streak, unsaved>>
  BY TablesFrame DEF AlertInv
<1>2. PassInv /\ InPass
  BY DEF AlertInv, PassInv
<1>3. CASE ListRules
  BY <1>1, <1>3, ListRulesStep DEF AlertInv
<1>4. CASE Claim
  BY <1>1, <1>4, ClaimStep DEF AlertInv
<1>5. CASE Send
  BY <1>1, <1>5, SendStep DEF AlertInv
<1>6. CASE ListChannels \/ ListFails \/ Skip \/ PassDone \/ Sent
  <2>1. job' = NoJob
    BY <1>2, <1>6 DEF InPass, ListChannels, ListFails, Skip, PassDone, Sent
  <2>2. todo' = todo \/ todo' = <<>> \/ (todo # <<>> /\ todo' = Tail(todo))
    BY <1>6 DEF ListChannels, ListFails, Skip, PassDone, Sent
  <2> QED BY <1>1, <1>2, <2>1, <2>2, ShorterList DEF AlertInv
<1>7. CASE (\E r \in RuleIds : Elapse(r)) \/ (\E c \in Channels : DeleteChannel(c)) \/ UNCHANGED alertVars
  <2>1. UNCHANGED <<pass, todo, job>>
    BY <1>7 DEF Elapse, DeleteChannel, alertVars, passVars
  <2>2. TodoShape' /\ JobShape'
    BY <1>2, <2>1 DEF PassInv, TodoShape, JobShape
  <2> QED BY <1>1, <1>2, <2>1, <2>2
          DEF AlertInv, PassInv, InPass, EachOnce, MayBeTold, ToldOnce, ValueJudged, Untold
<1> QED BY <1>3, <1>4, <1>5, <1>6, <1>7

\* Every step of the scheduler and of the API keeps the invariant.
LEMMA AlertInvKept == AlertInv /\ [AlertNext]_alertVars => AlertInv'
<1>1. SUFFICES ASSUME AlertInv, [AlertNext]_alertVars PROVE AlertInv'
  OBVIOUS
<1>2. CASE \/ ListRules \/ ListChannels \/ ListFails \/ Skip \/ Claim \/ PassDone
           \/ Send \/ Sent \/ (\E r \in RuleIds : Elapse(r)) \/ (\E c \in Channels : DeleteChannel(c))
           \/ UNCHANGED alertVars
  BY <1>1, <1>2, PassStep
<1>3. CASE Evaluate \/ EvaluateFails
  BY <1>1, <1>3, EvaluateStep
<1>4. CASE Save \/ SaveFails
  BY <1>1, <1>4, SaveStep
<1>5. CASE Restart
  BY <1>1, <1>5, RestartStep
<1>6. CASE UpdateWrites
  BY <1>1, <1>6, UpdateWritesStep
<1>7. ASSUME NEW r \in RuleIds, DeleteRule(r) PROVE AlertInv'
  BY <1>1, <1>7, DeleteRuleStep
<1>8. ASSUME NEW r \in RuleIds, NEW d \in Definitions, Create(r, d) \/ UpdateReads(r, d)
      PROVE  AlertInv'
  BY <1>1, <1>8, CreateStep, UpdateReadsStep
<1> QED BY <1>1, <1>2, <1>3, <1>4, <1>5, <1>6, <1>7, <1>8 DEF AlertNext, Pass

\* The invariant holds in every state the server reaches.
THEOREM AlertInvariance == AlertSpec => []AlertInv
BY AlertStarts, AlertInvKept, PTL DEF AlertSpec

\* What the database holds of a rule is the definition last put and the state
\* last judged, whatever passes, updates and deletes interleave
\* (alerts.go:89-90, 144-145).
THEOREM NeitherOverwritten == AlertSpec => []NeitherOverwrites
<1>1. AlertInv => NeitherOverwrites
  <2>1. SUFFICES ASSUME AlertInv, NEW r \in DOMAIN rules
                 PROVE  Definition(rules[r]) = edited[r] /\ rules[r].state = judged[r]
    BY DEF NeitherOverwrites
  <2>2. r \in RuleIds /\ rules[r] = Rule(edited[r], judged[r]) /\ edited[r] \in Definitions
    BY <2>1 DEF AlertInv, TablesInv, Stored, Histories
  <2>3. edited[r] = [name |-> edited[r].name, cond |-> edited[r].cond,
                     channels |-> edited[r].channels, enabled |-> edited[r].enabled]
    BY <2>2, AlertsAssumption DEF AlertsAssumption
  <2> QED BY <2>2, <2>3 DEF Rule, Definition
<1> QED BY <1>1, AlertInvariance, PTL

\* A receiver is told once per time a rule fires, or once more for each save
\* that failed, and with a value that explains what it is told
\* (scheduler.go:22-25, evaluate.go:81-83).
THEOREM ToldAndTrue == AlertSpec => []ToldOnceAndTruly
<1>1. AlertInv => ToldOnceAndTruly
  <2>1. SUFFICES ASSUME AlertInv PROVE ToldOnceAndTruly
    OBVIOUS
  <2>2. ToldOnce /\ ValueJudged /\ JobShape
    BY <2>1 DEF AlertInv, PassInv
  <2>3. job.stage = "sending" => job.state # "unknown"
    BY <2>2 DEF JobShape, NoJob
  <2> QED BY <2>2, <2>3 DEF ToldOnceAndTruly, ValueExplainsState, ValueJudged
<1> QED BY <1>1, AlertInvariance, PTL

\* What AlertTypeOK says of the variables the invariant does not speak of.
PassTypes ==
    /\ channels \subseteq Channels
    /\ resting \subseteq RuleIds
    /\ pass \in {"idle", "listed", "running"}
    /\ reachable \subseteq Channels

\* Every variable stays in its type.
THEOREM AlertsTyped == AlertSpec => []AlertTypeOK
<1>1. AlertInit => PassTypes
  BY DEF AlertInit, PassTypes
<1>2. AlertInv /\ PassTypes /\ [AlertNext]_alertVars => PassTypes'
  <2>1. SUFFICES ASSUME AlertInv, PassTypes, [AlertNext]_alertVars PROVE PassTypes'
    OBVIOUS
  <2>2. CASE ListRules \/ ListChannels \/ ListFails \/ Skip \/ PassDone
    BY <2>1, <2>2 DEF PassTypes, ListRules, ListChannels, ListFails, Skip, PassDone, dbVars
  <2>3. CASE Claim
    <3>1. todo # <<>> /\ TodoShape /\ Len(todo) \in Nat
      BY <2>1, <2>3 DEF Claim, AlertInv, PassInv, TodoShape
    <3>2. 1 \in 1..Len(todo) /\ Head(todo) = todo[1]
      BY <3>1 DEF TodoShape
    <3>3. Head(todo).id \in RuleIds
      BY <3>1, <3>2, ElementsListed
    <3> QED BY <2>1, <2>3, <3>3 DEF PassTypes, Claim, dbVars
  <2>4. CASE Evaluate \/ EvaluateFails \/ Save \/ SaveFails \/ Send \/ Sent \/ UNCHANGED alertVars
    BY <2>1, <2>4 DEF PassTypes, Evaluate, EvaluateFails, Save, SaveFails, Send, Sent,
                      alertVars, dbVars, passVars
  <2>5. CASE Restart
    BY <2>1, <2>5 DEF PassTypes, Restart, dbVars
  <2>6. CASE UpdateWrites
    BY <2>1, <2>6 DEF PassTypes, UpdateWrites, passVars
  <2>7. ASSUME NEW r \in RuleIds, NEW d \in Definitions,
               Elapse(r) \/ DeleteRule(r) \/ Create(r, d) \/ UpdateReads(r, d)
        PROVE  PassTypes'
    BY <2>1, <2>7 DEF PassTypes, Elapse, DeleteRule, Create, UpdateReads, passVars, dbVars
  <2>8. ASSUME NEW c \in Channels, DeleteChannel(c) PROVE PassTypes'
    BY <2>1, <2>8 DEF PassTypes, DeleteChannel, passVars
  <2>9. Definitions # {}
    BY AlertsAssumption DEF AlertsAssumption
  <2> QED BY <2>1, <2>2, <2>3, <2>4, <2>5, <2>6, <2>7, <2>8, <2>9 DEF AlertNext, Pass
<1>3. AlertSpec => []PassTypes
  BY <1>1, <1>2, AlertInvariance, AlertInvKept, PTL DEF AlertSpec
<1>4. AlertInv /\ PassTypes => AlertTypeOK
  <2>1. SUFFICES ASSUME AlertInv, PassTypes PROVE AlertTypeOK
    OBVIOUS
  <2>2. TodoShape /\ JobShape /\ UpdateShape /\ Histories /\ Stored
    BY <2>1 DEF AlertInv, TablesInv, PassInv
  <2>3. ASSUME NEW r \in DOMAIN rules
        PROVE  r \in RuleIds /\ Definition(rules[r]) \in Definitions /\ rules[r].state \in States
    BY <2>2, RowsListed, ListedFields
  <2>4. ASSUME NEW i \in DOMAIN todo PROVE todo[i].id \in RuleIds /\ todo[i].rule.state \in States
    <3>1. i \in 1..Len(todo)
      BY <2>2 DEF TodoShape
    <3> QED BY <2>2, <3>1, ElementsListed, ListedFields
  <2>5. job.stage \in {"none", "evaluating", "saving", "sending"} /\ update.stage \in {"none", "read"}
    BY <2>2 DEF JobShape, UpdateShape, NoJob, NoUpdate
  <2> QED BY <2>1, <2>2, <2>3, <2>4, <2>5 DEF AlertTypeOK, PassTypes, Histories
<1> QED BY <1>3, <1>4, AlertInvariance, PTL
=============================================================================
