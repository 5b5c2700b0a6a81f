---------------------------- MODULE AlertProofs ----------------------------
(***************************************************************************)
(* The properties of the stored alerts, for any notas, rules,              *)
(* configurations and number of evaluations at once; and, of the rules of  *)
(* the engine, that no two of the alerts they find have one fingerprint.   *)
(***************************************************************************)
EXTENDS AlertService, NotaProofs

-----------------------------------------------------------------------------
(* The invariant is one of five parts.                                     *)

\* An id is the number of the evaluation that created the alert; those in flight
\* have numbers of their own.
RunsAreNumbered ==
  /\ \A f \in Fingerprint : alerts[f] <= runs
  /\ \A m \in marks : m[2] <= runs
  /\ \A v \in view : v[2] # 0
  /\ \A e \in Evaluator : Active(e) => 1 <= eval[e].run /\ eval[e].run <= runs
  /\ \A e, x \in Evaluator : Active(e) /\ Active(x) /\ e # x => eval[e].run # eval[x].run

\* No alert has the id an evaluation is about to give, and nobody has marked one.
IdsAreFresh ==
  \A e \in Evaluator : eval[e].pc \in {"rules", "delete", "upsert"} =>
    \A f \in Fingerprint : alerts[f] # eval[e].run /\ <<f, eval[e].run>> \notin marks

LoneRunsAreExact ==
  \A e \in Evaluator : Active(e) /\ eval[e].alone =>
    /\ \A x \in Evaluator : Active(x) => x = e
    /\ eval[e].pc = "upsert" => Stored \subseteq eval[e].found
    /\ eval[e].pc = "count" => Stored = eval[e].found

\* What has held all along was found by its rule, or the rule is still to be read.
WhatHoldsIsFound ==
  /\ Before \subseteq data
  /\ \A e \in Evaluator :
       /\ eval[e].pc = "delete" => eval[e].todo = {}
       /\ eval[e].pc \in {"rules", "delete"} =>
            \A f \in Fingerprint \ eval[e].lapsed : \E r \in Enabled(eval[e].config) :
              f \in Produced(r, data, eval[e].config) /\ (r \in eval[e].todo \/ f \in eval[e].found)

IInv ==
  /\ TypeOK
  /\ RunsAreNumbered
  /\ IdsAreFresh
  /\ LoneRunsAreExact
  /\ ReadIsWhatUsersSaid
  /\ WhatHoldsIsFound

\* The store begins empty, with no evaluation in flight.
LEMMA Initially == Init => IInv
<1> SUFFICES ASSUME Init PROVE IInv
  OBVIOUS
<1>1. NoRun \in Evaluation /\ NoRun.pc = "idle"
  BY RulesAssumption DEF NoRun, Evaluation
<1>2. \A e \in Evaluator : eval[e] = NoRun /\ ~Active(e)
  BY <1>1 DEF Init, Active
<1>3. TypeOK
  BY <1>1, RulesAssumption DEF Init, TypeOK, Stored
<1>4. RunsAreNumbered /\ IdsAreFresh /\ LoneRunsAreExact
  BY <1>1, <1>2 DEF Init, RunsAreNumbered, IdsAreFresh, LoneRunsAreExact
<1>5. ReadIsWhatUsersSaid /\ WhatHoldsIsFound
  BY <1>1, <1>2 DEF Init, Stored, ReadIsWhatUsersSaid, WhatHoldsIsFound
<1> QED
  BY <1>3, <1>4, <1>5 DEF IInv

-----------------------------------------------------------------------------
(* Steps of notas and users                                                *)

\* A nota that arrives makes alerts lapse in the evaluations in flight; what still holds
\* is still produced by the rule its fingerprint names.
LEMMA ArriveKeeps ==
  ASSUME IInv, NEW d \in Doc, Arrive(d)
  PROVE  IInv'
<1>1. /\ data' = data \cup {d} /\ data \subseteq Doc /\ Before \subseteq data
      /\ UNCHANGED <<config, alerts, read, runs, view, marks>>
  BY DEF IInv, TypeOK, WhatHoldsIsFound, Arrive
<1>2. \A e \in Evaluator :
        /\ eval'[e].pc = eval[e].pc /\ eval'[e].run = eval[e].run /\ eval'[e].config = eval[e].config
        /\ eval'[e].todo = eval[e].todo /\ eval'[e].found = eval[e].found /\ eval'[e].alone = eval[e].alone
        /\ Active(e) => eval'[e].lapsed = eval[e].lapsed \cup (Fingerprint \ Holding(data', eval[e].config))
        /\ eval'[e] \in Evaluation
  <2> SUFFICES ASSUME NEW e \in Evaluator
               PROVE  /\ eval'[e].pc = eval[e].pc /\ eval'[e].run = eval[e].run
                      /\ eval'[e].config = eval[e].config
                      /\ eval'[e].todo = eval[e].todo /\ eval'[e].found = eval[e].found
                      /\ eval'[e].alone = eval[e].alone
                      /\ Active(e) => eval'[e].lapsed
                                        = eval[e].lapsed \cup (Fingerprint \ Holding(data', eval[e].config))
                      /\ eval'[e] \in Evaluation
    OBVIOUS
  <2>1. eval[e] \in Evaluation
    BY DEF IInv, TypeOK
  <2>2. CASE Active(e)
    <3>1. eval'[e] = [eval[e] EXCEPT !.lapsed = @ \cup (Fingerprint \ Holding(data', eval[e].config))]
      BY <2>2 DEF Arrive, Lapse
    <3> QED
      BY <2>1, <3>1 DEF Evaluation
  <2>3. CASE ~Active(e)
    <3>1. eval'[e] = eval[e]
      BY <2>3 DEF Arrive, Lapse
    <3> QED
      BY <2>1, <2>3, <3>1
  <2> QED
    BY <2>2, <2>3
<1>3. eval' = Lapse(data')
  BY DEF Arrive
<1>4. TypeOK'
  <2>1. eval' \in [Evaluator -> Evaluation]
    BY <1>2, <1>3 DEF Lapse
  <2> QED
    BY <1>1, <2>1 DEF IInv, TypeOK, Stored
<1>5. \A e \in Evaluator : Active(e)' = Active(e)
  BY <1>2 DEF Active
<1>6. Stored' = Stored
  BY <1>1 DEF Stored
<1>7. RunsAreNumbered' /\ IdsAreFresh' /\ LoneRunsAreExact' /\ ReadIsWhatUsersSaid'
  <2>1. RunsAreNumbered'
    BY <1>1, <1>2, <1>5 DEF IInv, RunsAreNumbered
  <2>2. IdsAreFresh'
    BY <1>1, <1>2 DEF IInv, IdsAreFresh
  <2>3. LoneRunsAreExact'
    BY <1>1, <1>2, <1>5, <1>6 DEF IInv, LoneRunsAreExact
  <2>4. ReadIsWhatUsersSaid'
    BY <1>1, <1>6 DEF IInv, ReadIsWhatUsersSaid
  <2> QED
    BY <2>1, <2>2, <2>3, <2>4
<1>8. WhatHoldsIsFound'
  <2> SUFFICES ASSUME NEW e \in Evaluator, eval[e].pc \in {"rules", "delete"},
                      NEW f \in Fingerprint \ eval'[e].lapsed
               PROVE  \E r \in Enabled(eval[e].config) :
                        f \in Produced(r, data', eval[e].config) /\ (r \in eval[e].todo \/ f \in eval[e].found)
    BY <1>1, <1>2 DEF IInv, WhatHoldsIsFound
  <2>1. Active(e) /\ eval[e].config \in Config
    BY DEF IInv, TypeOK, Evaluation, Active
  <2>2. f \in Holding(data', eval[e].config) /\ f \notin eval[e].lapsed
    BY <1>2, <2>1
  <2>3. PICK r \in Enabled(eval[e].config) :
          f \in Produced(r, data, eval[e].config) /\ (r \in eval[e].todo \/ f \in eval[e].found)
    BY <2>2 DEF IInv, WhatHoldsIsFound
  <2>4. PICK q \in Enabled(eval[e].config) : f \in Produced(q, data', eval[e].config)
    BY <2>2 DEF Holding
  <2>5. /\ q \in Rule /\ r \in Rule /\ data \in SUBSET Doc /\ data' \in SUBSET Doc
        /\ Before \subseteq data /\ Before \subseteq data'
    BY <1>1, <2>1, RulesAssumption
  <2>6. q = r
    BY <2>1, <2>3, <2>4, <2>5, RulesAssumption
  <2> QED
    BY <2>3, <2>4, <2>6
<1> QED
  BY <1>4, <1>7, <1>8 DEF IInv

\* The configuration and the list on screen play no part in what is stored.
LEMMA SaveAndRefetchKeep ==
  ASSUME IInv, (\E c \in Config : SaveConfig(c)) \/ Refetch
  PROVE  IInv'
<1>1. /\ UNCHANGED <<data, alerts, read, eval, runs, marks>>
      /\ config' \in Config
      /\ view' \in {view, ListAlerts}
  BY DEF IInv, TypeOK, SaveConfig, Refetch
<1>2. \A v \in view' : v \in Fingerprint \X (0 .. MaxRuns) /\ v[2] # 0
  BY <1>1 DEF IInv, TypeOK, RunsAreNumbered, ListAlerts, Stored
<1>3. TypeOK'
  BY <1>1, <1>2 DEF IInv, TypeOK, Stored
<1>4. RunsAreNumbered' /\ IdsAreFresh' /\ LoneRunsAreExact' /\ ReadIsWhatUsersSaid' /\ WhatHoldsIsFound'
  BY <1>1, <1>2 DEF IInv, RunsAreNumbered, IdsAreFresh, LoneRunsAreExact, ReadIsWhatUsersSaid, WhatHoldsIsFound,
                    Active, Stored
<1> QED
  BY <1>3, <1>4 DEF IInv

\* A mark of an alert that is still there, or of all of them.
LEMMA MarksKeep ==
  ASSUME IInv, (\E x \in view, to \in BOOLEAN : Patch(x[1], x[2], to)) \/ MarkAllRead
  PROVE  IInv'
<1>1. UNCHANGED <<data, config, alerts, eval, runs>> /\ view' \in {view, ListAlerts}
  BY DEF Patch, MarkAllRead
<1>2. \A v \in ListAlerts : v \in Fingerprint \X (0 .. MaxRuns) /\ v[2] # 0 /\ v[2] = alerts[v[1]] /\ v[1] \in Stored
  BY DEF IInv, TypeOK, ListAlerts, Stored
<1>3. /\ read' \subseteq Stored
      /\ ReadIsWhatUsersSaid'
      /\ marks' \subseteq marks \cup ListAlerts
  <2>1. ASSUME NEW x \in view, NEW to \in BOOLEAN, Patch(x[1], x[2], to)
        PROVE  read' \subseteq Stored /\ ReadIsWhatUsersSaid' /\ marks' \subseteq marks \cup ListAlerts
    <3>1. x[1] \in Fingerprint /\ x[2] # 0 /\ read \subseteq Stored
      BY DEF IInv, TypeOK, RunsAreNumbered
    <3>2. CASE alerts[x[1]] # x[2]
      BY <1>1, <2>1, <3>1, <3>2 DEF Patch, MarkAlertRead, IInv, ReadIsWhatUsersSaid, Stored
    <3>3. CASE alerts[x[1]] = x[2]
      <4>1. x[1] \in Stored /\ <<x[1], x[2]>> \in ListAlerts
        BY <3>1, <3>3 DEF Stored, ListAlerts
      <4>2. CASE to
        BY <1>1, <2>1, <3>1, <3>3, <4>1, <4>2 DEF Patch, MarkAlertRead, IInv, ReadIsWhatUsersSaid, Stored
      <4>3. CASE ~to
        BY <1>1, <2>1, <3>1, <3>3, <4>1, <4>3 DEF Patch, MarkAlertRead, IInv, ReadIsWhatUsersSaid, Stored
      <4> QED
        BY <4>2, <4>3
    <3> QED
      BY <3>2, <3>3
  <2>2. CASE MarkAllRead
    BY <1>1, <2>2 DEF MarkAllRead, ListAlerts, IInv, ReadIsWhatUsersSaid, Stored
  <2> QED
    BY <2>1, <2>2
<1>4. \A m \in marks' : m \in Fingerprint \X (0 .. MaxRuns) /\ (m \in marks \/ (m[1] \in Stored /\ m[2] = alerts[m[1]]))
  BY <1>2, <1>3 DEF IInv, TypeOK
<1>5. TypeOK'
  BY <1>1, <1>2, <1>3, <1>4 DEF IInv, TypeOK, Stored
<1>6. RunsAreNumbered'
  <2>1. \A m \in marks' : m[2] <= runs
    BY <1>4 DEF IInv, RunsAreNumbered, Stored
  <2>2. \A v \in view' : v[2] # 0
    BY <1>1, <1>2 DEF IInv, RunsAreNumbered
  <2> QED
    BY <1>1, <2>1, <2>2 DEF IInv, RunsAreNumbered, Active
<1>7. IdsAreFresh'
  BY <1>1, <1>4 DEF IInv, IdsAreFresh, Stored
<1>8. LoneRunsAreExact' /\ WhatHoldsIsFound'
  BY <1>1 DEF IInv, LoneRunsAreExact, WhatHoldsIsFound, Active, Stored
<1> QED
  BY <1>3, <1>5, <1>6, <1>7, <1>8 DEF IInv

-----------------------------------------------------------------------------
(* Steps of evaluations                                                    *)

\* What an evaluation starts with.
LEMMA BeginSets ==
  ASSUME IInv, NEW e \in Evaluator, Begin(e)
  PROVE  /\ eval[e].pc = "idle" /\ runs' = runs + 1 /\ runs < MaxRuns
         /\ UNCHANGED <<data, config, alerts, read, view, marks>>
         /\ eval' \in [Evaluator -> Evaluation]
         /\ eval'[e].pc = "rules" /\ eval'[e].run = runs + 1 /\ eval'[e].config = config
         /\ eval'[e].todo = Enabled(config) /\ eval'[e].lapsed = Fingerprint \ Holding(data, config)
         /\ eval'[e].alone => \A x \in Evaluator : ~Active(x)
         /\ \A x \in Evaluator \ {e} :
              /\ eval'[x].pc = eval[x].pc /\ eval'[x].run = eval[x].run /\ eval'[x].config = eval[x].config
              /\ eval'[x].todo = eval[x].todo /\ eval'[x].found = eval[x].found
              /\ eval'[x].lapsed = eval[x].lapsed /\ ~eval'[x].alone
<1> DEFINE others == \E x \in Evaluator : Active(x)
           begun == [pc |-> "rules", run |-> runs + 1, config |-> config, todo |-> Enabled(config), found |-> {},
                     lapsed |-> Fingerprint \ Holding(data, config), alone |-> ~others]
<1>1. /\ eval[e].pc = "idle" /\ runs' = runs + 1 /\ runs < MaxRuns
      /\ UNCHANGED <<data, config, alerts, read, view, marks>>
      /\ eval' = [x \in Evaluator |-> IF x = e THEN begun ELSE [eval[x] EXCEPT !.alone = FALSE]]
  BY DEF Begin
<1>2. begun \in Evaluation
  BY <1>1, RulesAssumption DEF IInv, TypeOK, Evaluation
<1>3. ASSUME NEW x \in Evaluator \ {e}
      PROVE  /\ eval'[x] \in Evaluation
             /\ eval'[x].pc = eval[x].pc /\ eval'[x].run = eval[x].run /\ eval'[x].config = eval[x].config
             /\ eval'[x].todo = eval[x].todo /\ eval'[x].found = eval[x].found
             /\ eval'[x].lapsed = eval[x].lapsed /\ ~eval'[x].alone
  <2>1. eval[x] \in Evaluation /\ eval'[x] = [eval[x] EXCEPT !.alone = FALSE]
    BY <1>1 DEF IInv, TypeOK
  <2> QED
    BY <2>1 DEF Evaluation
<1>4. eval'[e] = begun
  BY <1>1
<1>5. eval' \in [Evaluator -> Evaluation]
  <2>1. \A x \in Evaluator : eval'[x] \in Evaluation
    BY <1>2, <1>3, <1>4
  <2> QED
    BY <1>1, <2>1
<1> QED
  BY <1>1, <1>3, <1>4, <1>5

\* An evaluation begins: it has read the configuration and found nothing yet.
LEMMA BeginKeeps ==
  ASSUME IInv, NEW e \in Evaluator, Begin(e)
  PROVE  IInv'
<1>1. TypeOK'
  BY BeginSets, RulesAssumption DEF IInv, TypeOK, Stored
<1>2. \A x \in Evaluator \ {e} : Active(x)' = Active(x)
  BY BeginSets DEF Active
<1>3. RunsAreNumbered'
  <2>1. \A f \in Fingerprint : alerts'[f] <= runs'
    BY BeginSets DEF IInv, TypeOK, RunsAreNumbered
  <2>2. (\A m \in marks' : m[2] <= runs') /\ (\A v \in view' : v[2] # 0)
    BY BeginSets DEF IInv, TypeOK, RunsAreNumbered
  <2>3. ASSUME NEW x \in Evaluator, Active(x)' PROVE 1 <= eval'[x].run /\ eval'[x].run <= runs'
    BY <1>2, <2>3, BeginSets DEF IInv, TypeOK, Evaluation, RunsAreNumbered
  <2>4. ASSUME NEW x \in Evaluator, NEW y \in Evaluator, Active(x)', Active(y)', x # y
        PROVE  eval'[x].run # eval'[y].run
    <3>1. \A z \in Evaluator \ {e} : Active(z)' => eval'[z].run \in Nat /\ eval'[z].run <= runs
      BY <1>2, BeginSets DEF IInv, TypeOK, Evaluation, RunsAreNumbered
    <3>2. CASE x = e \/ y = e
      BY <2>4, <3>1, <3>2, BeginSets DEF IInv, TypeOK
    <3>3. CASE x # e /\ y # e
      BY <1>2, <2>4, <3>3, BeginSets DEF IInv, RunsAreNumbered
    <3> QED
      BY <3>2, <3>3
  <2> QED
    BY <2>1, <2>2, <2>3, <2>4 DEF RunsAreNumbered
<1>4. IdsAreFresh'
  <2> SUFFICES ASSUME NEW x \in Evaluator, eval'[x].pc \in {"rules", "delete", "upsert"}, NEW f \in Fingerprint
               PROVE  alerts'[f] # eval'[x].run /\ <<f, eval'[x].run>> \notin marks'
    BY DEF IdsAreFresh
  <2>1. CASE x = e
    <3>1. alerts[f] \in Nat /\ alerts[f] <= runs /\ runs \in Nat
      BY DEF IInv, TypeOK, RunsAreNumbered
    <3>2. <<f, runs + 1>> \notin marks
      BY <3>1 DEF IInv, TypeOK, RunsAreNumbered
    <3> QED
      BY <2>1, <3>1, <3>2, BeginSets
  <2>2. CASE x # e
    BY <2>2, BeginSets DEF IInv, IdsAreFresh
  <2> QED
    BY <2>1, <2>2
<1>5. LoneRunsAreExact'
  <2>1. ASSUME NEW x \in Evaluator, eval'[x].alone, Active(x)' PROVE x = e /\ \A y \in Evaluator : Active(y)' => y = e
    BY <1>2, <2>1, BeginSets
  <2> QED
    BY <2>1, BeginSets DEF LoneRunsAreExact
<1>6. ReadIsWhatUsersSaid'
  BY BeginSets DEF IInv, ReadIsWhatUsersSaid, Stored
<1>7. WhatHoldsIsFound'
  <2>1. \A f \in Fingerprint \ eval'[e].lapsed : \E r \in Enabled(eval'[e].config) :
          f \in Produced(r, data', eval'[e].config) /\ r \in eval'[e].todo
    BY BeginSets DEF Holding
  <2>2. eval'[e].pc = "rules"
    BY BeginSets
  <2> QED
    BY <2>1, <2>2, BeginSets DEF IInv, WhatHoldsIsFound
<1> QED
  BY <1>1, <1>3, <1>4, <1>5, <1>6, <1>7 DEF IInv

\* A rule that is read finds what holds by it then.
LEMMA ReadRuleKeeps ==
  ASSUME IInv, NEW e \in Evaluator, NEW q \in Rule, ReadRule(e, q)
  PROVE  IInv'
<1>1. /\ eval[e] \in Evaluation /\ eval[e].pc = "rules" /\ q \in eval[e].todo
      /\ UNCHANGED <<data, config, alerts, read, runs, view, marks>>
      /\ eval' = [eval EXCEPT ![e] = [eval[e] EXCEPT !.todo = @ \ {q},
                                                      !.found = @ \cup Produced(q, data, eval[e].config)]]
  BY DEF IInv, TypeOK, ReadRule
<1>2. /\ eval'[e].pc = "rules" /\ eval'[e].run = eval[e].run /\ eval'[e].config = eval[e].config
      /\ eval'[e].todo = eval[e].todo \ {q} /\ eval'[e].lapsed = eval[e].lapsed
      /\ eval'[e].found = eval[e].found \cup Produced(q, data, eval[e].config)
      /\ eval'[e].alone = eval[e].alone
  BY <1>1 DEF IInv, TypeOK, Evaluation
<1>3. \A x \in Evaluator \ {e} : eval'[x] = eval[x]
  BY <1>1 DEF IInv, TypeOK
<1>4. TypeOK'
  <2>1. Produced(q, data, eval[e].config) \subseteq Fingerprint
    BY <1>1, RulesAssumption DEF IInv, TypeOK, Evaluation, WhatHoldsIsFound
  <2>2. [eval[e] EXCEPT !.todo = @ \ {q}, !.found = @ \cup Produced(q, data, eval[e].config)] \in Evaluation
    BY <1>1, <2>1 DEF Evaluation
  <2> QED
    BY <1>1, <2>2 DEF IInv, TypeOK, Stored
<1>5. \A x \in Evaluator : Active(x)' = Active(x) /\ eval'[x].run = eval[x].run /\ eval'[x].pc = eval[x].pc
                           /\ eval'[x].alone = eval[x].alone
  BY <1>1, <1>2, <1>3 DEF Active
<1>6. RunsAreNumbered' /\ IdsAreFresh' /\ ReadIsWhatUsersSaid'
  <2>1. RunsAreNumbered'
    BY <1>1, <1>5 DEF IInv, RunsAreNumbered
  <2>2. IdsAreFresh' /\ ReadIsWhatUsersSaid'
    BY <1>1, <1>5 DEF IInv, IdsAreFresh, ReadIsWhatUsersSaid, Stored
  <2> QED
    BY <2>1, <2>2
<1>7. LoneRunsAreExact'
  BY <1>1, <1>2, <1>3, <1>5 DEF IInv, LoneRunsAreExact, Stored
<1>8. WhatHoldsIsFound'
  BY <1>1, <1>2, <1>3 DEF IInv, WhatHoldsIsFound
<1> QED
  BY <1>4, <1>6, <1>7, <1>8 DEF IInv

\* When every rule has been read, what was not found has lapsed.
LEMMA RulesDoneKeeps ==
  ASSUME IInv, NEW e \in Evaluator, RulesDone(e)
  PROVE  IInv'
<1>1. /\ eval[e] \in Evaluation /\ eval[e].pc = "rules" /\ eval[e].todo = {}
      /\ UNCHANGED <<data, config, alerts, read, runs, view, marks>>
      /\ eval' = [eval EXCEPT ![e] = [eval[e] EXCEPT !.pc = "delete"]]
  BY DEF IInv, TypeOK, RulesDone
<1>2. /\ eval'[e].pc = "delete" /\ eval'[e].run = eval[e].run /\ eval'[e].config = eval[e].config
      /\ eval'[e].todo = {} /\ eval'[e].lapsed = eval[e].lapsed
      /\ eval'[e].found = eval[e].found /\ eval'[e].alone = eval[e].alone
  BY <1>1 DEF IInv, TypeOK, Evaluation
<1>3. \A x \in Evaluator \ {e} : eval'[x] = eval[x]
  BY <1>1 DEF IInv, TypeOK
<1>4. TypeOK'
  <2>1. [eval[e] EXCEPT !.pc = "delete"] \in Evaluation
    BY <1>1 DEF Evaluation
  <2> QED
    BY <1>1, <2>1 DEF IInv, TypeOK, Stored
<1>5. \A x \in Evaluator : Active(x)' = Active(x) /\ eval'[x].run = eval[x].run
  BY <1>1, <1>2, <1>3 DEF Active
<1>6. RunsAreNumbered'
  BY <1>1, <1>5 DEF IInv, RunsAreNumbered
<1>7. IdsAreFresh' /\ ReadIsWhatUsersSaid'
  BY <1>1, <1>2, <1>3 DEF IInv, IdsAreFresh, ReadIsWhatUsersSaid, Stored
<1>8. LoneRunsAreExact'
  BY <1>1, <1>2, <1>3, <1>5 DEF IInv, LoneRunsAreExact, Stored
<1>9. WhatHoldsIsFound'
  BY <1>1, <1>2, <1>3 DEF IInv, WhatHoldsIsFound
<1> QED
  BY <1>4, <1>6, <1>7, <1>8, <1>9 DEF IInv

\* The first statement leaves what was found, and takes the marks of what goes with it.
LEMMA DeleteKeeps ==
  ASSUME IInv, NEW e \in Evaluator, DeleteStale(e)
  PROVE  IInv'
<1>1. /\ eval[e] \in Evaluation /\ eval[e].pc = "delete"
      /\ UNCHANGED <<data, config, runs, view, marks>>
      /\ alerts' = [f \in Fingerprint |-> IF f \in eval[e].found THEN alerts[f] ELSE 0]
      /\ read' = read \cap eval[e].found
      /\ eval' = [eval EXCEPT ![e] = [eval[e] EXCEPT !.pc = "upsert"]]
  BY DEF IInv, TypeOK, DeleteStale
<1>2. /\ eval'[e].pc = "upsert" /\ eval'[e].run = eval[e].run /\ eval'[e].found = eval[e].found
      /\ eval'[e].alone = eval[e].alone
  BY <1>1 DEF IInv, TypeOK, Evaluation
<1>3. \A x \in Evaluator \ {e} : eval'[x] = eval[x]
  BY <1>1 DEF IInv, TypeOK
<1>4. Stored' = Stored \cap eval[e].found
  BY <1>1 DEF Stored
<1>5. TypeOK'
  <2>1. [eval[e] EXCEPT !.pc = "upsert"] \in Evaluation
    BY <1>1 DEF Evaluation
  <2>2. alerts' \in [Fingerprint -> 0 .. MaxRuns]
    <3>1. MaxRuns \in Nat
      BY RulesAssumption
    <3> QED
      BY <1>1, <3>1 DEF IInv, TypeOK
  <2>3. read' \subseteq Stored'
    BY <1>1, <1>4 DEF IInv, TypeOK
  <2>4. eval' \in [Evaluator -> Evaluation]
    BY <1>1, <2>1 DEF IInv, TypeOK
  <2> QED
    BY <1>1, <2>2, <2>3, <2>4 DEF IInv, TypeOK
<1>6. \A x \in Evaluator : Active(x)' = Active(x) /\ eval'[x].run = eval[x].run
  BY <1>1, <1>2, <1>3 DEF Active
<1>7. \A f \in Fingerprint : alerts'[f] \in {alerts[f], 0}
  BY <1>1
<1>8. RunsAreNumbered'
  BY <1>1, <1>6, <1>7 DEF IInv, TypeOK, RunsAreNumbered
<1>9. IdsAreFresh'
  <2>1. \A x \in Evaluator : Active(x) => eval[x].run # 0
    BY DEF IInv, RunsAreNumbered
  <2>2. \A x \in Evaluator : eval'[x].pc \in {"rules", "delete", "upsert"} =>
          eval[x].pc \in {"rules", "delete", "upsert"} /\ Active(x)
    BY <1>1, <1>3 DEF Active
  <2> QED
    BY <1>1, <1>6, <1>7, <2>1, <2>2 DEF IInv, IdsAreFresh
<1>10. LoneRunsAreExact'
  BY <1>1, <1>2, <1>3, <1>4, <1>6 DEF IInv, LoneRunsAreExact, Active
<1>11. ReadIsWhatUsersSaid'
  BY <1>1, <1>4 DEF IInv, ReadIsWhatUsersSaid, Stored
<1>12. WhatHoldsIsFound'
  BY <1>1, <1>2, <1>3 DEF IInv, WhatHoldsIsFound
<1> QED
  BY <1>5, <1>8, <1>9, <1>10, <1>11, <1>12 DEF IInv

\* The second statement creates with an id nobody has marked.
LEMMA UpsertKeeps ==
  ASSUME IInv, NEW e \in Evaluator, UpsertAlerts(e)
  PROVE  IInv'
<1>1. /\ eval[e] \in Evaluation /\ eval[e].pc = "upsert"
      /\ UNCHANGED <<data, config, read, runs, view, marks>>
      /\ alerts' = [f \in Fingerprint |-> IF f \in eval[e].found /\ alerts[f] = 0 THEN eval[e].run ELSE alerts[f]]
      /\ eval' = [eval EXCEPT ![e] = [eval[e] EXCEPT !.pc = "count"]]
  BY DEF IInv, TypeOK, UpsertAlerts
<1>2. /\ eval'[e].pc = "count" /\ eval'[e].run = eval[e].run /\ eval'[e].found = eval[e].found
      /\ eval'[e].alone = eval[e].alone
  BY <1>1 DEF IInv, TypeOK, Evaluation
<1>3. \A x \in Evaluator \ {e} : eval'[x] = eval[x]
  BY <1>1 DEF IInv, TypeOK
<1>4. eval[e].run \in 1 .. MaxRuns /\ eval[e].run <= runs
  BY <1>1 DEF IInv, TypeOK, Evaluation, RunsAreNumbered, Active
<1>5. Stored' = Stored \cup eval[e].found
  BY <1>1, <1>4 DEF Stored, Evaluation
<1>6. TypeOK'
  <2>1. [eval[e] EXCEPT !.pc = "count"] \in Evaluation
    BY <1>1 DEF Evaluation
  <2>2. alerts' \in [Fingerprint -> 0 .. MaxRuns]
    BY <1>1, <1>4 DEF IInv, TypeOK
  <2> QED
    BY <1>1, <1>5, <2>1, <2>2 DEF IInv, TypeOK
<1>7. \A x \in Evaluator : Active(x)' = Active(x) /\ eval'[x].run = eval[x].run
  BY <1>1, <1>2, <1>3 DEF Active
<1>8. \A f \in Fingerprint : alerts'[f] \in {alerts[f], eval[e].run}
  BY <1>1
<1>9. RunsAreNumbered'
  BY <1>1, <1>4, <1>7, <1>8 DEF IInv, RunsAreNumbered
<1>10. IdsAreFresh'
  <2> SUFFICES ASSUME NEW x \in Evaluator, eval'[x].pc \in {"rules", "delete", "upsert"}, NEW f \in Fingerprint
               PROVE  alerts'[f] # eval'[x].run /\ <<f, eval'[x].run>> \notin marks'
    BY DEF IdsAreFresh
  <2>1. x # e /\ eval[x].pc = eval'[x].pc /\ Active(x) /\ Active(e)
    BY <1>1, <1>2, <1>3 DEF Active
  <2>2. eval[x].run # eval[e].run
    BY <2>1 DEF IInv, RunsAreNumbered
  <2> QED
    BY <1>1, <1>7, <1>8, <2>1, <2>2 DEF IInv, IdsAreFresh
<1>11. LoneRunsAreExact'
  BY <1>1, <1>2, <1>3, <1>5, <1>7 DEF IInv, LoneRunsAreExact, Active
<1>12. ReadIsWhatUsersSaid'
  <2> SUFFICES ASSUME NEW f \in Stored' PROVE f \in read' <=> <<f, alerts'[f]>> \in marks'
    BY DEF ReadIsWhatUsersSaid
  <2>1. f \in Fingerprint
    BY DEF Stored
  <2>2. CASE f \in Stored
    BY <1>1, <2>1, <2>2 DEF IInv, ReadIsWhatUsersSaid, Stored
  <2>3. CASE f \notin Stored
    <3>1. f \in eval[e].found /\ alerts[f] = 0
      BY <1>5, <2>1, <2>3 DEF Stored
    <3>2. alerts'[f] = eval[e].run
      BY <1>1, <2>1, <3>1
    <3>3. <<f, eval[e].run>> \notin marks
      BY <1>1, <2>1 DEF IInv, IdsAreFresh
    <3>4. f \notin read
      BY <2>3 DEF IInv, TypeOK
    <3> QED
      BY <1>1, <3>2, <3>3, <3>4
  <2> QED
    BY <2>2, <2>3
<1>13. WhatHoldsIsFound'
  BY <1>1, <1>2, <1>3 DEF IInv, WhatHoldsIsFound
<1> QED
  BY <1>6, <1>9, <1>10, <1>11, <1>12, <1>13 DEF IInv

\* An evaluation that ends, answered or failed, leaves what it did.
LEMMA EndKeeps ==
  ASSUME IInv, NEW e \in Evaluator, Count(e) \/ Fail(e)
  PROVE  IInv'
<1>1. /\ UNCHANGED <<data, config, alerts, read, runs, view, marks>>
      /\ eval' = [eval EXCEPT ![e] = NoRun]
  BY DEF Count, Fail
<1>2. NoRun \in Evaluation /\ NoRun.pc = "idle"
  BY RulesAssumption DEF NoRun, Evaluation
<1>3. eval'[e] = NoRun /\ \A x \in Evaluator \ {e} : eval'[x] = eval[x]
  BY <1>1 DEF IInv, TypeOK
<1>4. TypeOK'
  BY <1>1, <1>2 DEF IInv, TypeOK, Stored
<1>5. RunsAreNumbered' /\ IdsAreFresh' /\ ReadIsWhatUsersSaid'
  BY <1>1, <1>2, <1>3 DEF IInv, RunsAreNumbered, IdsAreFresh, ReadIsWhatUsersSaid, Active, Stored
<1>6. LoneRunsAreExact' /\ WhatHoldsIsFound'
  BY <1>1, <1>2, <1>3 DEF IInv, LoneRunsAreExact, WhatHoldsIsFound, Active, Stored
<1> QED
  BY <1>4, <1>5, <1>6 DEF IInv

\* The invariant is inductive.
LEMMA StepsKeep == IInv /\ [Next]_vars => IInv'
<1> SUFFICES ASSUME IInv, [Next]_vars PROVE IInv'
  OBVIOUS
<1>1. ASSUME NEW d \in Doc, Arrive(d) PROVE IInv'
  BY <1>1, ArriveKeeps
<1>2. CASE (\E c \in Config : SaveConfig(c)) \/ Refetch
  BY <1>2, SaveAndRefetchKeep
<1>3. CASE (\E x \in view, to \in BOOLEAN : Patch(x[1], x[2], to)) \/ MarkAllRead
  BY <1>3, MarksKeep
<1>4. ASSUME NEW e \in Evaluator,
             Begin(e) \/ (\E r \in Rule : ReadRule(e, r)) \/ RulesDone(e)
               \/ DeleteStale(e) \/ UpsertAlerts(e) \/ Count(e) \/ Fail(e)
      PROVE  IInv'
  BY <1>4, BeginKeeps, ReadRuleKeeps, RulesDoneKeeps, DeleteKeeps, UpsertKeeps, EndKeeps
<1>5. CASE UNCHANGED vars
  BY <1>5 DEF vars, IInv, TypeOK, RunsAreNumbered, IdsAreFresh, LoneRunsAreExact, ReadIsWhatUsersSaid,
              WhatHoldsIsFound, Active, Stored
<1> QED
  BY <1>1, <1>2, <1>3, <1>4, <1>5 DEF Next

-----------------------------------------------------------------------------
(* Theorems                                                                *)

\* IInv holds in every state of the store.
THEOREM AlertInvariance == Spec => []IInv
  BY Initially, StepsKeep, PTL DEF Spec

\* An evaluation that ran alone leaves exactly what its rules found (syncAlerts), whatever the
\* rules are, however many notas arrived and evaluations failed before.
THEOREM QuietIsExact == Spec => []QuietEvaluationIsExact
<1>1. IInv => QuietEvaluationIsExact
  BY DEF IInv, LoneRunsAreExact, QuietEvaluationIsExact, Active
<1> QED
  BY <1>1, AlertInvariance, PTL

\* Marks are neither lost nor carried over by any overlap of evaluations, deletions and
\* the birth of an alert again (alert.repository.ts:57-100).
THEOREM ReadIsAsSaid == Spec => []ReadIsWhatUsersSaid
<1>1. IInv => ReadIsWhatUsersSaid
  BY DEF IInv
<1> QED
  BY <1>1, AlertInvariance, PTL

\* No evaluation deletes an alert that held all along under the configuration it read.
THEOREM LapsedAreDeleted == Spec => OnlyLapsedAreDeleted
<1> DEFINE Deletes == \A f \in Stored : alerts'[f] # alerts[f] =>
                        \E e \in Evaluator : f \in eval[e].lapsed /\ eval[e].pc = "delete"
<1>1. IInv /\ [Next]_vars => [Deletes]_vars
  <2> SUFFICES ASSUME IInv, Next PROVE Deletes
    BY DEF vars
  <2> SUFFICES ASSUME NEW f \in Stored, alerts'[f] # alerts[f]
               PROVE  \E e \in Evaluator : f \in eval[e].lapsed /\ eval[e].pc = "delete"
    OBVIOUS
  <2>1. f \in Fingerprint /\ alerts[f] # 0
    BY DEF Stored
  <2>2. PICK e \in Evaluator : DeleteStale(e) \/ UpsertAlerts(e)
    BY DEF Next, Arrive, SaveConfig, Begin, ReadRule, RulesDone, Count, Fail, Refetch, Patch, MarkAllRead
  <2>3. ~UpsertAlerts(e)
    BY <2>1 DEF UpsertAlerts
  <2>4. eval[e].pc = "delete" /\ f \notin eval[e].found
    BY <2>1, <2>2, <2>3 DEF DeleteStale
  <2>5. f \in eval[e].lapsed
    BY <2>1, <2>4 DEF IInv, WhatHoldsIsFound
  <2> QED
    BY <2>4, <2>5
<1> QED
  BY <1>1, AlertInvariance, PTL DEF Spec, OnlyLapsedAreDeleted

-----------------------------------------------------------------------------
(* The issuers in the graph of some notas.                                   *)

Issued(d) == <<Invoice(Xml(d)).emitente.cnpj, Key(Xml(d))>>

\* The graph of some notas has the issuer of each, and of no other.
LEMMA IssuersAre ==
  ASSUME NEW ds \in SUBSET Doc, IsFiniteSet(ds)
  PROVE  GraphOfAll(ds).emitiu = {Issued(d) : d \in ds}
<1> DEFINE Pick(s) == CHOOSE x \in s : TRUE
           Table(f) == f = [s \in SUBSET ds |-> IF s = {} THEN EmptyGraph
                                               ELSE MergeDoc(f[s \ {Pick(s)}], Xml(Pick(s)))]
           h == CHOOSE f : Table(f)
           rows == [d \in ds |-> Xml(d)]
<1>1. \A f : IsTable(f, ds, "notas", EmptyGraph, 0, rows) <=> Table(f)
  <2> TAKE f
  <2>1. \A s \in SUBSET ds : s # {} => rows[Pick(s)] = Xml(Pick(s))
    OBVIOUS
  <2> HIDE DEF rows
  <2> QED BY <2>1 DEF IsTable, Folded, Taken
<1>2. Table(h)
  <2>1. \A u \in SUBSET ds : u # {} => Taken("notas", u) \in u
    BY DEF Taken
  <2>2. PICK f : IsTable(f, ds, "notas", EmptyGraph, 0, rows)
    <3> HIDE DEF rows
    <3> QED BY <2>1, FoldTable
  <2>3. Table(f)
    BY <1>1, <2>2
  <2> HIDE DEF Table
  <2> QED BY <2>3
<1>3. h[ds] = GraphOf(ds)
  BY <1>2 DEF GraphOf, FoldSet, MapThenFoldSet, MergeDoc, Invoice
<1>4. IsTable(h, ds, "notas", EmptyGraph, 0, rows)
  <2> HIDE DEF h, Table, rows
  <2> QED BY <1>1, <1>2
<1> HIDE DEF h
<1>5. {rows[d] : d \in ds} = {Xml(d) : d \in ds}
  OBVIOUS
<1>6. AreNotas({rows[d] : d \in ds})
  <2>1. {Xml(d) : d \in ds} \in SUBSET {Xml(d) : d \in Doc}
    OBVIOUS
  <2> QED BY <1>5, <2>1, NotasAssumption DEF AreNotas
<1>7. Holds(GraphOf(ds), {Xml(d) : d \in ds})
  <2>1. Holds(h[ds], {rows[d] : d \in ds})
    <3> HIDE DEF rows
    <3> QED BY <1>4, <1>6, UnionHolds
  <2> QED BY <1>3, <1>5, <2>1
<1>8. GraphOf(ds).emitiu = {Issued(d) : d \in ds}
  <2>1. GraphOf(ds).emitiu = {<<Invoice(x).emitente.cnpj, Key(x)>> : x \in {Xml(d) : d \in ds}}
    BY <1>7 DEF Holds
  <2> QED BY <2>1 DEF Issued
<1>9. GraphOfAll(ds) = GraphOf(ds)
  <2> DEFINE t == CHOOSE t \in GraphTable : t[1] = ds
  <2>1. <<ds, GraphOf(ds)>> \in GraphTable
    BY DEF GraphTable
  <2>2. t \in GraphTable /\ t[1] = ds
    BY <2>1
  <2>3. GraphOfAll(ds) = t[2]
    BY DEF GraphOfAll
  <2> HIDE DEF t
  <2>4. t = <<ds, GraphOf(ds)>>
    BY <2>2 DEF GraphTable
  <2> QED BY <2>3, <2>4
<1> QED
  BY <1>8, <1>9

-----------------------------------------------------------------------------
(* The alerts of an evaluation.                                              *)

\* The kind of the alerts of each rule, with which their fingerprints begin.
KindOf == [highValue |-> "high_value", supplierConcentration |-> "supplier_concentration",
           volumeSpike |-> "volume_spike", zeroTax |-> "zero_tax", duplicate |-> "duplicate",
           numberingGap |-> "numbering_gap"]

\* Every nota of the graph was issued by one company.
OneIssuer(g) == /\ \A e \in g.emitiu : e = <<e[1], e[2]>>
                /\ \A e, f \in g.emitiu : e[2] = f[2] => e = f

\* What the alerts of a rule look like: of a large nota and of one without taxes;
Grave(r) == IF r = "zeroTax" THEN "info" ELSE "warning"
OfNota(g, r, a) == \E e \in g.emitiu : a = MakeAlert(Grave(r), <<KindOf[r], e[2]>>, {e[2]}, e[1])
\* of an issuer, of the volume and of a gap;
OfIssuer(r, a) == \E c : a = MakeAlert("warning", <<KindOf[r], c>>, {}, c)
OfVolume(r, a) == \E way : a = MakeAlert("info", <<KindOf[r], way>>, {}, "")
OfGap(r, a) == \E x : a = MakeAlert("warning", <<KindOf[r], x.serie, x.from, x.to>>, {}, x.serie[1])
\* of a group of duplicates, which is not empty, and each of whose notas has its issuer.
OfGroup(g, a) ==
  \E e \in g.emitiu : \E chaves :
     /\ a = MakeAlert("critical", <<"duplicate", chaves>>, chaves, e[1])
     /\ chaves # {}
     /\ \A k \in chaves : \E x \in g.emitiu : x[1] = e[1] /\ x[2] = k
\* The rules of the large notas and of those without taxes make an alert of each.
LEMMA NotaAlerts ==
  ASSUME NEW g, NEW settings, NEW r \in {"highValue", "zeroTax"}, NEW a \in EvaluateRule(r, g, settings)
  PROVE  OfNota(g, r, a)
<1> DEFINE Large == TopBy(LAMBDA e : Valor(g, e[2]),
                          {e \in ActiveIssued(g) : Valor(g, e[2]) >= settings.highValue.threshold}, PerRuleLimit)
           Bare == TopBy(LAMBDA e : Valor(g, e[2]),
                         {e \in ActiveIssued(g) : /\ g.nf[e[2]].status = "ativa"
                                                  /\ Valor(g, e[2]) > 0
                                                  /\ TotalOf(g, e[2], "vICMS") = 0
                                                  /\ TotalOf(g, e[2], "vIBS") = 0}, PerRuleLimit)
<1>1. Large \in SUBSET g.emitiu /\ Bare \in SUBSET g.emitiu
  BY DEF TopBy, ActiveIssued
<1>2. RuleHighValue(g, settings.highValue.threshold, PerRuleLimit)
        = {MakeAlert("warning", <<"high_value", e[2]>>, {e[2]}, e[1]) : e \in Large}
  BY DEF RuleHighValue
<1>3. RuleZeroTax(g, PerRuleLimit)
        = {MakeAlert("info", <<"zero_tax", e[2]>>, {e[2]}, e[1]) : e \in Bare}
  BY DEF RuleZeroTax
<1> HIDE DEF Large, Bare
<1>4. CASE r = "highValue"
  <2>1. EvaluateRule(r, g, settings) = RuleHighValue(g, settings.highValue.threshold, PerRuleLimit)
    BY <1>4 DEF EvaluateRule
  <2>2. KindOf[r] = "high_value" /\ Grave(r) = "warning"
    BY <1>4 DEF KindOf, Grave
  <2> QED BY <1>1, <1>2, <1>4, <2>1, <2>2 DEF MakeAlert, OfNota
<1>5. CASE r = "zeroTax"
  <2>1. EvaluateRule(r, g, settings) = RuleZeroTax(g, PerRuleLimit)
    BY <1>5 DEF EvaluateRule
  <2>2. KindOf[r] = "zero_tax" /\ Grave(r) = "info"
    BY <1>5 DEF KindOf, Grave
  <2> QED BY <1>1, <1>3, <1>5, <2>1, <2>2 DEF MakeAlert, OfNota
<1> QED
  BY <1>4, <1>5

\* The fingerprint of these has all that the alert has.
LEMMA OtherAlerts ==
  ASSUME NEW g, NEW settings, NEW r \in {"supplierConcentration", "volumeSpike", "numberingGap"},
         NEW a \in EvaluateRule(r, g, settings)
  PROVE  /\ r = "supplierConcentration" => OfIssuer(r, a)
         /\ r = "volumeSpike" => OfVolume(r, a)
         /\ r = "numberingGap" => OfGap(r, a)
<1>1. CASE r = "supplierConcentration"
  <2> DEFINE t == settings.supplierConcentration.threshold
  <2>1. EvaluateRule(r, g, settings) = RuleSupplierConcentration(g, t) /\ KindOf[r] = "supplier_concentration"
    BY <1>1 DEF EvaluateRule, KindOf
  <2> HIDE DEF t
  <2>2. \A b \in RuleSupplierConcentration(g, t) :
          \E c : b = MakeAlert("warning", <<"supplier_concentration", c>>, {}, c)
    BY DEF RuleSupplierConcentration
  <2> QED BY <1>1, <2>1, <2>2 DEF OfIssuer
<1>2. CASE r = "volumeSpike"
  <2> DEFINE t == settings.volumeSpike.threshold
  <2>1. EvaluateRule(r, g, settings) = RuleVolumeSpike(g, t) /\ KindOf[r] = "volume_spike"
    BY <1>2 DEF EvaluateRule, KindOf
  <2> HIDE DEF t
  <2>2. \A b \in RuleVolumeSpike(g, t) : \E way : b = MakeAlert("info", <<"volume_spike", way>>, {}, "")
    BY DEF RuleVolumeSpike
  <2> QED BY <1>2, <2>1, <2>2 DEF OfVolume
<1>3. CASE r = "numberingGap"
  <2>1. EvaluateRule(r, g, settings) = RuleNumberingGaps(g, PerRuleLimit) /\ KindOf[r] = "numbering_gap"
    BY <1>3 DEF EvaluateRule, KindOf
  <2>2. \A b \in RuleNumberingGaps(g, PerRuleLimit) :
          \E x : b = MakeAlert("warning", <<"numbering_gap", x.serie, x.from, x.to>>, {}, x.serie[1])
    BY DEF RuleNumberingGaps
  <2> QED BY <1>3, <2>1, <2>2 DEF OfGap
<1> QED
  BY <1>1, <1>2, <1>3

\* A group of duplicates has the nota it was made of, and notas of its issuer only.
LEMMA DuplicateAlerts ==
  ASSUME NEW g, NEW settings, NEW a \in EvaluateRule("duplicate", g, settings)
  PROVE  OfGroup(g, a)
<1> DEFINE issued == {e \in g.emitiu : ActiveNF(g, e[2])}
           same(e) == {<<e[1], DayOf(g.nf[e[2]].dataEmissao), g.nf[e[2]].valorTotal>>}
           chaves(e) == {x[2] : x \in {x \in issued : same(x) = same(e)}}
           group(e) == [emitente |-> e[1], valorTotal |-> g.nf[e[2]].valorTotal, chaves |-> chaves(e)]
<1>1. \A d \in DuplicateGroups(g, PerRuleLimit) : \E e \in issued : d = group(e)
  <2> HIDE DEF chaves
  <2>1. DuplicateGroups(g, PerRuleLimit)
          \in SUBSET {d \in {group(e) : e \in issued} : Cardinality(d.chaves) >= 2}
    BY DEF DuplicateGroups, TopBy, chaves
  <2> QED BY <2>1
<1>2. EvaluateRule("duplicate", g, settings) = RuleDuplicates(g, PerRuleLimit)
  BY DEF EvaluateRule
<1>3. PICK e \in issued : a = MakeAlert("critical", <<"duplicate", chaves(e)>>, chaves(e), e[1])
  <2>1. PICK d \in DuplicateGroups(g, PerRuleLimit) :
          a = MakeAlert("critical", <<"duplicate", d.chaves>>, d.chaves, d.emitente)
    BY <1>2 DEF RuleDuplicates
  <2>2. PICK e \in issued : d = group(e)
    BY <1>1
  <2>3. d.chaves = chaves(e) /\ d.emitente = e[1]
    <3> HIDE DEF chaves
    <3> QED BY <2>2
  <2> HIDE DEF chaves, group
  <2> QED BY <2>1, <2>3
<1>4. e[2] \in chaves(e)
  OBVIOUS
<1>5. \A k \in chaves(e) : \E x \in g.emitiu : x[1] = e[1] /\ x[2] = k
  <2> SUFFICES ASSUME NEW x \in issued, same(x) = same(e) PROVE x[1] = e[1]
    OBVIOUS
  <2>1. <<x[1], DayOf(g.nf[x[2]].dataEmissao), g.nf[x[2]].valorTotal>>
          = <<e[1], DayOf(g.nf[e[2]].dataEmissao), g.nf[e[2]].valorTotal>>
    OBVIOUS
  <2> QED BY <2>1
<1> HIDE DEF chaves
<1> QED
  BY <1>3, <1>4, <1>5 DEF OfGroup

\* So two alerts of one rule with one fingerprint are one.
LEMMA RuleTellsApart ==
  ASSUME NEW g, OneIssuer(g), NEW settings, NEW r \in RuleNames,
         NEW a \in EvaluateRule(r, g, settings), NEW b \in EvaluateRule(r, g, settings),
         a.fingerprint = b.fingerprint
  PROVE  a = b
<1>1. CASE r \in {"highValue", "zeroTax"}
  <2>0. OfNota(g, r, a) /\ OfNota(g, r, b)
    BY <1>1, NotaAlerts
  <2>1. PICK e \in g.emitiu : a = MakeAlert(Grave(r), <<KindOf[r], e[2]>>, {e[2]}, e[1])
    BY <2>0 DEF OfNota
  <2>2. PICK f \in g.emitiu : b = MakeAlert(Grave(r), <<KindOf[r], f[2]>>, {f[2]}, f[1])
    BY <2>0 DEF OfNota
  <2>3. e[2] = f[2]
    BY <2>1, <2>2 DEF MakeAlert
  <2> QED BY <2>1, <2>2, <2>3 DEF OneIssuer
<1>2. CASE r = "supplierConcentration"
  <2>0. OfIssuer(r, a) /\ OfIssuer(r, b)
    BY <1>2, OtherAlerts
  <2>1. PICK c : a = MakeAlert("warning", <<KindOf[r], c>>, {}, c)
    BY <2>0 DEF OfIssuer
  <2>2. PICK d : b = MakeAlert("warning", <<KindOf[r], d>>, {}, d)
    BY <2>0 DEF OfIssuer
  <2> QED BY <2>1, <2>2 DEF MakeAlert
<1>3. CASE r = "volumeSpike"
  <2>0. OfVolume(r, a) /\ OfVolume(r, b)
    BY <1>3, OtherAlerts
  <2>1. PICK c : a = MakeAlert("info", <<KindOf[r], c>>, {}, "")
    BY <2>0 DEF OfVolume
  <2>2. PICK d : b = MakeAlert("info", <<KindOf[r], d>>, {}, "")
    BY <2>0 DEF OfVolume
  <2> QED BY <2>1, <2>2 DEF MakeAlert
<1>4. CASE r = "numberingGap"
  <2>0. OfGap(r, a) /\ OfGap(r, b)
    BY <1>4, OtherAlerts
  <2>1. PICK x : a = MakeAlert("warning", <<KindOf[r], x.serie, x.from, x.to>>, {}, x.serie[1])
    BY <2>0 DEF OfGap
  <2>2. PICK y : b = MakeAlert("warning", <<KindOf[r], y.serie, y.from, y.to>>, {}, y.serie[1])
    BY <2>0 DEF OfGap
  <2> QED BY <2>1, <2>2 DEF MakeAlert
<1>5. CASE r = "duplicate"
  <2>0. OfGroup(g, a) /\ OfGroup(g, b)
    BY <1>5, DuplicateAlerts
  <2>1. PICK e \in g.emitiu : \E c :
          /\ a = MakeAlert("critical", <<"duplicate", c>>, c, e[1])
          /\ c # {}
          /\ \A k \in c : \E x \in g.emitiu : x[1] = e[1] /\ x[2] = k
    BY <2>0 DEF OfGroup
  <2>2. PICK f \in g.emitiu : \E d :
          /\ b = MakeAlert("critical", <<"duplicate", d>>, d, f[1])
          /\ d # {}
          /\ \A k \in d : \E x \in g.emitiu : x[1] = f[1] /\ x[2] = k
    BY <2>0 DEF OfGroup
  <2>3. a.chaves = b.chaves /\ \E k : k \in a.chaves
    BY <2>1, <2>2 DEF MakeAlert
  <2>4. PICK x \in g.emitiu : x[1] = e[1] /\ x[2] \in a.chaves
    BY <2>1, <2>3 DEF MakeAlert
  <2>5. PICK y \in g.emitiu : y[1] = f[1] /\ y[2] = x[2]
    BY <2>2, <2>3, <2>4 DEF MakeAlert
  <2>6. e[1] = f[1]
    BY <2>4, <2>5 DEF OneIssuer
  <2> QED BY <2>1, <2>2, <2>6 DEF MakeAlert
<1> QED
  BY <1>1, <1>2, <1>3, <1>4, <1>5 DEF RuleNames

\* And alerts of two rules have two fingerprints, which begin with the kinds of the rules.
LEMMA RuleHasKind ==
  ASSUME NEW g, NEW settings, NEW r \in RuleNames, NEW a \in EvaluateRule(r, g, settings)
  PROVE  a.fingerprint[1] = KindOf[r]
<1>1. CASE r \in {"highValue", "zeroTax"}
  <2>1. OfNota(g, r, a)
    BY <1>1, NotaAlerts
  <2> QED BY <2>1 DEF OfNota, MakeAlert
<1>2. CASE r = "supplierConcentration"
  <2>1. OfIssuer(r, a)
    BY <1>2, OtherAlerts
  <2> QED BY <2>1 DEF OfIssuer, MakeAlert
<1>3. CASE r = "volumeSpike"
  <2>1. OfVolume(r, a)
    BY <1>3, OtherAlerts
  <2>2. PICK way : a = MakeAlert("info", <<KindOf[r], way>>, {}, "")
    BY <2>1 DEF OfVolume
  <2>3. a.fingerprint = <<KindOf[r], way>>
    BY <2>2 DEF MakeAlert
  <2> QED BY <2>3
<1>4. CASE r = "numberingGap"
  <2>1. OfGap(r, a)
    BY <1>4, OtherAlerts
  <2> QED BY <2>1 DEF OfGap, MakeAlert
<1>5. CASE r = "duplicate"
  <2>1. OfGroup(g, a) /\ KindOf[r] = "duplicate"
    BY <1>5, DuplicateAlerts DEF KindOf
  <2>2. PICK e \in g.emitiu : \E c : a = MakeAlert("critical", <<"duplicate", c>>, c, e[1])
    BY <2>1 DEF OfGroup
  <2>3. PICK c : a = MakeAlert("critical", <<"duplicate", c>>, c, e[1])
    BY <2>2
  <2>4. a.fingerprint = <<"duplicate", c>>
    BY <2>3 DEF MakeAlert
  <2> QED BY <2>1, <2>4
<1> QED
  BY <1>1, <1>2, <1>3, <1>4, <1>5 DEF RuleNames

\* No two rules have one kind.
LEMMA KindsDiffer == \A r, q \in RuleNames : KindOf[r] = KindOf[q] => r = q
BY DEF RuleNames, KindOf

\* However many notas arrive, they are finitely many.
LEMMA DataIsFinite == Spec => []IsFiniteSet(data)
<1>1. Init => IsFiniteSet(data)
  BY NotasAssumption DEF Init
<1>2. IsFiniteSet(data) /\ [Next]_vars => IsFiniteSet(data)'
  <2> SUFFICES ASSUME IsFiniteSet(data), [Next]_vars PROVE IsFiniteSet(data')
    OBVIOUS
  <2>1. CASE UNCHANGED data
    BY <2>1
  <2>2. ASSUME NEW d \in Doc, Arrive(d) PROVE IsFiniteSet(data')
    BY <2>2, FS_AddElement DEF Arrive
  <2> QED
    BY <2>1, <2>2 DEF Next, SaveConfig, Begin, ReadRule, RulesDone, DeleteStale, UpsertAlerts, Count,
                      Fail, Refetch, Patch, MarkAllRead, vars
<1> QED
  BY <1>1, <1>2, PTL DEF Spec

\* No evaluation finds two alerts with one fingerprint, of which the upsert would keep one.
THEOREM FingerprintsApart == Spec => []FingerprintsTellAlertsApart
<1>1. IInv /\ IsFiniteSet(data) => FingerprintsTellAlertsApart
  <2> SUFFICES ASSUME IInv, IsFiniteSet(data) PROVE FingerprintsTellAlertsApart
    OBVIOUS
  <2> DEFINE g == GraphOfAll(data)
             settings == Settings(config)
  <2>1. g.emitiu = {Issued(d) : d \in data} /\ data \in SUBSET Doc
    BY IssuersAre DEF IInv, TypeOK
  <2>2. OneIssuer(g)
    <3>1. \A d, e \in Doc : Key(Xml(d)) = Key(Xml(e)) => Invoice(Xml(d)) = Invoice(Xml(e))
      BY NotasAssumption DEF AreNotas
    <3> QED BY <2>1, <3>1 DEF OneIssuer, Issued
  <2> SUFFICES ASSUME NEW a \in EvaluateAlerts(g, config), NEW b \in EvaluateAlerts(g, config),
                      a.fingerprint = b.fingerprint
               PROVE  a = b
    BY DEF FingerprintsTellAlertsApart
  <2> HIDE DEF g
  <2>3. PICK r \in RuleNames : a \in EvaluateRule(r, g, settings)
    BY DEF EvaluateAlerts, RulesOf, EnabledRules
  <2>4. PICK q \in RuleNames : b \in EvaluateRule(q, g, settings)
    BY DEF EvaluateAlerts, RulesOf, EnabledRules
  <2> HIDE DEF settings
  <2>5. KindOf[r] = KindOf[q]
    BY <2>2, <2>3, <2>4, RuleHasKind
  <2>6. r = q
    BY <2>5, KindsDiffer
  <2> QED
    BY <2>2, <2>3, <2>4, <2>6, RuleTellsApart
<1> QED
  BY <1>1, AlertInvariance, DataIsFinite, PTL
=============================================================================
