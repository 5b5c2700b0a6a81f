---------------------------- MODULE AlertStore ----------------------------
(* The stored alerts: packages/graph alert.repository.ts, the /alerts routes of
   packages/api and the notification center of packages/dashboard.

   An evaluation is a chain of statements with no transaction around it: it
   reads the configuration, each enabled rule reads the graph in a session of
   its own, and syncAlerts deletes, upserts and counts.  Notas arrive, users
   mark alerts and the configuration is saved between any two of them, and two
   evaluations may run at once.  What a rule finds is a parameter here.        *)
EXTENDS Naturals, FiniteSets

CONSTANTS
    Doc,                \* the notas that may be merged
    Before,             \* those that were before the first evaluation
    Config,             \* the configurations that may be saved
    DefaultConfig,
    Rule,
    Fingerprint,        \* the identities of alerts
    Enabled(_),         \* the rules a configuration runs
    Produced(_, _, _),  \* what a rule finds in the graph of some notas under a configuration
    Evaluator,          \* evaluation requests in flight at once
    MaxRuns             \* bound: evaluations in all

ASSUME RulesAssumption ==
    /\ Before \subseteq Doc
    /\ DefaultConfig \in Config
    /\ \A c \in Config : Enabled(c) \subseteq Rule
    /\ \A r \in Rule, d \in SUBSET Doc, c \in Config :
           Before \subseteq d => Produced(r, d, c) \subseteq Fingerprint
    \* A fingerprint begins with the kind of its rule.
    /\ \A q, r \in Rule, d, x \in SUBSET Doc, c \in Config :
           /\ q # r /\ Before \subseteq d /\ Before \subseteq x
           => Produced(q, d, c) \cap Produced(r, x, c) = {}
    /\ MaxRuns \in Nat

VARIABLES
    data,      \* the notas in the graph
    config,    \* the AlertConfig node
    alerts,    \* fingerprint -> the evaluation that created the alert (its id), 0 where there is none
    read,      \* the alerts whose read flag is set
    eval,      \* the evaluations
    runs,      \* counts the evaluations that began
    view,      \* what the notification center shows: the alerts, and the ids they had
    marks      \* history: the ids whose last mark by a user is "read"

vars == <<data, config, alerts, read, eval, runs, view, marks>>

NoRun == [pc |-> "idle", run |-> 0, config |-> DefaultConfig, todo |-> {}, found |-> {},
          lapsed |-> {}, alone |-> TRUE]
Active(e) == eval[e].pc # "idle"
Stored == {f \in Fingerprint : alerts[f] # 0}

\* What every enabled rule would find now.
Holding(d, c) == UNION {Produced(r, d, c) : r \in Enabled(c)}

Evaluation == [pc : {"idle", "rules", "delete", "upsert", "count"}, run : 0 .. MaxRuns,
               config : Config, todo : SUBSET Rule, found : SUBSET Fingerprint,
               lapsed : SUBSET Fingerprint, alone : BOOLEAN]
TypeOK ==
    /\ data \subseteq Doc
    /\ config \in Config
    /\ alerts \in [Fingerprint -> 0 .. MaxRuns]
    /\ read \subseteq Stored
    /\ eval \in [Evaluator -> Evaluation]
    /\ runs \in 0 .. MaxRuns
    /\ view \subseteq Fingerprint \X (0 .. MaxRuns)
    /\ marks \subseteq Fingerprint \X (0 .. MaxRuns)

Init ==
    /\ data = Before
    /\ config = DefaultConfig
    /\ alerts = [f \in Fingerprint |-> 0]
    /\ read = {}
    /\ eval = [e \in Evaluator |-> NoRun]
    /\ runs = 0
    /\ view = {}
    /\ marks = {}

\* History kept for the properties: what stopped holding while an evaluation ran, under the
\* configuration it runs.
Lapse(d) == [e \in Evaluator |->
    IF Active(e) THEN [eval[e] EXCEPT !.lapsed = @ \cup (Fingerprint \ Holding(d, eval[e].config))] ELSE eval[e]]

-----------------------------------------------------------------------------
\* The worker merges a nota.
Arrive(d) ==
    /\ d \notin data
    /\ data' = data \cup {d}
    /\ eval' = Lapse(data')
    /\ UNCHANGED <<config, alerts, read, runs, view, marks>>

\* PUT /alerts/config: the body merged over the defaults replaces what was stored.
SaveConfig(c) ==
    /\ config' = c
    /\ UNCHANGED <<data, alerts, read, eval, runs, view, marks>>

\* POST /alerts/evaluate: getAlertConfig.
Begin(e) ==
    /\ eval[e].pc = "idle"
    /\ runs < MaxRuns
    /\ runs' = runs + 1
    /\ LET others == \E x \in Evaluator : Active(x) IN
       eval' = [x \in Evaluator |->
                   IF x = e THEN [pc |-> "rules", run |-> runs + 1, config |-> config,
                                  todo |-> Enabled(config), found |-> {},
                                  lapsed |-> Fingerprint \ Holding(data, config), alone |-> ~others]
                   ELSE [eval[x] EXCEPT !.alone = FALSE]]
    /\ UNCHANGED <<data, config, alerts, read, view, marks>>

\* Mutant of ReadRule: a rule replaces what the others found.
ReadRuleAlone(e, r) ==
    /\ eval[e].pc = "rules"
    /\ r \in eval[e].todo
    /\ eval' = [eval EXCEPT ![e].todo = @ \ {r}, ![e].found = Produced(r, data, eval[e].config)]
    /\ UNCHANGED <<data, config, alerts, read, runs, view, marks>>
\* evaluateAlerts: the rules run side by side, each reads what the graph holds then.
ReadRule(e, r) ==
    /\ eval[e].pc = "rules"
    /\ r \in eval[e].todo
    /\ eval' = [eval EXCEPT ![e].todo = @ \ {r}, ![e].found = @ \cup Produced(r, data, eval[e].config)]
    /\ UNCHANGED <<data, config, alerts, read, runs, view, marks>>

\* Promise.all.
RulesDone(e) ==
    /\ eval[e].pc = "rules"
    /\ eval[e].todo = {}
    /\ eval' = [eval EXCEPT ![e].pc = "delete"]
    /\ UNCHANGED <<data, config, alerts, read, runs, view, marks>>

\* Mutant of DeleteStale: an alert somebody has read is kept.
DeleteUnread(e) ==
    /\ eval[e].pc = "delete"
    /\ alerts' = [f \in Fingerprint |-> IF f \in eval[e].found \cup read THEN alerts[f] ELSE 0]
    /\ eval' = [eval EXCEPT ![e].pc = "upsert"]
    /\ UNCHANGED <<data, config, read, runs, view, marks>>
\* syncAlerts, first statement: what the rules no longer find goes.
DeleteStale(e) ==
    /\ eval[e].pc = "delete"
    /\ alerts' = [f \in Fingerprint |-> IF f \in eval[e].found THEN alerts[f] ELSE 0]
    /\ read' = read \cap eval[e].found
    /\ eval' = [eval EXCEPT ![e].pc = "upsert"]
    /\ UNCHANGED <<data, config, runs, view, marks>>

\* Mutant of UpsertAlerts: an alert that is found again is unread again.
UpsertAlertsUnread(e) ==
    /\ eval[e].pc = "upsert"
    /\ alerts' = [f \in Fingerprint |-> IF f \in eval[e].found /\ alerts[f] = 0
                                        THEN eval[e].run ELSE alerts[f]]
    /\ read' = read \ eval[e].found
    /\ eval' = [eval EXCEPT ![e].pc = "count"]
    /\ UNCHANGED <<data, config, runs, view, marks>>
\* Second statement: a new alert gets its id and is unread, a known one keeps both.
UpsertAlerts(e) ==
    /\ eval[e].pc = "upsert"
    /\ alerts' = [f \in Fingerprint |-> IF f \in eval[e].found /\ alerts[f] = 0
                                        THEN eval[e].run ELSE alerts[f]]
    /\ eval' = [eval EXCEPT ![e].pc = "count"]
    /\ UNCHANGED <<data, config, read, runs, view, marks>>

\* Third statement, and the answer with the two numbers.
Count(e) ==
    /\ eval[e].pc = "count"
    /\ eval' = [eval EXCEPT ![e] = NoRun]
    /\ UNCHANGED <<data, config, alerts, read, runs, view, marks>>

\* A statement fails: the request is answered 500 and what was done stays done.
Fail(e) ==
    /\ Active(e)
    /\ eval' = [eval EXCEPT ![e] = NoRun]
    /\ UNCHANGED <<data, config, alerts, read, runs, view, marks>>

-----------------------------------------------------------------------------
\* GET /alerts and GET /alerts/count, which the bell shows.
ListAlerts == {<<f, alerts[f]>> : f \in Stored}
CountUnread == Cardinality(Stored \ read)

\* The center fetches its list, also after each of its own mutations.
Refetch ==
    /\ view' = ListAlerts
    /\ UNCHANGED <<data, config, alerts, read, eval, runs, marks>>

\* markAlertRead: by id; an alert that was deleted meanwhile is a 404.
MarkAlertRead(f, id, to) ==
    /\ read' = IF alerts[f] # id THEN read ELSE IF to THEN read \cup {f} ELSE read \ {f}
    /\ marks' = IF alerts[f] # id THEN marks ELSE IF to THEN marks \cup {<<f, id>>} ELSE marks \ {<<f, id>>}

\* PATCH /alerts/:id for an alert the center shows: the pointer passed over it.
Patch(f, id, to) ==
    /\ <<f, id>> \in view
    /\ MarkAlertRead(f, id, to)
    /\ view' = IF alerts[f] = id THEN ListAlerts ELSE view     \* refetched on success only
    /\ UNCHANGED <<data, config, alerts, eval, runs>>

\* POST /alerts/read-all.
MarkAllRead ==
    /\ CountUnread > 0
    /\ read' = Stored
    /\ marks' = marks \cup ListAlerts
    /\ view' = ListAlerts
    /\ UNCHANGED <<data, config, alerts, eval, runs>>

Next ==
    \/ \E d \in Doc : Arrive(d)
    \/ \E c \in Config : SaveConfig(c)
    \/ \E e \in Evaluator : \/ Begin(e) \/ (\E r \in Rule : ReadRule(e, r)) \/ RulesDone(e)
                            \/ DeleteStale(e) \/ UpsertAlerts(e) \/ Count(e) \/ Fail(e)
    \/ Refetch
    \/ \E x \in view, to \in BOOLEAN : Patch(x[1], x[2], to)
    \/ MarkAllRead

Spec == Init /\ [][Next]_vars

-----------------------------------------------------------------------------
\* syncAlerts returns the number of alerts it leaves: an evaluation that ran alone leaves
\* exactly what its rules found, so "evaluated" and "stored" of its answer are equal,
\* whatever users did to the alerts and however often evaluations failed before.
QuietEvaluationIsExact ==
    \A e \in Evaluator : eval[e].pc = "count" /\ eval[e].alone => Stored = eval[e].found

\* "preserving the read/unread state": an alert is shown read exactly when the last thing a user
\* said of this very alert is that it is read; an evaluation, a deletion and the birth of the
\* alert again under the same fingerprint never carry a mark over or lose one.
ReadIsWhatUsersSaid ==
    \A f \in Stored : f \in read <=> <<f, alerts[f]>> \in marks

\* "Fingerprints that are no longer produced are deleted": an evaluation only deletes an alert
\* that at some moment of its run did not hold under the configuration it read; one that holds
\* from its first statement on survives it, with its id, even when notas arrive between the
\* rules or two evaluations overlap.  (One that began before the alert held may delete it.)
OnlyLapsedAreDeleted ==
    [][\A f \in Stored : alerts'[f] # alerts[f] =>
           \E e \in Evaluator : f \in eval[e].lapsed /\ eval[e].pc = "delete"]_vars
=============================================================================
