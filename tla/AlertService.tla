--------------------------- MODULE AlertService ---------------------------
(* The stored alerts over the rules of the engine: AlertStore, with what the
   rules find in the graph that the documents merged so far make.             *)
EXTENDS AlertStore, AlertRules

CONSTANTS
    Xml(_),      \* the document of a nota
    Body(_)      \* the body that was saved as a configuration

\* There are finitely many notas at first, and the documents are those of notas.
ASSUME NotasAssumption == IsFiniteSet(Before) /\ AreNotas({Xml(d) : d \in Doc})

\* The graph of a set of notas: merges commute but for what no rule reads.
GraphOf(ds) == FoldSet(LAMBDA d, g : MergeInvoice(g, ParseNFe(Xml(d), 0), Xml(d).root, 0), EmptyGraph, ds)
GraphTable == {<<ds, GraphOf(ds)>> : ds \in SUBSET Doc}
GraphOfAll(ds) == (CHOOSE t \in GraphTable : t[1] = ds)[2]

\* What an evaluation reads of a saved configuration.
Settings(c) == MergeAlertConfig(Body(c))
RulesOf(c) == EnabledRules(Settings(c))

\* What the store keeps of a rule's alerts, computed once for every set of notas.
FindsTable == {<<r, t[1], c, {a.fingerprint : a \in EvaluateRule(r, t[2], Settings(c))}>> :
                  r \in Rule, t \in GraphTable, c \in Config}
Finds(r, ds, c) == (CHOOSE t \in FindsTable : t[2] = ds /\ t[1] = r /\ t[3] = c)[4]

\* evaluateAlerts on one graph.
EvaluateAlerts(g, c) == UNION {EvaluateRule(r, g, Settings(c)) : r \in RulesOf(c)}

\* Two alerts of an evaluation never share a fingerprint, or the upsert would merge them into
\* one and "evaluated" would exceed "stored"; groups of duplicates of one issuer and one
\* value on different days are two alerts.
FingerprintsTellAlertsApart ==
    \A a, b \in EvaluateAlerts(GraphOfAll(data), config) : a.fingerprint = b.fingerprint => a = b
=============================================================================
