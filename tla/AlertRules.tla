---------------------------- MODULE AlertRules ----------------------------
(* packages/graph alert.rules.ts: the rules of the alert engine, each one read of
   the graph, and the configuration that switches them.  A fraction of the code
   is a percentage here.                                                      *)
EXTENDS FiscalQueries

RuleNames == {"highValue", "supplierConcentration", "volumeSpike", "zeroTax", "duplicate", "numberingGap"}

DefaultAlertConfig ==
    [highValue |-> [enabled |-> TRUE, threshold |-> 100000],
     supplierConcentration |-> [enabled |-> TRUE, threshold |-> 25],
     volumeSpike |-> [enabled |-> TRUE, threshold |-> 50],
     zeroTax |-> [enabled |-> TRUE], duplicate |-> [enabled |-> TRUE],
     numberingGap |-> [enabled |-> TRUE]]

\* mergeAlertConfig: what a partial configuration leaves out is the default's.
MergeAlertConfig(partial) ==
    [r \in RuleNames |-> IF r \in DOMAIN partial THEN partial[r] @@ DefaultAlertConfig[r]
                         ELSE DefaultAlertConfig[r]]

\* An alert as a rule makes it; its type and its fingerprint are one tuple.
MakeAlert(severity, fingerprint, chaves, cnpjEmitente) ==
    [severity |-> severity, fingerprint |-> fingerprint, chaves |-> chaves, cnpjEmitente |-> cnpjEmitente]

ActiveIssued(g) == {e \in g.emitiu : ActiveNF(g, e[2])}

RuleHighValue(g, threshold, limit) ==
    LET high == {e \in ActiveIssued(g) : Valor(g, e[2]) >= threshold}
    IN  {MakeAlert("warning", <<"high_value", e[2]>>, {e[2]}, e[1]) :
            e \in TopBy(LAMBDA e : Valor(g, e[2]), high, limit)}

\* The share of an issuer in the value of all active notas.
RuleSupplierConcentration(g, threshold) ==
    LET valor(c) == SumBy(LAMBDA e : Valor(g, e[2]), {e \in ActiveIssued(g) : e[1] = c})
        total == SumBy(LAMBDA e : Valor(g, e[2]), ActiveIssued(g))
    IN  {MakeAlert("warning", <<"supplier_concentration", c>>, {}, c) :
            c \in {c \in {e[1] : e \in ActiveIssued(g)} : total > 0 /\ 100 * valor(c) >= threshold * total}}

\* The months that have notas, the later half of them against the earlier.
MonthlyVolume(g) ==
    LET active == {k \in DOMAIN g.nf : ActiveNF(g, k)}
        month(k) == MonthOf(g.nf[k].dataEmissao)
        months == Ascending({month(k) : k \in active})
    IN  [i \in DOMAIN months |-> Cardinality({k \in active : month(k) = months[i]})]
RuleVolumeSpike(g, threshold) ==
    LET series == MonthlyVolume(g)
        mid == Len(series) \div 2
        sum(from, to) == FoldLeft(+, 0, SubSeq(series, from, to))
        a == sum(1, mid)
        b == sum(mid + 1, Len(series))
        gap == IF b > a THEN b - a ELSE a - b
    IN  IF Len(series) < 4 \/ a = 0 \/ 100 * gap < threshold * a THEN {}
        ELSE {MakeAlert("info", <<"volume_spike", IF b > a THEN "up" ELSE "down">>, {}, "")}

RuleZeroTax(g, limit) ==
    LET bare == {e \in ActiveIssued(g) : /\ g.nf[e[2]].status = "ativa"
                                         /\ Valor(g, e[2]) > 0
                                         /\ TotalOf(g, e[2], "vICMS") = 0
                                         /\ TotalOf(g, e[2], "vIBS") = 0}
    IN  {MakeAlert("info", <<"zero_tax", e[2]>>, {e[2]}, e[1]) :
            e \in TopBy(LAMBDA e : Valor(g, e[2]), bare, limit)}

\* Mutant of RuleDuplicates: the value stands for the group.
RuleDuplicatesByValue(g, limit) ==
    {MakeAlert("critical", <<"duplicate", {d.valorTotal}>>, d.chaves, d.emitente) :
        d \in DuplicateGroups(g, limit)}
\* The keys of the group are its identity.
RuleDuplicates(g, limit) ==
    {MakeAlert("critical", <<"duplicate", d.chaves>>, d.chaves, d.emitente) :
        d \in DuplicateGroups(g, limit)}

RuleNumberingGaps(g, limit) ==
    {MakeAlert("warning", <<"numbering_gap", x.serie, x.from, x.to>>, {}, x.serie[1]) :
        x \in NumberingGaps(g, limit)}

\* The rules an evaluation runs, and one of them on the graph its session sees.
PerRuleLimit == 20
EnabledRules(settings) == {r \in RuleNames : settings[r].enabled}
EvaluateRule(rule, g, settings) ==
    CASE rule = "highValue" -> RuleHighValue(g, settings.highValue.threshold, PerRuleLimit)
      [] rule = "supplierConcentration" -> RuleSupplierConcentration(g, settings.supplierConcentration.threshold)
      [] rule = "volumeSpike" -> RuleVolumeSpike(g, settings.volumeSpike.threshold)
      [] rule = "zeroTax" -> RuleZeroTax(g, PerRuleLimit)
      [] rule = "duplicate" -> RuleDuplicates(g, PerRuleLimit)
      [] rule = "numberingGap" -> RuleNumberingGaps(g, PerRuleLimit)
=============================================================================
