----------------------------- MODULE HomeScreen -----------------------------
(* packages/dashboard: what the home page (Overview), its column of insights and the
   tax page derive from the answers of the API, and where a click on a bar leads.
   The insight on the trend of the tax burden, the last nota, labels, colours and
   number formats are left out.                                               *)
EXTENDS FiscalApi

\* The taxes that the donut and the bars show, and those that have a curve of their own.
CargaNames == {"vICMS", "vICMSST", "vIPI", "vPIS", "vCOFINS", "vFCP", "vIBS", "vCBS", "vIS"}
CargaTotal(totais) == SumBy(LAMBDA t : totais[t], CargaNames)
Linhas(totais) == {t \in CargaNames : totais[t] > 0}
Kpis(impostos) == {t \in SeriesNames : impostos.totais[t] > 0}
SerieKeys(impostos) == {t \in SeriesNames : \E m \in DOMAIN impostos.serie : impostos.serie[m][t] > 0}

\* Math.round of the percentage: a half is rounded up.
PctReforma(transicao) ==
    IF transicao.total = 0 THEN 0 ELSE (200 * transicao.comReforma + transicao.total) \div (2 * transicao.total)

\* The card on concentration: the first of the ranking has a quarter of the ranking's value.
TopCompanies(g) == GetTopEmpresas(g, [metrica |-> "valor", limit |-> 50]).body
Concentracao(ranking) ==
    LET totalRank == SumBy(LAMBDA l : l.valorTotal, ranking) IN
    {l.cnpj : l \in {l \in TopBy(LAMBDA l : l.valorTotal, ranking, 1) :
                        totalRank > 0 /\ 100 * l.valorTotal >= 25 * totalRank}}

\* periodWindow: dates without a time, the last one as the end.  The series of a week is by
\* day; its bar opens that day and the six after it.
PeriodWindow(gran, periodo) ==
    CASE gran = "mes" -> [dataEmissaoInicio |-> Day(30 * periodo), dataEmissaoFim |-> Day(30 * periodo + 29)]
      [] gran = "semana" -> [dataEmissaoInicio |-> Day(periodo), dataEmissaoFim |-> Day(periodo + 6)]
      [] gran = "dia" -> [dataEmissaoInicio |-> Day(periodo), dataEmissaoFim |-> Day(periodo)]

\* drillToPeriod: the list that a click on a bar of the chart opens; the stubs' bar has no label.
VolumeBars(g, gran) == GetVolume(g, [granularidade |-> gran]).body
Drillable(g, gran) == (DOMAIN VolumeBars(g, gran)) \ {NoPeriod}
DrillToPeriod(g, gran, periodo) == ListNf(g, g, PeriodWindow(gran, periodo)).body
=============================================================================
