--------------------------- MODULE FiscalQueries ---------------------------
(* The aggregations of packages/graph: tax, product and analysis queries.  One
   operator is one statement; what runs several takes the graph each of them reads.

   A window is <<dataInicio, dataFim>>, Always where the client sends none.     *)
EXTENDS NetworkQueries

TaxNames == {"vICMS", "vICMSST", "vIPI", "vPIS", "vCOFINS", "vII", "vFCP",
             "vIBS", "vIBSUF", "vIBSMun", "vCBS", "vIS"}
SeriesNames == TaxNames \ {"vICMSST", "vII", "vFCP", "vIBSUF", "vIBSMun"}
Field(props, t) == IF t \in DOMAIN props THEN props[t] ELSE 0
TotalOf(g, k, t) == Field(g.nf[k].totais, IF t = "vICMSST" THEN "vST" ELSE t)

\* The UF of the emitente, when the filter has one.
FromUf(g, k, uf) == uf = "" \/ \E e \in g.emitiu : e[2] = k /\ g.emp[e[1]].uf = uf

\* buildTaxWhere: the notas that add to the tax burden.
TaxScope(g, f) == {k \in DOMAIN g.nf : ActiveNF(g, k) /\ FromUf(g, k, f.uf) /\ InWindow(g, k, f.janela)}

\* taxSummary's three statements.
TaxTotais(g, f) == [t \in TaxNames |-> SumBy(LAMBDA k : TotalOf(g, k, t), TaxScope(g, f))]
TaxSerie(g, f) ==
    [m \in {MonthOf(g.nf[k].dataEmissao) : k \in TaxScope(g, f)} |->
        [t \in SeriesNames |->
            SumBy(LAMBDA k : TotalOf(g, k, t),
                  {k \in TaxScope(g, f) : MonthOf(g.nf[k].dataEmissao) = m})]]
TaxTransicao(g, f) ==
    [total |-> Cardinality(TaxScope(g, f)),
     comReforma |-> Cardinality({k \in TaxScope(g, f) :
                        TotalOf(g, k, "vIBS") > 0 \/ TotalOf(g, k, "vCBS") > 0})]

\* The items of those notas: CONTÉM keys.
TaxedItems(g, f) == {c \in DOMAIN g.contem : c[1] \in TaxScope(g, f)}
ItemTax(g, c, t) == IF t = "vICMS" THEN Field(g.contem[c], "vICMS") + Field(g.contem[c], "vICMSST")
                    ELSE Field(g.contem[c], t)

\* taxByNcm: an item counts under every NCM of its product.
TaxByNcm(g, f, limit) ==
    LET rows == {r \in TaxedItems(g, f) \X (DOMAIN g.ncm) : <<r[1][3], r[2]>> \in g.classificado}
        line(n) ==
            LET of == {r[1] : r \in {r \in rows : r[2] = n}}
                sum(t) == SumBy(LAMBDA c : ItemTax(g, c, t), of)
            IN  [ncm |-> n, vICMS |-> sum("vICMS"), vIPI |-> sum("vIPI"), vPIS |-> sum("vPIS"),
                 vCOFINS |-> sum("vCOFINS"),
                 totalImposto |-> sum("vICMS") + sum("vIPI") + sum("vPIS") + sum("vCOFINS"),
                 totalNFs |-> Cardinality({c[1] : c \in of})]
    IN  TopBy(LAMBDA l : l.totalImposto, {line(r[2]) : r \in rows}, Min({limit, 50}))

\* Mutant of TaxByCfop: the totals of the nota, once for each of its CFOPs.
TaxByCfopOfNota(g, f, limit) ==
    {[cfop |-> u[2], vICMS |-> TotalOf(g, u[1], "vICMS"), vIPI |-> TotalOf(g, u[1], "vIPI"),
      totalNFs |-> 1] : u \in {u \in g.usaCfop : u[1] \in TaxScope(g, f)}}
\* taxByCfop: by the CFOP of the item.
TaxByCfop(g, f, limit) ==
    LET line(x) ==
            LET of == {c \in TaxedItems(g, f) : g.contem[c].cfop = x}
            IN  [cfop |-> x, vICMS |-> SumBy(LAMBDA c : ItemTax(g, c, "vICMS"), of),
                 vIPI |-> SumBy(LAMBDA c : ItemTax(g, c, "vIPI"), of),
                 totalNFs |-> Cardinality({c[1] : c \in of})]
    IN  TopBy(LAMBDA l : l.vICMS, {line(g.contem[c].cfop) : c \in TaxedItems(g, f)}, Min({limit, 50}))

-----------------------------------------------------------------------------
\* topProducts: by product and NCM.
TopProducts(g, metrica, ncm, janela, limit) ==
    LET scope == TaxScope(g, [uf |-> "", janela |-> janela])
        of(p) == {c \in DOMAIN g.contem : c[1] \in scope /\ c[3] = p[1]}
        line(p) == [idUnico |-> p[1], ncm |-> p[2], totalNFs |-> Cardinality({c[1] : c \in of(p)}),
                    quantidadeTotal |-> SumBy(LAMBDA c : g.contem[c].quantidade, of(p)),
                    valorTotal |-> SumBy(LAMBDA c : g.contem[c].valorTotal, of(p))]
        rows == {p \in g.classificado : of(p) # {} /\ SubSeq(p[2], 1, Len(ncm)) = ncm}
    IN  TopBy(LAMBDA l : IF metrica = "quantidade" THEN l.quantidadeTotal ELSE l.valorTotal,
              {line(p) : p \in rows}, Min({limit, 50}))

\* productPriceHistory: devoluções too, by month.
ProductPriceHistory(g, idUnico) ==
    LET of == {c \in DOMAIN g.contem : c[3] = idUnico}
        month(c) == MonthOf(g.nf[c[1]].dataEmissao)
    IN  [m \in {month(c) : c \in of} |->
            LET in == {c \in of : month(c) = m} IN
            [valorTotal |-> SumBy(LAMBDA c : g.contem[c].valorTotal, in),
             quantidadeTotal |-> SumBy(LAMBDA c : g.contem[c].quantidade, in),
             totalNFs |-> Cardinality({c[1] : c \in in})]]

\* productCompanies: who issued and who received the product.
ProductCompanies(g, idUnico) ==
    LET of == {c \in DOMAIN g.contem : c[3] = idUnico /\ ActiveNF(g, c[1])}
        roles == {<<e[1], "emitente", e[2]>> : e \in g.emitiu}
                 \cup {<<d[2], "destinatario", d[1]>> : d \in g.destinada}
        line(r) == LET its == {c \in of : <<r[1], r[2], c[1]>> \in roles} IN
                   [cnpj |-> r[1], papel |-> r[2], totalNFs |-> Cardinality({c[1] : c \in its}),
                    valor |-> SumBy(LAMBDA c : g.contem[c].valorTotal, its)]
    IN  {line(r) : r \in {r \in roles : \E c \in of : c[1] = r[3]}}

-----------------------------------------------------------------------------
\* getPeriodComparison: the period, the one before it and the one a year earlier;
\* devoluções count.  A period is a pair of days.
PeriodTotals(g, first, last) ==
    LET in == {k \in Imported(g) : InWindow(g, k, <<Day(first), EndOfDay(Day(last))>>)}
    IN  [totalNFs |-> Cardinality(in), valorTotal |-> ValorDas(g, in)]
PeriodComparison(gs, first, last) ==
    LET span == last - first + 1 IN
    [current |-> PeriodTotals(gs[1], first, last),
     previous |-> PeriodTotals(gs[2], first - span, first - 1),
     yearAgo |-> PeriodTotals(gs[3], first - 365, last - 365)]

\* findDuplicateInvoices: same issuer, day and value.
DuplicateGroups(g, limit) ==
    LET issued == {e \in g.emitiu : ActiveNF(g, e[2])}
        same(e) == {<<e[1], DayOf(g.nf[e[2]].dataEmissao), g.nf[e[2]].valorTotal>>}
        group(e) == [emitente |-> e[1], valorTotal |-> g.nf[e[2]].valorTotal,
                     chaves |-> {x[2] : x \in {x \in issued : same(x) = same(e)}}]
    IN  TopBy(LAMBDA d : 1000 * Cardinality(d.chaves) + d.valorTotal,
              {d \in {group(e) : e \in issued} : Cardinality(d.chaves) >= 2}, limit)

\* Mutant of NumberingGaps: devoluções do not consume a number.
NumberingGapsOfActive(g, limit) ==
    LET numbers(s) == {g.nf[e[2]].numero : e \in {e \in g.emitiu :
                          ActiveNF(g, e[2]) /\ <<e[1], g.nf[e[2]].serie>> = s}}
        series == {<<e[1], g.nf[e[2]].serie>> : e \in {e \in g.emitiu : ActiveNF(g, e[2])}}
    IN  UNION {{[serie |-> s, from |-> a, to |-> b, missing |-> b - a - 1] :
                   a \in numbers(s), b \in numbers(s)} : s \in series}
\* findNumberingGaps: consecutive numbers of one issuer and série more than 1 apart;
\* a number that is not numeric is ignored.
NumberingGaps(g, limit) ==
    LET numbered == {e \in g.emitiu : ~IsStub(g, e[2]) /\ g.nf[e[2]].numero \in Nat}
        serie(e) == <<e[1], g.nf[e[2]].serie>>
        gap(s) == LET nums == Ascending({g.nf[e[2]].numero : e \in {e \in numbered : serie(e) = s}})
                  IN  {[serie |-> s, from |-> nums[i], to |-> nums[i + 1],
                        missing |-> nums[i + 1] - nums[i] - 1] :
                          i \in {i \in 1 .. (Len(nums) - 1) : nums[i + 1] - nums[i] > 1}}
    IN  TopBy(LAMBDA x : x.missing, UNION {gap(serie(e)) : e \in numbered}, limit)
=============================================================================
