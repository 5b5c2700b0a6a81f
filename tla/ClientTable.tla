---------------------------- MODULE ClientTable ----------------------------
(* Tables that hold all their rows: useTableSort.ts, useClientTable.ts and
   TablePagination.tsx of the dashboard, and the ranking of companies that
   ExplorerEmpresas.tsx shows in one.  A table is the sort, the rows per page and the
   page the user turned to, which is kept when the rows become fewer.               *)
EXTENDS FiscalApi

NewTable(size) == [key |-> "valorTotal", direction |-> "desc", size |-> size, page |-> 0]

\* sortRows: a stable sort, so that ties stay in the order they came in.
SortRows(t, rows) ==
    LET comes(i, j) == LET a == rows[i][t.key]  b == rows[j][t.key] IN
                       \/ IF t.direction = "asc" THEN a < b ELSE a > b
                       \/ a = b /\ i < j
        order == Ordered(DOMAIN rows, {p \in (DOMAIN rows) \X (DOMAIN rows) : comes(p[1], p[2])})
    IN  [i \in DOMAIN order |-> rows[order[i]]]

\* toggle: of the column that sorts the direction turns, another one starts ascending.
Toggle(t, key) ==
    [t EXCEPT !.key = key, !.page = 0,
              !.direction = IF t.key = key /\ @ = "asc" THEN "desc" ELSE "asc"]
SetPageSize(t, n) == [t EXCEPT !.size = n, !.page = 0]

LastPage(t, total) == Max({0, (total + t.size - 1) \div t.size - 1})
\* Mutant of SafePage: the page is taken as it is.
PageAsTurned(t, total) == t.page
\* The page that is shown.
SafePage(t, total) == Min({t.page, LastPage(t, total)})
HasPrev(t, total) == SafePage(t, total) > 0
HasNext(t, total) == SafePage(t, total) < LastPage(t, total)
OnPrev(t) == [t EXCEPT !.page = Max({0, @ - 1})]
OnNext(t) == [t EXCEPT !.page = @ + 1]

PageRows(t, rows) ==
    LET first == SafePage(t, Len(rows)) * t.size
    IN  SubSeq(SortRows(t, rows), first + 1, Min({first + t.size, Len(rows)}))
\* "X to Y of Z".
From(t, total) == IF total = 0 THEN 0 ELSE SafePage(t, total) * t.size + 1
To(t, total) == Min({(SafePage(t, total) + 1) * t.size, total})

-----------------------------------------------------------------------------
\* The ranking, as the API orders it, and the rows whose name or CNPJ has the text.
Ranking(g) ==
    LET lines == GetTopEmpresas(g, [metrica |-> "valor", limit |-> 50]).body
    IN  Ordered(lines, {p \in lines \X lines : p[1].valorTotal > p[2].valorTotal})
Matching(g, rows, busca) ==
    LET kept == Ascending({i \in DOMAIN rows : busca = "" \/ busca \in {rows[i].cnpj, g.emp[rows[i].cnpj].razaoSocial}})
    IN  [i \in DOMAIN kept |-> rows[kept[i]]]
=============================================================================
