------------------------------- MODULE Browse -------------------------------
(* A user of the Explorer pages through the notas (ExplorerNotas.tsx, by cursor) and
   the ranking of companies (ExplorerEmpresas.tsx, of which it holds all rows) while
   notas are imported.  react-query keeps what it has fetched: a page that is shown
   again comes from its cache, and is fetched again only when it is older than
   staleTime, which here is a choice.

   One of the two is on screen, and starts anew when the user comes back to it; the
   text boxes and what the typing settled to belong to the Explorer around them.

   A page is kept as what its statement saw, the set of notas.  "path" records,
   for each page before the one on screen, what it was when the user left it for
   the next; no action reads it.  A fetch that fails is retried by the user and is
   a fetch that takes longer.                                                 *)
EXTENDS ClientTable, ExplorerUrl

CONSTANTS
    Nota,          \* the notas that exist, imported or not
    Before,        \* those imported at the start
    Xml(_),        \* the document of a nota
    SortKeys,      \* the columns of notas the user sorts by
    Statuses,      \* the statuses the user picks; "" is all
    Filtros,       \* the pairs <<campo, valor>> the user sets
    Texts,         \* what the user types to search notas; NoText is nothing
    Buscas,        \* and to search companies
    PageSize,      \* rows per page
    OtherSize,     \* rows per page the user picks for the ranking
    MaxTurns       \* how often the user turns to another page, order, filter or screen

\* A page has rows, what was imported before has been, the documents are those of the notas, and
\* have what the list is sorted by; the panel of filters has the advanced ones (NFFilters).
ASSUME BrowseAssumption ==
    /\ PageSize \in Nat \ {0} /\ OtherSize \in Nat \ {0}
    /\ Before \subseteq Nota /\ IsFiniteSet(Before)
    /\ AreNotas({Xml(k) : k \in Nota}) /\ \A k \in Nota : Key(Xml(k)) = k
    /\ SortKeys \subseteq {"numero", "valorTotal", "dataEmissao"}
    /\ \A k \in Nota : LET nota == Invoice(Xml(k)).nota
                       IN  {k, nota.numero, nota.valorTotal, nota.dataEmissao} \subseteq Int
    /\ \A f \in Filtros : f[1] \in Advanced

VARIABLES
    there,         \* the notas in the graph
    entity,        \* the screen the user is at: "notas" or "empresas"
    list,          \* the screen of notas
    pages,         \* the cached pages of notas: key -> the notas there were
    turns,         \* counts the turns
    ranking,       \* the screen of companies
    views          \* the saved views

vars == <<there, entity, list, pages, turns, ranking, views>>

\* The graph of a set of notas.
GraphOf(ds) == FoldSet(LAMBDA d, g : MergeInvoice(g, ParseNFe(Xml(d), 0), Xml(d).root, 0), EmptyGraph, ds)
GraphTable == {<<ds, GraphOf(ds)>> : ds \in SUBSET Nota}
GraphOfAll(ds) == (CHOOSE t \in GraphTable : t[1] = ds)[2]

\* A page that comes on screen is fetched, unless it is cached and fresh.
DueOf(cached) == IF cached THEN BOOLEAN ELSE {TRUE}

NewList == [sort |-> <<"dataEmissao", "desc">>, search |-> NoSearch, typed |-> NoText, q |-> NoText,
            stack |-> << >>, due |-> TRUE, path |-> << >>]
NewRanking == [table |-> NewTable(PageSize), busca |-> "", seen |-> {}, due |-> TRUE]

Turn == turns < MaxTurns /\ turns' = turns + 1

Init ==
    /\ there = Before
    /\ entity = "notas"
    /\ list = NewList
    /\ pages = << >>
    /\ turns = 0
    /\ ranking = NewRanking
    /\ views = {}

\* mergeInvoice, by the worker.
Import(k) ==
    /\ k \notin there
    /\ there' = there \cup {k}
    /\ UNCHANGED <<entity, list, pages, turns, ranking, views>>

-----------------------------------------------------------------------------
(* The list.  cursorStack holds the cursors of the pages after the first.    *)

CursorOf(stack) == IF stack = << >> THEN NoCursor ELSE Last(stack)
KeyOf(l) == <<l.sort, Filters(l.q, l.search), CursorOf(l.stack)>>
Page(key, ds) == ListInvoices(GraphOfAll(ds), key[2],
                    [limit |-> PageSize, orderBy |-> key[1][1], order |-> key[1][2], cursor |-> key[3]])
Loaded == entity = "notas" /\ KeyOf(list) \in DOMAIN pages
Shown == Page(KeyOf(list), pages[KeyOf(list)])

\* The screen goes to a page: when its query key changes, it is due unless it is cached.
GoTo(l) ==
    /\ \E d \in IF KeyOf(l) = KeyOf(list) THEN {list.due} ELSE DueOf(KeyOf(l) \in DOMAIN pages) :
           list' = [l EXCEPT !.due = d]
    /\ UNCHANGED <<there, entity, pages, ranking>>

FetchPage ==
    /\ entity = "notas" /\ list.due
    /\ pages' = Over([k \in {KeyOf(list)} |-> there], pages)
    /\ list' = [list EXCEPT !.due = FALSE]
    /\ UNCHANGED <<there, entity, turns, ranking, views>>

NextPage ==
    /\ Turn
    /\ Loaded /\ Shown.data # << >> /\ Shown.nextCursor # NoCursor
    /\ GoTo([list EXCEPT !.stack = Append(@, Shown.nextCursor), !.path = Append(@, pages[KeyOf(list)])])
    /\ UNCHANGED views

PrevPage ==
    /\ Turn
    /\ Loaded /\ Shown.data # << >> /\ list.stack # << >>
    /\ GoTo([list EXCEPT !.stack = Front(@), !.path = Front(@)])
    /\ UNCHANGED views

\* Mutant of FirstPage: the effect does not run, the stack stays.
PageKept(l) == GoTo(l)
\* A change of the order or of a filter: an effect empties the stack of cursors.
FirstPage(l) ==
    GoTo(IF <<l.sort, l.q, l.search>> = <<list.sort, list.q, list.search>> THEN l
         ELSE [l EXCEPT !.stack = << >>, !.path = << >>])

ToggleSort(key) ==
    /\ Turn /\ Loaded /\ Shown.data # << >>
    /\ FirstPage([list EXCEPT !.sort = <<key, IF @[1] = key /\ @[2] = "desc" THEN "asc" ELSE "desc">>])
    /\ UNCHANGED views

\* setStatus, setFiltro, limparFiltros and limparRecorte.
Navigate(search) ==
    /\ Turn /\ entity = "notas" /\ search # list.search
    /\ FirstPage([list EXCEPT !.search = search])
    /\ UNCHANGED views
ChangeSearch ==
    \/ \E s \in Statuses : Navigate(SetStatus(list.search, s))
    \/ \E f \in Filtros : \E valor \in {f[2], NoText} : Navigate(SetFiltro(list.search, f[1], valor))
    \/ Navigate(LimparFiltros(list.search))
    \/ TemRecorte(list.search) /\ Navigate(LimparRecorte(list.search))

\* The search box, and what useDebouncedValue hands to the list once the typing pauses.
Type(text) ==
    /\ Turn /\ entity = "notas" /\ text # list.typed
    /\ GoTo([list EXCEPT !.typed = text])
    /\ UNCHANGED views
Settle ==
    /\ list.q # list.typed
    /\ FirstPage([list EXCEPT !.q = list.typed])
    /\ UNCHANGED <<turns, views>>

SalvarView ==
    /\ Turn /\ entity = "notas"
    /\ PodeSalvar(list.typed, list.search)
    /\ views' = views \cup {ViewOf(list.typed, list.search)}
    /\ UNCHANGED <<there, entity, list, pages, ranking>>
RemoveView(v) ==
    /\ Turn
    /\ views' = views \ {v}
    /\ UNCHANGED <<there, entity, list, pages, ranking>>

\* aplicarView at the list: the status is there at once, the text when it settles.
AplicarViewHere(v) ==
    /\ Turn /\ entity = "notas"
    /\ FirstPage([list EXCEPT !.search = AplicarView(v), !.typed = v.q])
    /\ UNCHANGED views

-----------------------------------------------------------------------------
(* The ranking of companies: fetched whole, searched, sorted and paged in the tab.  *)

RankingLoaded == entity = "empresas" /\ ranking.seen # {}
SeenGraph == GraphOfAll(CHOOSE ds \in ranking.seen : TRUE)
Rows == Matching(SeenGraph, Ranking(SeenGraph), ranking.busca)

FetchRanking ==
    /\ entity = "empresas" /\ ranking.due
    /\ ranking' = [ranking EXCEPT !.seen = {there}, !.due = FALSE]
    /\ UNCHANGED <<there, entity, list, pages, turns, views>>

\* A refetch of the ranking on screen, when the browser is back online: react-query's default,
\* of which the client turns off only the refetch of a window that gets the focus back.
Reconnect ==
    /\ Turn /\ RankingLoaded /\ ~ranking.due
    /\ ranking' = [ranking EXCEPT !.due = TRUE]
    /\ UNCHANGED <<there, entity, list, pages, views>>

TableTo(t) ==
    /\ Turn
    /\ ranking' = [ranking EXCEPT !.table = t]
    /\ UNCHANGED <<there, entity, list, pages, views>>
UseTable(t, n) ==
    \/ HasNext(t, n) /\ TableTo(OnNext(t))
    \/ HasPrev(t, n) /\ TableTo(OnPrev(t))
    \/ \E key \in {"totalNFs", "valorTotal"} : TableTo(Toggle(t, key))
    \/ TableTo(SetPageSize(t, OtherSize))
UseRanking == RankingLoaded /\ \E n \in {Len(Rows)} : n > 0 /\ UseTable(ranking.table, n)

\* buscaLocal: the page the table was turned to stays.
Buscar(busca) ==
    /\ Turn /\ entity = "empresas" /\ busca # ranking.busca
    /\ ranking' = [ranking EXCEPT !.busca = busca]
    /\ UNCHANGED <<there, entity, list, pages, views>>

-----------------------------------------------------------------------------
\* Another screen comes up as new, what they have fetched stays cached.
Show(e, l, busca) ==
    /\ Turn
    /\ e # entity /\ entity' = e
    /\ \E d \in DueOf(IF e = "notas" THEN KeyOf(l) \in DOMAIN pages ELSE ranking.seen # {}) :
           /\ list' = [l EXCEPT !.due = e = "notas" => d]
           /\ ranking' = [NewRanking EXCEPT !.busca = busca, !.seen = ranking.seen, !.due = e = "empresas" => d]
    /\ UNCHANGED <<there, pages, views>>
\* Without its URL's parameters the list is new, but for what was typed.
PlainList == [NewList EXCEPT !.typed = list.typed, !.q = list.q]

\* trocar, by the tabs of a narrow window: both boxes are emptied, which the list sees when it settles.
Trocar(e) ==
    \/ Show(e, [PlainList EXCEPT !.typed = NoText], "")
    \/ /\ Turn /\ e = entity /\ e = "notas"
       /\ FirstPage([list EXCEPT !.search = NoSearch, !.typed = NoText])
       /\ UNCHANGED views
\* The rail of a wide window: a link, which leaves the boxes alone.
Rail(e) ==
    \/ Show(e, PlainList, ranking.busca)
    \/ e = "notas" /\ Navigate(NoSearch)
\* A view applied from another screen: its text settles like typing.
AplicarViewThere(v) ==
    Show("notas", [PlainList EXCEPT !.search = AplicarView(v), !.typed = v.q], ranking.busca)
\* The link to the notas of a company of the ranking.
VerNotas ==
    /\ RankingLoaded
    /\ \E r \in ToSet(Rows) :
           Show("notas", [PlainList EXCEPT !.search = With(NoSearch, "cnpjEmitente", r.cnpj)], ranking.busca)

Next ==
    \/ \E k \in Nota : Import(k)
    \/ FetchPage \/ NextPage \/ PrevPage \/ ChangeSearch \/ Settle \/ SalvarView
    \/ \E key \in SortKeys : ToggleSort(key)
    \/ \E text \in Texts : Type(text)
    \/ \E v \in views : RemoveView(v) \/ AplicarViewHere(v) \/ AplicarViewThere(v)
    \/ FetchRanking \/ Reconnect \/ UseRanking
    \/ \E b \in Buscas : Buscar(b)
    \/ \E e \in Entities : Trocar(e) \/ Rail(e)
    \/ VerNotas

Spec == Init /\ [][Next]_vars

-----------------------------------------------------------------------------
\* The pages of a walk and the graph of the oldest of them; quiet when they saw the same notas.
WalkIsTheList(walk, g, filters, quiet) ==
    LET seen == UNION {ToSet(walk[i].data) : i \in DOMAIN walk}
        end  == Last(walk).nextCursor
        owed == {<<SortKey(g, k, list.sort[1]), k>> : k \in Filtered(g, filters)}
    IN  /\ \A r \in owed \ seen : end # NoCursor /\ Precedes(list.sort[2], end, r)
        /\ \A i, j \in DOMAIN walk : \A m \in DOMAIN walk[i].data, n \in DOMAIN walk[j].data :
               walk[i].data[m] = walk[j].data[n] => i = j /\ m = n
        /\ end = NoCursor /\ quiet => Cardinality(seen) = CountInvoices(g, filters)

\* The user who has paged to where the screen is has been shown no nota twice, and every nota
\* of the filter that comes before where the screen ends and was there when the oldest of
\* those pages was fetched, whatever was imported meanwhile and whichever pages came from
\* the cache; on the last page of a quiet list, as many as the API counts.
WalkSkipsNothing ==
    Loaded =>
        LET filters == Filters(list.q, list.search)
            snaps == Append(list.path, pages[KeyOf(list)])
            at(i) == Page(<<list.sort, filters, CursorOf(SubSeq(list.stack, 1, i - 1))>>, snaps[i])
            base  == CHOOSE s \in ToSet(snaps) : \A t \in ToSet(snaps) : s \subseteq t
        IN  \A walk \in {[i \in DOMAIN snaps |-> at(i)]}, g \in {GraphOfAll(base)} :
                WalkIsTheList(walk, g, filters, ToSet(snaps) = {base})

\* A list as the user turns it: each page of the path ends at the cursor of the page that follows.
IsTurned(l) ==
    LET at(i) == Page(<<l.sort, Filters(l.q, l.search), CursorOf(SubSeq(l.stack, 1, i - 1))>>, l.path[i])
    IN  /\ DOMAIN l = DOMAIN NewList
        /\ l.sort \in {"numero", "valorTotal", "dataEmissao"} \X {"asc", "desc"}
        /\ DOMAIN l.search \subseteq Advanced \cup {"status", "cnpjEmitente"}
        /\ l.path \in Seq(SUBSET Nota) /\ l.stack \in Seq(Int \X Int) /\ Len(l.path) = Len(l.stack)
        /\ \A i \in DOMAIN l.path : at(i).nextCursor = l.stack[i]
\* Of any two of some snapshots one is the other with later notas, and all are of notas that are there.
AreSnapshots(kept) == \A s, t \in kept : s \subseteq there /\ (s \subseteq t \/ t \subseteq s)

\* What keeps the list whole.
WalkInv ==
    /\ there \subseteq Nota /\ IsFiniteSet(there)
    /\ AreSnapshots({there} \cup {pages[k] : k \in DOMAIN pages} \cup ToSet(list.path))
    /\ IsTurned(list)

\* The same of a table and the rows it is given.
TableShowsAll(t, rows, n) ==
    /\ PageRows(t, rows) = SubSeq(SortRows(t, rows), From(t, n), To(t, n))
    /\ From(t, n) \in 1 .. To(t, n) /\ To(t, n) <= n
    /\ Len(SortRows(t, rows)) = n /\ ToSet(SortRows(t, rows)) = ToSet(rows)
    /\ HasNext(t, n) => To(t, n) < n /\ From(OnNext(t), n) = To(t, n) + 1

\* Whatever is typed to search the ranking, refetched or sorted: the page on screen is never
\* empty while a company matches, the pages hold every match exactly once, in the order of the
\* sort, and Next, where it can be clicked, turns to the rows that follow.
RankingShowsEveryMatch ==
    RankingLoaded => \A rows \in {Rows} : rows # << >> => TableShowsAll(ranking.table, rows, Len(rows))

\* The table of the ranking is one that can be paged, however it was turned and sorted.
TableInv ==
    /\ ranking.table \in [key : {"totalNFs", "valorTotal"}, direction : {"asc", "desc"},
                         size : Nat \ {0}, page : Nat]
    /\ DOMAIN ranking = DOMAIN NewRanking
=============================================================================
