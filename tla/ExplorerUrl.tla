---------------------------- MODULE ExplorerUrl ----------------------------
(* The state of the Explorer that lives in its URL, and the views saved from it:
   Explorer.tsx and useSavedViews.ts of the dashboard.  The search of the URL is a
   function from the parameters that are set; the entity is kept apart from it, and
   peek is not followed.  What is typed into the search box is not in the URL.    *)
EXTENDS SequencesExt

NoSearch == [p \in {} |-> 0]
NoText == 0
Entities == {"notas", "empresas"}      \* of ENTITIES, those whose screens the walks are about

\* The parameters that narrow the list besides status and q, and those of NFFilters.
Advanced == {"dataEmissaoInicio", "dataEmissaoFim", "valorTotalMin", "valorTotalMax",
             "tipoNF", "finalidade", "cfop", "ncm"}
RecorteParams == Advanced \cup {"ufEmitente", "cnpjEmitente", "comImposto", "comReforma"}

With(search, campo, valor) == [p \in DOMAIN search \cup {campo} |-> IF p = campo THEN valor ELSE search[p]]
Without(search, params) == Restrict(search, DOMAIN search \ params)
Recorte(search) == Restrict(search, DOMAIN search \cap RecorteParams)
TemRecorte(search) == DOMAIN Recorte(search) # {}
StatusOf(search) == IF "status" \in DOMAIN search THEN search.status ELSE ""

SetStatus(search, s) == IF s = "" THEN Without(search, {"status"}) ELSE With(search, "status", s)
SetFiltro(search, campo, valor) ==
    IF valor = NoText THEN Without(search, {campo}) ELSE With(search, campo, valor)

\* One navigation for all of them; the filters of a deep link stay, comReforma too.
LimparFiltros(search) == Without(search, Advanced)
LimparRecorte(search) == Restrict(search, DOMAIN search \cap {"status"})

\* What the list of notas asks for: the text as it was when the typing paused, and the URL.
Filters(q, search) ==
    LET set == Restrict(search, DOMAIN search \cap (RecorteParams \cup {"status"}))
    IN  IF q = NoText THEN set ELSE With(set, "q", q)

-----------------------------------------------------------------------------
(* A view is named by its content, so that saving it again adds nothing; the set of
   them is cached in the tab and written through to localStorage.                  *)

PodeSalvar(typed, search) == typed # NoText \/ StatusOf(search) # ""
ViewOf(typed, search) == [entity |-> "notas", q |-> typed, status |-> StatusOf(search)]
AplicarView(v) == SetStatus(NoSearch, v.status)
=============================================================================
