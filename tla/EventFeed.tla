------------------------------ MODULE EventFeed ------------------------------
(* The feed of audit events (Events.tsx), paged by offset and newest first, while
   events are recorded: by the worker in the transaction of a nota's merge and by
   recordQuery after a detail was answered.  An event's instant is the datetime()
   of its transaction: several events may have one, and one recorded later may
   have an earlier instant.

   An event is named by its place in the log, the order in which events were
   committed; the rows of the API do not have it.  react-query keeps each page it
   has fetched; one that comes on screen again is fetched again when it is older
   than staleTime, which here is a choice, and answers arrive in any order, also
   for a page that is no longer on screen.

   "rows" of a page, the length of the log its statement saw, and "path", what
   each page before the one on screen was when the user left it for the next, are
   history: no action reads them.  A fetch that fails is retried by the user and
   is one that takes longer.                                                    *)
EXTENDS InvoiceQueries

CONSTANTS
    Tipos,          \* the types of event
    Instants,       \* what datetime() may be
    Recorded,       \* the log at the start
    MaxEvents,      \* how long the log grows
    FeedSizes,      \* the rows per page the user may pick
    FeedSize,       \* those of the screen as it comes up
    MaxFeedTurns    \* how often the user turns to another page, type, size or screen

\* listEventos takes a limit from 1 to 200 as it is.
ASSUME FeedAssumption ==
    /\ Instants \subseteq Int
    /\ Recorded \in Seq([tipo : Tipos, timestamp : Instants])
    /\ FeedSizes \subseteq 1 .. 200 /\ FeedSize \in FeedSizes

VARIABLES
    log,            \* the events, in the order of their commits: [tipo, timestamp]
    feed,           \* the screen: [tipo, pagina, tamanho, path]
    eventos,        \* the cached pages: key -> [total, rows, eventos]
    asked,          \* the keys a request was sent for
    counted,        \* those the server has counted the events for: key -> how many
    feedTurns       \* counts the turns

feedVars == <<log, feed, eventos, asked, counted, feedTurns>>

NoType == ""
FeedTypes == Tipos \cup {NoType}

NewFeed == [tipo |-> NoType, pagina |-> 0, tamanho |-> FeedSize, path |-> << >>]
FeedKey(f) == <<f.tipo, f.pagina, f.tamanho>>
EventsAt(n) == {[id |-> i, tipo |-> log[i].tipo, timestamp |-> log[i].timestamp] : i \in 1 .. n}
FeedPages(key, n) ==
    ListEventos(EventsAt(n), [tipo |-> key[1], limit |-> key[3], offset |-> key[2] * key[3]])

FeedInit ==
    /\ log = Recorded
    /\ feed = NewFeed
    /\ eventos = << >>
    /\ asked = {FeedKey(NewFeed)}
    /\ counted = << >>
    /\ feedTurns = 0

\* An event is committed: mergeInvoice's "importada", or recordQuery's "consultada".
Record(tipo, timestamp) ==
    /\ Len(log) < MaxEvents
    /\ log' = Append(log, [tipo |-> tipo, timestamp |-> timestamp])
    /\ UNCHANGED <<feed, eventos, asked, counted, feedTurns>>

\* listEventos counts in one statement and reads the page in the next.
CountEvents(key) ==
    /\ key \in asked
    /\ asked' = asked \ {key}
    /\ counted' = Over([k \in {key} |-> Cardinality(EventosDe(EventsAt(Len(log)), key[1]))], counted)
    /\ UNCHANGED <<log, feed, eventos, feedTurns>>

FetchEvents(key) ==
    /\ key \in DOMAIN counted
    /\ \E page \in FeedPages(key, Len(log)) :
           eventos' = Over([k \in {key} |-> [total |-> counted[key], rows |-> Len(log), eventos |-> page]], eventos)
    /\ counted' = Restrict(counted, DOMAIN counted \ {key})
    /\ UNCHANGED <<log, feed, asked, feedTurns>>

-----------------------------------------------------------------------------
FeedLoaded == FeedKey(feed) \in DOMAIN eventos
FeedShown == eventos[FeedKey(feed)]
UltimaPagina == Max({0, (FeedShown.total + feed.tamanho - 1) \div feed.tamanho - 1})

\* A page comes on screen: it is fetched unless it is being fetched, or is cached and fresh.
GoToEvents(f) ==
    /\ feedTurns < MaxFeedTurns /\ feedTurns' = feedTurns + 1
    /\ feed' = f
    /\ asked' \in IF FeedKey(f) \in DOMAIN counted THEN {asked}
                  ELSE {asked \cup {FeedKey(f)}} \cup {asked : k \in DOMAIN eventos \cap {FeedKey(f)}}
    /\ UNCHANGED <<log, eventos, counted>>

NextEvents ==
    /\ FeedLoaded /\ FeedShown.eventos # << >> /\ feed.pagina < UltimaPagina
    /\ GoToEvents([feed EXCEPT !.pagina = @ + 1, !.path = Append(@, FeedShown)])

PrevEvents ==
    /\ FeedLoaded /\ FeedShown.eventos # << >> /\ feed.pagina > 0
    /\ GoToEvents([feed EXCEPT !.pagina = @ - 1, !.path = Front(@)])

\* Mutant of MudarTipo: the page is kept.
MudarTipoOnly(t) ==
    /\ t # feed.tipo
    /\ GoToEvents([feed EXCEPT !.tipo = t, !.path = << >>])
\* mudarTipo: back to the first page.
MudarTipo(t) ==
    /\ t # feed.tipo
    /\ GoToEvents([feed EXCEPT !.tipo = t, !.pagina = 0, !.path = << >>])

\* onPageSize: the same.
MudarTamanho(n) ==
    /\ FeedLoaded /\ FeedShown.eventos # << >> /\ n # feed.tamanho
    /\ GoToEvents([feed EXCEPT !.tamanho = n, !.pagina = 0, !.path = << >>])

\* The user leaves the screen and comes back to it: it starts anew, what was fetched stays cached.
Reabrir == GoToEvents(NewFeed)

FeedNext ==
    \/ \E tipo \in Tipos, timestamp \in Instants : Record(tipo, timestamp)
    \/ \E key \in asked : CountEvents(key)
    \/ \E key \in DOMAIN counted : FetchEvents(key)
    \/ NextEvents \/ PrevEvents \/ Reabrir
    \/ \E t \in FeedTypes : MudarTipo(t)
    \/ \E n \in FeedSizes : MudarTamanho(n)

FeedSpec == FeedInit /\ [][FeedNext]_feedVars

-----------------------------------------------------------------------------
\* The pages that lead to the one on screen, and that one.
FeedPath == Append(feed.path, FeedShown)
\* The instants full pages of the walk end in: the events of such an instant lie on both sides
\* of the border of a page, and the order they were read in there says nothing of the next.
CutInstants(path) == {Last(path[i].eventos).timestamp : i \in {i \in DOMAIN path : Len(path[i].eventos) = feed.tamanho}}

\* Events arrive anywhere in the feed and push older ones to later pages.  As long as its pages
\* were read in the order they were shown, the user who pages on misses no event that was
\* there at the first page, and, when none arrived meanwhile, sees none twice: but for those
\* of an instant a page ends in, of which the code promises nothing (nf.queries.ts:363).
FeedSkipsNothing ==
    FeedLoaded =>
        LET path == FeedPath
            seen == UNION {ToSet(path[i].eventos) : i \in DOMAIN path}
            owed == EventosDe(EventsAt(path[1].rows), feed.tipo)
            inOrder == \A i \in 2 .. Len(path) : path[i - 1].rows <= path[i].rows
            quiet == \A i \in DOMAIN path : path[i].rows = path[1].rows
        IN  inOrder =>
                /\ \A e \in owed \ seen :
                       \/ e.timestamp \in CutInstants(path)
                       \/ FeedShown.eventos # << >> /\ e.timestamp < Last(FeedShown.eventos).timestamp
                /\ quiet => \A i, j \in DOMAIN path :
                       \A m \in DOMAIN path[i].eventos, n \in DOMAIN path[j].eventos :
                           path[i].eventos[m] = path[j].eventos[n] =>
                               (i = j /\ m = n) \/ path[i].eventos[m].timestamp \in CutInstants(path)

\* What keeps the feed whole: what is cached, and what "path" keeps of the pages the user came
\* by, one at a time from the first, is what the API answered from some of the log there is.
IsFeedPage(key, page) == page.rows \in 0 .. Len(log) /\ page.eventos \in FeedPages(key, page.rows)
IsAnswer(page) ==
    page.total \in Nat /\ page = [total |-> page.total, rows |-> page.rows, eventos |-> page.eventos]
FeedInv ==
    /\ log \in Seq([tipo : Tipos, timestamp : Instants])
    /\ feed \in [tipo : FeedTypes, pagina : Nat, tamanho : FeedSizes,
                 path : Seq([total : Nat, rows : Nat,
                             eventos : Seq([id : Nat, tipo : Tipos, timestamp : Instants])])]
    /\ feed.pagina = Len(feed.path)
    /\ \A i \in DOMAIN feed.path : IsFeedPage(<<feed.tipo, i - 1, feed.tamanho>>, feed.path[i])
    /\ \A key \in DOMAIN eventos : IsFeedPage(key, eventos[key]) /\ IsAnswer(eventos[key])
    /\ \A key \in DOMAIN counted : counted[key] \in Nat
=============================================================================
