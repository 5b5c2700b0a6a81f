---------------------------- MODULE GraphScreen ----------------------------
(* The Graph page (Graph.tsx): the company of the URL and the options load a drawing,
   a click on a company loads what is around it into the drawing.  A load asks the
   server twice at once, is not cancelled by anything, and changes the screen when
   both have answered; the statements of one answer read the graph at different
   moments, and notas are imported all the while.

   The user is at this page or in the Explorer, of which this module extends the
   specification.  "expanded" and "crossed" are history: what the drawing was made
   of, and whether a load ever began, or the page was reset, while another ran.   *)
EXTENDS Browse, GraphDrawing

CONSTANTS Depths,     \* the depths the user picks
          Entered,    \* the options the page is entered with
          MaxLoads,   \* how many loads begin
          MaxAtOnce   \* how many of them run at once

\* The slider goes from 1 to 4.
ASSUME ScreenAssumption ==
    /\ Depths \subseteq 1 .. 4
    /\ Entered \subseteq [depth : 1 .. 4, produtos : BOOLEAN, notas : BOOLEAN]

VARIABLES at,         \* the page the user is at: "explorer" or "grafo"
          url,        \* ?cnpj= of the page, "" without
          options,    \* useGraphStore: [depth, produtos, notas]
          drawing,
          loads,      \* the loads that have not ended, as records
          begun,      \* counts the loads
          expanded,   \* company -> the notas its answer had seen when it began to be read
          root,       \* the company of the load that last replaced the drawing
          crossed

screen == <<at, url, options, drawing, loads, begun, expanded, root, crossed>>
explorer == <<entity, list, pages, turns, ranking, views>>

PagesInit ==
    /\ Init
    /\ at \in {"explorer", "grafo"}
    /\ url = "" /\ options \in Entered
    /\ drawing = EmptyDrawing
    /\ loads = {} /\ begun = 0
    /\ expanded = << >> /\ root = "" /\ crossed = FALSE

\* load: the two requests leave.
Load(cnpj, o, merge) ==
    /\ begun < MaxLoads /\ Cardinality(loads) < MaxAtOnce
    /\ begun' = begun + 1
    /\ loads' = loads \cup {[id |-> begun, cnpj |-> cnpj, options |-> o, merge |-> merge,
                             nodes |-> {}, rest |-> {}]}
    /\ crossed' = (crossed \/ loads # {})

\* The effect of a new company in the URL or of new options.
Reload(cnpj, o) ==
    /\ url' = cnpj /\ options' = o
    /\ Load(cnpj, o, FALSE)
    /\ UNCHANGED <<at, drawing, expanded, root>>
RunSearch(cnpj) == cnpj # url /\ Reload(cnpj, options)
\* Options that are changed without a company are those the page is entered with.
SetOption ==
    /\ url # ""
    /\ \/ \E d \in Depths : options.depth # d /\ Reload(url, [options EXCEPT !.depth = d])
       \/ Reload(url, [options EXCEPT !.notas = ~@])
       \/ Reload(url, [options EXCEPT !.produtos = ~@])

\* onNodeClick on a company.
OnNodeClick(cnpj) ==
    /\ Empresa(cnpj) \in DOMAIN drawing.nodes
    /\ Load(cnpj, [options EXCEPT !.depth = 1], TRUE)
    /\ UNCHANGED <<at, url, options, drawing, expanded, root>>

\* The reset of the page; the loads run on.
Reset ==
    /\ url' = "" /\ drawing' = EmptyDrawing
    /\ expanded' = << >> /\ root' = ""
    /\ crossed' = (crossed \/ loads # {})
    /\ UNCHANGED <<at, options, loads, begun>>

\* The server reads the neighbours, then the rest of the answer.
ReadNodes(l) ==
    /\ l.nodes = {}
    /\ loads' = (loads \ {l}) \cup {[l EXCEPT !.nodes = {there}]}
    /\ UNCHANGED <<at, url, options, drawing, begun, expanded, root, crossed>>
ReadRest(l) ==
    /\ l.nodes # {} /\ l.rest = {}
    /\ loads' = (loads \ {l}) \cup {[l EXCEPT !.rest = {there}]}
    /\ UNCHANGED <<at, url, options, drawing, begun, expanded, root, crossed>>

\* What a load brings: a part that was not asked for is not in the answer.
Answer(l) ==
    LET g(seen) == GraphOfAll(CHOOSE ds \in seen : TRUE)
        body == GetCompanyGraph(g(l.nodes), g(l.rest), l.cnpj,
                    [depth |-> l.options.depth, includeProdutos |-> l.options.produtos,
                     includeNotas |-> l.options.notas]).body
    IN  Over(body, [produtos |-> {}, notas |-> {}])
Metadata(l) == {c \in {GetCompany(GraphOfAll(ds), l.cnpj) : ds \in l.nodes} : c.found}

\* Both requests have answered, or the second failed, which is as if it had none.
Arrive(l) ==
    /\ l.rest # {}
    /\ \E meta \in {{}, Metadata(l)} :
           drawing' = MergeGraph(IF l.merge THEN drawing ELSE EmptyDrawing, Answer(l), l.cnpj, meta)
    /\ loads' = loads \ {l}
    /\ expanded' = Over([c \in {l.cnpj} |-> CHOOSE ds \in l.nodes : TRUE], IF l.merge THEN expanded ELSE << >>)
    /\ root' = IF l.merge THEN root ELSE l.cnpj
    /\ UNCHANGED <<at, url, options, begun, crossed>>

\* The answer is an error: what was drawn stays.
Fail(l) ==
    /\ loads' = loads \ {l}
    /\ UNCHANGED <<at, url, options, drawing, begun, expanded, root, crossed>>

\* The companies the user may look for; nothing is loaded for one without a CNPJ.
Cnpjs == DOMAIN GraphOfAll(Nota).emp \ {""}
PagesNext ==
    \/ at = "explorer" /\ Next /\ UNCHANGED screen
    \/ /\ at = "grafo"
       /\ \/ \E c \in Cnpjs : RunSearch(c) \/ OnNodeClick(c)
          \/ SetOption \/ Reset
          \/ \E l \in loads : ReadNodes(l) \/ ReadRest(l) \/ Arrive(l) \/ Fail(l)
       /\ UNCHANGED <<there, explorer>>
    \/ at = "grafo" /\ (\E k \in Nota : Import(k)) /\ UNCHANGED screen

PagesSpec == PagesInit /\ [][PagesNext]_<<vars, screen>>

-----------------------------------------------------------------------------
\* The drawing, and the file exported from it, names both ends of every edge, and shows no
\* product and no nota by itself.
DrawingIsClosed ==
    /\ \A e \in ExportJson(drawing).edges : {e.source, e.target} \subseteq ExportJson(drawing).nodes
    /\ \A v \in DOMAIN drawing.nodes : v[1] # "empresa" => Vizinhanca(drawing, v) # {v}

\* The trades of a company, and that they and the companies around it fit in an answer (100).
TradesAt(g, c) == {t \in ActiveTrades(g) : c \in {t[1], t[3]}}
Fits(g, c) ==
    /\ Cardinality(Reached(g, {c}, 4)) <= 100
    /\ Cardinality({<<t[1], t[3]>> : t \in TradesAt(g, c)}) <= 100
\* Whatever was imported while it was read, and in whichever order loads ended: a company that
\* was expanded is drawn with all it exchanged active notas with when its answer was begun,
\* unless what is around it does not fit in an answer.
ExpandedIsComplete ==
    \A c \in DOMAIN expanded :
        \/ \A t \in TradesAt(GraphOfAll(expanded[c]), c) :
               <<Empresa(t[1]), Empresa(t[3])>> \in DOMAIN drawing.edges
        \/ ~Fits(GraphOfAll(there), c)

\* While loads do not cross, the drawing has one root, the company it was last loaded for;
\* then a radial drawing is a star around that company, and each of its rings is of one kind.
RootIsTheCompany ==
    ~crossed =>
        /\ Roots(drawing) = IF root = "" THEN {} ELSE {Empresa(root)}
        /\ \A r \in Roots(drawing) : IsEgo(drawing, r) =>
               /\ Vizinhanca(drawing, r) = DOMAIN drawing.nodes
               /\ \A v, w \in DOMAIN drawing.nodes \ {r} :
                      (Ring(drawing, r, v) = Ring(drawing, r, w)) <=> (v[1] = w[1])

\* What keeps it so.  A load that has not ended asks for a company with a CNPJ at a depth the API
\* takes, and while loads do not cross there is one of them at most, and a click's company is drawn.
LoadInv ==
    /\ url \in Cnpjs \cup {""}
    /\ options \in [depth : 1 .. 4, produtos : BOOLEAN, notas : BOOLEAN]
    /\ \A l \in loads :
           /\ DOMAIN l = {"id", "cnpj", "options", "merge", "nodes", "rest"}
           /\ l.cnpj \in Cnpjs
           /\ l.options \in [depth : 1 .. 4, produtos : BOOLEAN, notas : BOOLEAN]
           /\ l.merge \in BOOLEAN
    /\ ~crossed => /\ \A l, m \in loads : l = m
                   /\ \A l \in loads : l.merge => Empresa(l.cnpj) \in DOMAIN drawing.nodes
\* A node is of one of three kinds, and is joined to another unless it is a company.
DrawingInv ==
    /\ \A e \in DOMAIN drawing.edges : {e[1], e[2]} \subseteq DOMAIN drawing.nodes
    /\ \A v \in DOMAIN drawing.nodes :
           /\ v[1] \in {Kinds[i] : i \in DOMAIN Kinds}
           /\ v[1] # "empresa" => \E w \in DOMAIN drawing.nodes \ {v} : Joined(drawing, v, w)
    /\ ~crossed => Roots(drawing) = IF root = "" THEN {} ELSE {Empresa(root)}

\* What loads have read, and what the drawing was made of, was there; the rest of an answer is
\* read after its neighbours.
ReadsInv ==
    /\ \A l \in loads :
           /\ \A ds \in l.nodes \cup l.rest : ds \subseteq there
           /\ \A ds \in l.nodes, es \in l.rest : ds \subseteq es
           /\ l.rest # {} => l.nodes # {}
    /\ \A c \in DOMAIN expanded : expanded[c] \subseteq there

IInv == TableInv /\ WalkInv /\ LoadInv /\ DrawingInv /\ ReadsInv /\ ExpandedIsComplete

\* What the page shows holds together, however loads, imports and clicks interleave.
DrawingIsWhole == DrawingIsClosed /\ ExpandedIsComplete /\ RootIsTheCompany
=============================================================================
