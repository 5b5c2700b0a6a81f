------------------------------ MODULE MCBrowse ------------------------------
(* Three notas for TLC: two of one instant and two of one value, so that every
   order has ties; A sells to B, and B to C.  And two events at the start, of two
   types and two instants: the one that is recorded comes before, between or after
   them or has the instant of either, which a border of a page may then cut.

   The user opens either these pages or the feed of events.  The two share no
   state, so that nothing is lost by not opening both.                        *)
EXTENDS GraphScreen, EventFeed

VARIABLE opened     \* "pages" or "feed"

Nf(k, day, val, cnpj, uf, dest) ==
    [wellFormed |-> TRUE, versao |-> "4.00", xsdValid |-> TRUE,
     root |-> Group("NFe", <<Group("infNFe",
        <<Leaf("@_Id", k),
          Group("ide", <<Leaf("nNF", k), Leaf("serie", 1), Leaf("dhEmi", At(day, 0)), Leaf("tpNF", 1), Leaf("finNFe", 1)>>),
          Group("emit", <<Leaf("CNPJ", cnpj), Leaf("xNome", "e"), Group("enderEmit", <<Leaf("UF", uf)>>)>>),
          Group("dest", <<Leaf("CNPJ", dest), Leaf("xNome", "d"), Group("enderDest", <<Leaf("UF", "MG")>>)>>),
          Group("det", <<Leaf("@_nItem", 1),
             Group("prod", <<Leaf("cProd", 1), Leaf("cEAN", "789"), Leaf("xProd", "p"), Leaf("NCM", <<10, 1>>),
                             Leaf("CFOP", <<5, 102>>), Leaf("vProd", val)>>), Group("imposto", << >>)>>),
          Group("total", <<Group("ICMSTot", <<Leaf("vNF", val)>>)>>)>>)>>)]

Documents(k) == CASE k = 1 -> Nf(1, 40, 50, "A", "SP", "B") [] k = 2 -> Nf(2, 40, 60, "A", "SP", "B")
                  [] k = 3 -> Nf(3, 41, 50, "B", "RJ", "C")
Keys == 1 .. 3
Supported == {"4.00"}
Stored == {[depth |-> 1, produtos |-> TRUE, notas |-> TRUE]}
Maximum == {<<"valorTotalMax", 55>>}

Ev(tipo, timestamp) == [tipo |-> tipo, timestamp |-> timestamp]
Start == <<Ev("importada", 2), Ev("consultada", 4)>>

ScreensInit ==
    /\ PagesInit /\ FeedInit
    /\ opened \in {"pages", "feed"} /\ (opened = "feed" => at = "explorer")
ScreensNext ==
    \/ opened = "pages" /\ PagesNext /\ UNCHANGED <<feedVars, opened>>
    \/ opened = "feed" /\ FeedNext /\ UNCHANGED <<vars, screen, opened>>
ScreensSpec == ScreensInit /\ [][ScreensNext]_<<vars, screen, feedVars, opened>>
=============================================================================
