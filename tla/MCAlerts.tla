------------------------------ MODULE MCAlerts ------------------------------
(* Notas for TLC: the same issuer and value twice on each of two days, with a
   gap in the numbers.  The last of Groups is what a fingerprint by value would be.  *)
EXTENDS AlertService

Nota(k, n, day, val) ==
    [wellFormed |-> TRUE, versao |-> "4.00", xsdValid |-> TRUE,
     root |-> Group("NFe", <<Group("infNFe",
        <<Leaf("@_Id", k),
          Group("ide", <<Leaf("nNF", n), Leaf("serie", 1), Leaf("dhEmi", At(day, 0)), Leaf("tpNF", 1), Leaf("finNFe", 1)>>),
          Group("emit", <<Leaf("CNPJ", "A"), Leaf("xNome", "a")>>),
          Group("total", <<Group("ICMSTot", <<Leaf("vICMS", 1), Leaf("vNF", val)>>)>>)>>)>>)]

Duplicates(k) == CASE k = 1 -> Nota(1, 1, 40, 50) [] k = 2 -> Nota(2, 2, 40, 50)
                   [] k = 3 -> Nota(3, 5, 41, 50) [] k = 4 -> Nota(4, 6, 41, 50)

Keys == 1 .. 4
Supported == {"4.00"}
Only(rules) == [r \in RuleNames |-> [enabled |-> r \in rules]]
Bodies(c) == CASE c = "both" -> Only({"duplicate", "numberingGap"})
               [] c = "duplicates" -> Only({"duplicate"})
Groups == {<<"duplicate", {1, 2}>>, <<"duplicate", {3, 4}>>,
           <<"numbering_gap", <<"A", 1>>, 2, 5>>, <<"numbering_gap", <<"A", 1>>, 2, 6>>,
           <<"duplicate", {50}>>}
=============================================================================
