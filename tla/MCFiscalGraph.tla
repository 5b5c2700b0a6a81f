--------------------------- MODULE MCFiscalGraph ---------------------------
(* Documents for TLC: three companies, a nota of two CFOPs, a devolução that
   refers to its origin and to itself, a nota to a recipient without a CNPJ, one
   of a version that has no XSD, two notas of the demo seed, and one whose items
   have an Imposto Seletivo, with an IBSCBS group beside it and without.      *)
EXTENDS FiscalGraph, SeedGenerator

Company(tag, cnpj, uf) ==
    Group(tag, (IF cnpj = "" THEN << >> ELSE <<Leaf("CNPJ", cnpj)>>) \o
               <<Leaf("xNome", tag), Leaf("CRT", 3),
                 Group(IF tag = "emit" THEN "enderEmit" ELSE "enderDest", <<Leaf("UF", uf)>>)>>)
Det(n, ean, ncm, cfop, val, imposto) ==
    Group("det", <<Leaf("@_nItem", n),
                   Group("prod", <<Leaf("cProd", 1), Leaf("cEAN", ean), Leaf("xProd", "p"), Leaf("NCM", ncm),
                                   Leaf("CFOP", cfop), Leaf("qCom", 1), Leaf("vUnCom", val), Leaf("vProd", val)>>),
                   Group("imposto", imposto)>>)
Icms(v) == Group("ICMS", <<Group("ICMS00", <<Leaf("CST", 0), Leaf("vBC", 10 * v), Leaf("vICMS", v)>>)>>)
Simples(v, st) == Group("ICMS", <<Group("ICMSSN201", <<Leaf("CSOSN", 201), Leaf("vICMSST", st), Leaf("vICMS", v)>>)>>)
Ipi(v) == Group("IPI", <<Leaf("cEnq", 999), Group("IPITrib", <<Leaf("CST", 50), Leaf("vIPI", v)>>)>>)
Icmstot(vNF, icms, st, ipi) ==
    Group("ICMSTot", <<Leaf("vICMS", icms), Leaf("vST", st), Leaf("vIPI", ipi), Leaf("vNF", vNF)>>)

\* A document: key, number, emission, purpose, references, companies, items and totals.
Document(k, n, dhEmi, fin, refs, emit, dest, dets, total) ==
    [wellFormed |-> TRUE, versao |-> "4.00", xsdValid |-> TRUE,
     root |-> Group("nfeProc", <<Group("NFe", <<Group("infNFe",
        <<Leaf("@_Id", k),
          Group("ide", <<Leaf("nNF", n), Leaf("serie", 1), Leaf("dhEmi", dhEmi), Leaf("tpNF", 1), Leaf("finNFe", fin)>>
                       \o [i \in DOMAIN refs |-> Group("NFref", <<Leaf("refNFe", refs[i])>>)]),
          emit, dest>> \o dets \o <<Group("total", total)>>)>>)>>)]

D1 == Document(1, 1, At(40, 3), 1, << >>, Company("emit", "A", "SP"), Company("dest", "B", "RJ"),
        <<Det(1, "789", <<10, 1>>, <<5, 102>>, 60, <<Icms(6), Ipi(2)>>),
          Det(2, "789", <<10, 1>>, <<6, 102>>, 40, <<Icms(4)>>)>>, <<Icmstot(102, 10, 0, 2)>>)
D3 == Document(3, 2, At(65, 0), 4, <<1, 3>>, Company("emit", "B", "RJ"), Company("dest", "A", "SP"),
        <<Det(1, "789", <<10, 1>>, <<5, 202>>, 60, <<Icms(6)>>)>>, <<Icmstot(60, 6, 0, 0)>>)
D4 == Document(4, 4, At(66, 1), 1, << >>, Company("emit", "B", "ES"), Company("dest", "", "EX"),
        <<Det(1, "SEM GTIN", <<20, 1>>, <<7, 102>>, 52, <<Simples(3, 2)>>)>>, <<Icmstot(54, 3, 2, 0)>>)
\* imposto/IS (type TIS) and imposto/IBSCBS of leiauteNFe_v4.00.xsd.
Seletivo(v) == Group("IS", <<Leaf("CSTIS", 0), Leaf("cClassTribIS", 0), Leaf("vBCIS", 10 * v), Leaf("vIS", v)>>)
IbsCbs(v) == Group("IBSCBS", <<Leaf("CST", 0), Group("gIBSCBS", <<Group("gCBS", <<Leaf("vCBS", v)>>)>>)>>)
D7 == Document(7, 9, At(67, 1), 1, << >>, Company("emit", "A", "SP"), Company("dest", "B", "RJ"),
        <<Det(1, "790", <<24, 1>>, <<5, 102>>, 30, <<Icms(3), Seletivo(5), IbsCbs(2)>>),
          Det(2, "791", <<24, 2>>, <<5, 102>>, 20, <<Icms(2), Seletivo(4)>>)>>,
        <<Icmstot(50, 5, 0, 0), Group("ISTot", <<Leaf("vIS", 9)>>),
          Group("IBSCBSTot", <<Group("gCBS", <<Leaf("vCBS", 2)>>)>>)>>)
D5 == [D1 EXCEPT !.versao = "3.10"]

\* The seed: its sale of two items is of the reform and of ST, its fourteenth returns a sale.
Empresa(cnpj, uf) == [cnpj |-> cnpj, nome |-> cnpj, uf |-> uf, municipio |-> uf]
Produto(codigo, ncm, cfop, comST) ==
    [codigo |-> codigo, descricao |-> "s", ncm |-> ncm, cfop |-> cfop, valorUnitario |-> 1500,
     aliqICMS |-> 1800, comST |-> comST]
Sorteio == [i \in 1 .. 14 |->
    [chave |-> i + 1, emit |-> Empresa("B", "RJ"), dia |-> 40 + i, comReforma |-> TRUE,
     dests |-> <<Empresa("B", "RJ"), Empresa("C", "MG")>>, sorte |-> 0,
     itens |-> <<<<Produto(7, <<40, 1>>, <<5, 102>>, TRUE), 3>>, <<Produto(8, <<10, 1>>, <<5, 101>>, FALSE), 2>>>>]]
Semeadas == RunSeed(14, Sorteio)
D2 == Semeadas[1]
D6 == Semeadas[14]

AllDocs == {D1, D2, D3, D4, D5, D6}
SelectiveDocs == AllDocs \cup {D7}
Keys == 1 .. 15
Supported == {"4.00"}
=============================================================================
