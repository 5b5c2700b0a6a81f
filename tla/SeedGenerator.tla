--------------------------- MODULE SeedGenerator ---------------------------
(* packages/worker seed: the notas of the demo and the run that processes them.
   Money is in cents, a rate in hundredths of a percent.  What a nota takes from
   the random numbers is a record, its draw: a key, companies, items as pairs
   <<product, quantity>>, whether it is of the reform, and a day.  Elements the
   parser never reads are left out.                                           *)
EXTENDS NFeDocument

\* round2 of a rate of an amount.
Rate(v, rate) == (v * rate + 5000) \div 10000

IpiRate == 500
PisRate == 165
CofinsRate == 760
FcpRate == 200
MvaSt == 4000
IbsUfRate == 850
IbsMunRate == 200
CbsRate == 930
IsRate == 100

CalcTaxes(prod, qtd) ==
    LET v    == prod.valorUnitario * qtd
        icms == Rate(v, prod.aliqICMS)
        bcst == IF prod.comST THEN Rate(v, 10000 + MvaSt) ELSE 0
    IN  [vProd |-> v, vBC |-> v, vICMS |-> icms, vBCST |-> bcst,
         vICMSST |-> IF prod.comST THEN Max({0, Rate(bcst, prod.aliqICMS) - icms}) ELSE 0,
         vFCP |-> IF prod.comST THEN Rate(v, FcpRate) ELSE 0,
         vIPI |-> Rate(v, IpiRate), vPIS |-> Rate(v, PisRate), vCOFINS |-> Rate(v, CofinsRate)]

CalcReforma(v) ==
    [vIBSUF |-> Rate(v, IbsUfRate), vIBSMun |-> Rate(v, IbsMunRate), vCBS |-> Rate(v, CbsRate),
     vIBS |-> Rate(v, IbsUfRate) + Rate(v, IbsMunRate), vIS |-> Rate(v, IsRate)]

\* Leaves of the same names as the fields of a record.
Leaves(r, fields) == [i \in DOMAIN fields |-> Leaf(fields[i], r[fields[i]])]

\* The group IBSCBS; the Imposto Seletivo has no place in it, nor anywhere in the item.
IbsCbsXml(v) ==
    LET r == CalcReforma(v) IN
    Group("IBSCBS", <<Leaf("CST", 0), Leaf("cClassTrib", 1),
        Group("gIBSCBS", <<Leaf("vBC", v),
            Group("gIBSUF", <<Leaf("pIBSUF", IbsUfRate), Leaf("vIBSUF", r.vIBSUF)>>),
            Group("gIBSMun", <<Leaf("pIBSMun", IbsMunRate), Leaf("vIBSMun", r.vIBSMun)>>),
            Leaf("vIBS", r.vIBS),
            Group("gCBS", <<Leaf("pCBS", CbsRate), Leaf("vCBS", r.vCBS)>>)>>)>>)

ImpostoXml(prod, tx, comReforma) ==
    LET icms == <<Leaf("CST", IF prod.comST THEN 10 ELSE 0), Leaf("vBC", tx.vBC),
                  Leaf("pICMS", prod.aliqICMS), Leaf("vICMS", tx.vICMS)>>
        st   == Leaves(tx, <<"vFCP", "vBCST", "vICMSST">>)
    IN  Group("imposto", <<
            Group("ICMS", <<IF prod.comST THEN Group("ICMS10", icms \o st) ELSE Group("ICMS00", icms)>>),
            Group("IPI", <<Leaf("cEnq", 999), Group("IPITrib", <<Leaf("CST", 50), Leaf("vIPI", tx.vIPI)>>)>>),
            Group("PIS", <<Group("PISAliq", <<Leaf("CST", 1), Leaf("vPIS", tx.vPIS)>>)>>),
            Group("COFINS", <<Group("COFINSAliq", <<Leaf("CST", 1), Leaf("vCOFINS", tx.vCOFINS)>>)>>)>>
            \o IF comReforma THEN <<IbsCbsXml(tx.vProd)>> ELSE << >>)

DetXml(n, prod, qtd, cfop, comReforma) ==
    LET tx == CalcTaxes(prod, qtd) IN
    Group("det", <<Leaf("@_nItem", n),
        Group("prod", <<Leaf("cProd", prod.codigo), Leaf("cEAN", "SEM GTIN"), Leaf("xProd", prod.descricao),
                        Leaf("NCM", prod.ncm), Leaf("CFOP", cfop), Leaf("uCom", "UN"), Leaf("qCom", qtd),
                        Leaf("vUnCom", prod.valorUnitario), Leaf("vProd", tx.vProd), Leaf("uTrib", "UN")>>),
        ImpostoXml(prod, tx, comReforma)>>)

CompanyXml(tag, ender, e) ==
    Group(tag, <<Leaf("CNPJ", e.cnpj), Leaf("xNome", e.nome),
                 Group(ender, <<Leaf("UF", e.uf), Leaf("xMun", e.municipio),
                                Leaf("CEP", IF tag = "emit" THEN "01001000" ELSE "02002000")>>)>>
               \o IF tag = "emit" THEN <<Leaf("IE", "111111111111"), Leaf("CRT", 3)>> ELSE << >>)

\* The sums over the items, and the groups of total that hold them.
Tot(draw, field) == FoldLeft(LAMBDA n, it : n + CalcTaxes(it[1], it[2])[field], 0, draw.itens)
TotR(draw, field) == FoldLeft(LAMBDA n, it : n + CalcReforma(CalcTaxes(it[1], it[2]).vProd)[field], 0, draw.itens)
VNF(draw) == Tot(draw, "vProd") + Tot(draw, "vIPI") + Tot(draw, "vICMSST") + Tot(draw, "vFCP")
TotalXml(draw, comReforma) ==
    LET tot(f)  == Leaf(f, Tot(draw, f))
        totR(f) == Leaf(f, TotR(draw, f))
    IN  Group("total",
            <<Group("ICMSTot", <<tot("vBC"), tot("vICMS"), tot("vFCP"), tot("vBCST"), Leaf("vST", Tot(draw, "vICMSST")),
                                 tot("vProd"), tot("vIPI"), tot("vPIS"), tot("vCOFINS"), Leaf("vNF", VNF(draw))>>)>>
            \o IF ~comReforma THEN << >>
               ELSE <<Group("ISTot", <<totR("vIS")>>),
                      Group("IBSCBSTot", <<Leaf("vBCIBSCBS", Tot(draw, "vProd")),
                          Group("gIBS", <<Group("gIBSUF", <<totR("vIBSUF")>>), Group("gIBSMun", <<totR("vIBSMun")>>),
                                          totR("vIBS")>>),
                          Group("gCBS", <<totR("vCBS")>>)>>)>>)

NoRef == << >>
\* generateNFe: a sale of one to three items, or the return of the sale ref holds, of one.
GenerateNFe(seq, draw, ref) ==
    LET ehDevolucao == ref # NoRef
        comReforma  == ~ehDevolucao /\ draw.comReforma
        its  == IF ehDevolucao THEN SubSeq(draw.itens, 1, 1) ELSE draw.itens
        used == [draw EXCEPT !.itens = its]
        dest == SelectSeq(draw.dests, LAMBDA d : d.cnpj # draw.emit.cnpj)[1]
        cfop(it) == IF ehDevolucao THEN <<1, 202>> ELSE it[1].cfop
        ide  == <<Leaf("natOp", IF ehDevolucao THEN "DEVOLUCAO" ELSE "VENDA"), Leaf("serie", 1), Leaf("nNF", seq),
                  Leaf("dhEmi", At(draw.dia, 8)), Leaf("tpNF", IF ehDevolucao THEN 0 ELSE 1),
                  Leaf("finNFe", IF ehDevolucao THEN 4 ELSE 1), Leaf("indFinal", 1), Leaf("indPres", 1)>>
    IN  [wellFormed |-> TRUE, versao |-> "4.00", xsdValid |-> TRUE,
         root |-> Group("NFe", <<Group("infNFe",
            <<Leaf("@_Id", draw.chave),
              Group("ide", ide \o [i \in DOMAIN ref |-> Group("NFref", <<Leaf("refNFe", ref[i])>>)]),
              CompanyXml("emit", "enderEmit", draw.emit), CompanyXml("dest", "enderDest", dest)>>
            \o [i \in DOMAIN its |-> DetXml(i, its[i][1], its[i][2], cfop(its[i]), comReforma)]
            \o <<TotalXml(used, comReforma)>>)>>)]

\* runSeed: every seventh nota but the first returns one of the sales so far, which its
\* draw picks.  What it processes, in order; a failure is counted and the run goes on.
RunSeed(count, draws) ==
    LET next(run, i) ==
            LET ehDevolucao == i > 7 /\ i % 7 = 0 /\ run.vendas # << >>
                draw == draws[i]
                ref  == IF ehDevolucao THEN <<run.vendas[(draw.sorte % Len(run.vendas)) + 1]>> ELSE NoRef
            IN  [docs |-> Append(run.docs, GenerateNFe(i, draw, ref)),
                 vendas |-> IF ehDevolucao THEN run.vendas ELSE Append(run.vendas, draw.chave)]
    IN  FoldLeft(next, [docs |-> << >>, vendas |-> << >>], [i \in 1 .. count |-> i]).docs
=============================================================================
