---------------------------- MODULE NFeDocument ----------------------------
(* packages/core: an NF-e document, its validation and its parsing.

   A document is a tree of elements as fast-xml-parser hands it to the code: an
   element has a tag, a value when it is a leaf, and its children in document
   order.  Values are model data: a number stands for a decimal string, a
   string for a text; Absent is JavaScript's undefined and is also what an
   empty text reads as (asString).  A date is an integer: see Day and At.    *)
EXTENDS Integers, Sequences, SequencesExt, FiniteSetsExt, TLC

CONSTANTS
    Absent,        \* undefined
    AccessKeys,    \* the Ids that hold 44 digits after "NFe"
    Versions       \* the schema versions with an XSD on disk

Leaf(tag, val) == [tag |-> tag, val |-> val, kids |-> << >>]
Group(tag, kids) == [tag |-> tag, val |-> Absent, kids |-> kids]

\* isObj: the parser turns an element with children into an object.
IsObj(e) == e.kids # << >>
None == Group("", << >>)

\* node[tag]: the child of that tag; an absent child reads as nothing.
Child(e, tag) == LET found == SelectSeq(e.kids, LAMBDA k : k.tag = tag)
                 IN  IF found = << >> THEN None ELSE found[1]
Children(e, tag) == SelectSeq(e.kids, LAMBDA k : k.tag = tag)
Text(e, tag) == Child(e, tag).val

\* a ?? b
Or(a, b) == IF a = Absent THEN b ELSE a

\* { ...b, ...a }: what is set in a goes over b.  It is a @@ b, in a form that can be proved about.
Over(a, b) == [p \in (DOMAIN a) \cup (DOMAIN b) |-> IF p \in DOMAIN a THEN a[p] ELSE b[p]]

\* The members of a set as a sequence: what the pairs of "before" put ahead comes ahead, what
\* they leave apart comes in any order, and so do all should they be circular.
Ordered(S, before) ==
    LET first(T) == LET heads == {x \in T : \A y \in T : <<y, x>> \notin before}
                    IN  CHOOSE x \in IF heads = {} THEN T ELSE heads : TRUE
        from[T \in SUBSET S] == IF T = {} THEN << >> ELSE <<first(T)>> \o from[T \ {first(T)}]
    IN  from[S]
\* Numbers, the least first.
Ascending(S) == Ordered(S, {p \in S \X S : p[1] < p[2]})

\* An object has only the fields that are set.
Known(obj) == Restrict(obj, {p \in DOMAIN obj : obj[p] # Absent})
\* The object of the elements that "fields" (xml tag -> name) tells of.
Present(e, fields) ==
    Known([p \in {fields[t] : t \in DOMAIN fields} |-> Text(e, CHOOSE t \in DOMAIN fields : fields[t] = p)])
Same(tags) == [t \in tags |-> t]

-----------------------------------------------------------------------------
(* validateNFe and the registry of schemas.  The XSD itself is external: a
   document of the model says whether it satisfies it.                       *)

IsVersaoSuportada(versao) == versao \in Versions

\* What validateNFe returns or throws for a document.
ValidateNFe(doc) ==
    IF ~doc.wellFormed \/ doc.versao = Absent THEN "XmlMalformadoError"
    ELSE IF ~IsVersaoSuportada(doc.versao) THEN "VersaoSchemaNaoSuportadaError"
    ELSE IF doc.xsdValid THEN "valid" ELSE "invalid"

-----------------------------------------------------------------------------
(* The identity of a product and the catalogues.                             *)

AsEan(v) == IF v = "SEM GTIN" THEN Absent ELSE v

\* The EAN names the product everywhere, a code only within its issuer.
ResolveUniqueId(codigo, cnpjEmitente, ean) ==
    IF AsEan(ean) # Absent THEN <<ean>> ELSE <<codigo, cnpjEmitente>>

\* A CFOP is <<its first digit, the rest>>.
LookupCfop(cfop) ==
    IF cfop[1] \notin {1, 2, 3, 5, 6, 7} THEN << >>
    ELSE [tipo |-> IF cfop[1] <= 3 THEN "entrada" ELSE "saida",
          natureza |-> <<"interna", "interestadual", "exterior">>[((cfop[1] - 1) % 4) + 1]]

\* An NCM is <<its chapter, the rest>>.
LookupNcm(ncm) == [capitulo |-> ncm[1]]

MapTipoNF(tpNF) == IF tpNF = 0 THEN "entrada" ELSE "saida"
MapFinalidade(finNFe) ==
    IF finNFe \in 2 .. 4 THEN <<"complementar", "ajuste", "devolucao">>[finNFe - 1]
    ELSE "normal"
MapRegime(crt) ==
    IF crt \in 1 .. 3 THEN <<"simples", "simplesExcesso", "normal">>[crt] ELSE Absent

-----------------------------------------------------------------------------
(* The taxes of an item and the totals of a nota.                            *)

\* Mutant of FindTaxValue: only the group's own children are looked at.
FindShallow(e, tag) == Text(e, tag)
\* The first element of that tag below a group, depth first.  Tax groups nest no deeper.
TaxDepth == 5
Below(e) == LET at[n \in 0 .. TaxDepth] == IF n = 0 THEN {e} ELSE UNION {ToSet(x.kids) : x \in at[n - 1]}
            IN  UNION {at[n] : n \in 0 .. TaxDepth}
FindTaxValue(e, tag) ==
    LET find[x \in Below(e)] ==
            LET hits == {i \in DOMAIN x.kids : IsObj(x.kids[i]) /\ find[x.kids[i]] # Absent}
            IN  Or(Text(x, tag), IF hits = {} THEN Absent ELSE find[x.kids[Min(hits)]])
    IN  find[e]

Found(e, tags) == Known([t \in tags |-> FindTaxValue(e, t)])

IcmsFields == [CSOSN |-> "cst", vICMS |-> "vICMS", vBC |-> "vBCICMS", pICMS |-> "pICMS",
               vBCST |-> "vBCST", vICMSST |-> "vICMSST", vFCP |-> "vFCP",
               vICMSDeson |-> "vICMSDeson"]

\* The group has one variable child (ICMS00, ICMSSN102, ...).
ExtractIcms(imposto) ==
    LET groups == SelectSeq(Child(imposto, "ICMS").kids, IsObj)
    IN  IF groups = << >> THEN << >>
        ELSE Present(groups[1], [CST |-> "cst"]) @@ Present(groups[1], IcmsFields)

\* The IBS of an item that only states its parts is their sum.
WithIBS(out) ==
    LET parts == {"vIBSUF", "vIBSMun"} \cap DOMAIN out
    IN  IF "vIBS" \in DOMAIN out \/ parts = {} THEN out
        ELSE out @@ [vIBS |-> FoldSet(LAMBDA t, sum : sum + out[t], 0, parts)]
\* The reform: everything is looked for inside IBSCBS/gIBSCBS.
ReformaOf(g) ==
    WithIBS(Present(g, [CST |-> "cstIBSCBS", cClassTrib |-> "cClassTrib"])
            @@ Found(g, {"vBCIBSCBS", "vIBS", "vIBSUF", "pIBSUF", "vIBSMun", "pIBSMun",
                         "vCBS", "pCBS", "vIS", "pIS"}))
ExtractReforma(imposto) == ReformaOf(Child(Child(imposto, "IBSCBS"), "gIBSCBS"))

\* The taxes of one value, each in a group of its own.
SingleTaxes == [vIPI |-> "IPI", vPIS |-> "PIS", vCOFINS |-> "COFINS", vII |-> "II", vISSQN |-> "ISSQN"]
ExtractTaxes(imposto) ==
    ExtractIcms(imposto)
    @@ Known([t \in DOMAIN SingleTaxes |-> FindTaxValue(Child(imposto, SingleTaxes[t]), t)])
    @@ ExtractReforma(imposto)

ExtractTotals(total) ==
    Present(Child(total, "ICMSTot"),
            Same({"vNF", "vProd", "vBC", "vICMS", "vICMSDeson", "vFCP", "vBCST", "vST",
                  "vIPI", "vPIS", "vCOFINS", "vII", "vFrete", "vSeg", "vDesc", "vOutro"}))
    @@ Found(Child(total, "IBSCBSTot"), {"vBCIBSCBS", "vIBS", "vIBSUF", "vIBSMun", "vCBS"})
    @@ Found(Child(total, "ISTot"), {"vIS"})

-----------------------------------------------------------------------------
(* The parser.                                                               *)

\* The access keys a nota refers to, in ide/NFref.
ExtractReferences(ide) ==
    LET refs == Children(ide, "NFref")
        keys == [i \in DOMAIN refs |-> Or(Text(refs[i], "refNFe"), Text(refs[i], "refNFeSig"))]
    IN  SelectSeq(keys, LAMBDA k : k # Absent)

ParseCompany(e, isEmit) ==
    LET ender  == Child(e, IF Child(e, "enderEmit") # None THEN "enderEmit" ELSE "enderDest")
        regime == IF isEmit THEN MapRegime(Text(e, "CRT")) ELSE Absent
    IN  Over([cnpj |-> Or(Text(e, "CNPJ"), Or(Text(e, "CPF"), "")),
              razaoSocial |-> Or(Text(e, "xNome"), ""),
              uf |-> Or(Text(ender, "UF"), ""), municipio |-> Or(Text(ender, "xMun"), "")],
             Present(e, [xFant |-> "nomeFantasia", IE |-> "ie", IM |-> "im", CNAE |-> "cnae"])
             @@ Present(ender, [CEP |-> "cep", xLgr |-> "logradouro", nro |-> "numero"])
             @@ (IF regime = Absent THEN << >> ELSE [regimeTributario |-> regime]))

ParseItem(det, cnpjEmit) ==
    LET prod == Child(det, "prod")
        ean  == AsEan(Text(prod, "cEAN"))
        cfop == Text(prod, "CFOP")
    IN  [produto |-> [idUnico |-> ResolveUniqueId(Text(prod, "cProd"), cnpjEmit, ean),
                      codigo |-> Text(prod, "cProd"), descricao |-> Text(prod, "xProd"),
                      cnpjEmitente |-> cnpjEmit]
                     @@ Present(prod, [uCom |-> "unidade", uTrib |-> "unidadeTrib",
                                       EXTIPI |-> "extipi"])
                     @@ (IF ean = Absent THEN << >> ELSE [ean |-> ean]),
         ncm |-> Text(prod, "NCM"),
         cfop |-> cfop,
         contem |-> Over([numeroItem |-> Text(det, "@_nItem"),
                          quantidade |-> Or(Text(prod, "qCom"), 0),
                          valorUnitario |-> Or(Text(prod, "vUnCom"), 0),
                          valorTotal |-> Or(Text(prod, "vProd"), 0), cfop |-> cfop],
                         Present(prod, [vDesc |-> "desconto", CEST |-> "cest"])
                         @@ ExtractTaxes(Child(det, "imposto")))]

\* What parseNFe makes of the element infNFe; "ok" is false when it throws NFeParseError.
ParseInf(inf, importadoEm) ==
    LET ide  == Child(inf, "ide")
        emit == Child(inf, "emit")
        dest == Child(inf, "dest")
        tot  == Child(inf, "total")
        dets == Children(inf, "det")
        id   == Text(inf, "@_Id")
        cnpj == Or(Text(emit, "CNPJ"), "")
        dhEmi == Or(Text(ide, "dhEmi"), importadoEm)
    IN  IF ~IsObj(inf) \/ id \notin AccessKeys THEN [ok |-> FALSE]
        ELSE [ok |-> TRUE,
              nota |-> Over([chaveAcesso |-> id, numero |-> Or(Text(ide, "nNF"), ""),
                             serie |-> Or(Text(ide, "serie"), ""),
                             dataEmissao |-> dhEmi, dataSaida |-> Or(Text(ide, "dhSaiEnt"), dhEmi),
                             valorTotal |-> Or(Text(Child(tot, "ICMSTot"), "vNF"), 0),
                             status |-> "ativa", tipoNF |-> MapTipoNF(Text(ide, "tpNF")),
                             finalidade |-> MapFinalidade(Text(ide, "finNFe")),
                             importadaEm |-> importadoEm],
                            Present(ide, [natOp |-> "naturezaOp", indFinal |-> "indFinal",
                                          indPres |-> "indPres"])
                            @@ Present(Child(inf, "infAdic"), Same({"infCpl", "infAdFisco"}))),
              emitente |-> ParseCompany(emit, TRUE),
              destinatario |-> IF IsObj(dest) THEN <<ParseCompany(dest, FALSE)>> ELSE << >>,
              itens |-> [i \in DOMAIN dets |-> ParseItem(dets[i], cnpj)],
              totais |-> ExtractTotals(tot),
              referencias |-> ExtractReferences(ide)]

\* What parseNFe returns at an instant.
InfOf(doc) == Child(IF doc.root.tag = "NFe" THEN doc.root ELSE Child(doc.root, "NFe"), "infNFe")
ParseNFe(doc, importadoEm) == ParseInf(InfOf(doc), importadoEm)

-----------------------------------------------------------------------------
(* Dates as the code compares them: ISO strings, a day without a time sorting
   before every time of that day, and a suffix '\uffff' after them all.      *)
Day(d) == 10 * d
At(d, hour) == Day(d) + 1 + hour
EndOfDay(date) == date + 9
DayOf(instant) == instant \div 10
MonthOf(instant) == DayOf(instant) \div 30
=============================================================================
