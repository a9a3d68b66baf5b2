------------------------------- MODULE Catalog -------------------------------
(***************************************************************************)
(* From the catalog as Hub sends it to the models a connection offers: the *)
(* join of its two arrays, what a reference names, the endpoint a set of   *)
(* models shares, and the set a switch leaves behind.                      *)
(*                                                                         *)
(* A catalog has the rows of models[] in "rows" and the callable entries   *)
(* in "entries"; an entry belongs to the row "of" and offers endpoints in  *)
(* order, each a protocol and an address.                                  *)
(***************************************************************************)
EXTENDS Naturals, SequencesExt, FiniteSets

(* An entry is refused, and the catalog with it, when a field the contract *)
(* requires is missing; an absent price is not such a field.               *)
Parsed(wire) == \A e \in ToSet(wire.entries) : e.offers # <<>> /\ e.alias # "none"

EntriesOf(wire, row) == {e \in ToSet(wire.entries) : e.of = row}

(* A row with one entry behind it is a model, one with two is withheld;    *)
(* an entry without a row is still a model.                                *)
joinCatalog(wire) ==
  {e \in ToSet(wire.entries) :
     e.of \in ToSet(wire.rows) => Cardinality(EntriesOf(wire, e.of)) = 1}

Usable(e) == e.status \in {"available", "degraded"}

(* An id first and exactly; an alias only where it names one model.        *)
Named(models, reference) ==
  LET byId == {e \in models : e.id = reference} IN
  IF byId # {} THEN byId
  ELSE {e \in models : e.alias = reference \/ reference \in e.aliases}
RequireReferenced(models, reference) ==
  {e \in Named(models, reference) : Cardinality(Named(models, reference)) = 1 /\ Usable(e)}

EachOnce(s) ==
  FoldLeft(LAMBDA chosen, x : IF x \in ToSet(chosen) THEN chosen ELSE Append(chosen, x), <<>>, s)
(* The models of a list of references, each once, the first the default;   *)
(* nothing when one of them cannot be used.                                *)
resolveModels(models, references) ==
  IF \E r \in ToSet(references) : RequireReferenced(models, r) = {} THEN <<>>
  ELSE EachOnce([n \in DOMAIN references |->
                   CHOOSE e \in RequireReferenced(models, references[n]) : TRUE])

(* The elements of s that are in T, in their order.                        *)
Among(s, T) == FoldLeft(LAMBDA chosen, x : IF x \in T THEN Append(chosen, x) ELSE chosen, <<>>, s)

(* The models of a binding that are still there and still usable.          *)
Kept(models, ids) ==
  LET there == Among(ids, {e.id : e \in {x \in models : Usable(x)}}) IN
  [n \in DOMAIN there |-> CHOOSE e \in models : e.id = there[n]]

(* The first endpoint of the default model that the Agent can use and      *)
(* every other model offers, at the same address.                          *)
Endpoint(models, usable) ==
  LET first == Head(models)
      Shared(o) == /\ o.protocol \in usable
                   /\ \A e \in ToSet(models) : o \in ToSet(e.offers)
      fits == {n \in DOMAIN first.offers : Shared(first.offers[n])} IN
  IF fits = {} THEN {} ELSE {first.offers[CHOOSE n \in fits : \A k \in fits : n <= k]}

(* Mutant: the protocol alone has to agree.                                *)
SharedProtocolOnly(models, usable) ==
  LET fits == {o \in ToSet(Head(models).offers) :
                 /\ o.protocol \in usable
                 /\ \A e \in ToSet(models) : \E x \in ToSet(e.offers) : x.protocol = o.protocol} IN
  IF fits = {} THEN {} ELSE {CHOOSE o \in fits : TRUE}
selectSharedProtocol(models, usable) == Endpoint(models, usable)

(* What a switch keeps of the models the credential already covers: those  *)
(* the catalog can still describe at the endpoint of the selection.        *)
Carried(models, ids, selected, endpoint) ==
  LET others == ToSet(ids) \ {e.id : e \in ToSet(selected)} IN
  Among(Kept(models, Among(ids, others)), {e \in models : endpoint \in ToSet(e.offers)})
(* Mutant: a switch to another model starts the list anew.                 *)
SelectedOnly(models, ids, selected, endpoint) == selected
modelsAfterSwitch(models, ids, selected, endpoint) ==
  selected \o Carried(models, ids, selected, endpoint)
==============================================================================
