----------------------------- MODULE JsonFields -----------------------------
(***************************************************************************)
(* Which fields of a struct the JSON package sees: typeFields and          *)
(* dominantField of jose/json/encode.go.  decls holds the declarations of  *)
(* the struct types: for each type its fields in order, each with its Go   *)
(* name, the name its json tag gives (NoTag if it gives none, "-" to leave *)
(* the field out), whether it is embedded and exported, and its type (a    *)
(* pointer is followed, so types may embed each other).                    *)
(***************************************************************************)
EXTENDS Naturals, Sequences, SequencesExt

CONSTANTS MaxFields   \* bound on the fields of one declaration

VARIABLES decls

NoTag == ""
Structs == DOMAIN decls
Top == "S"

\* sf is scanned and becomes a field of its own; otherwise it is an anonymous
\* struct whose fields are promoted.
Scanned(sf) == (sf.exported \/ sf.anonymous) /\ sf.tag # "-"
Recorded(sf) == sf.tag # NoTag \/ ~sf.anonymous \/ sf.type \notin Structs

field(sf, index) ==
  [name |-> IF sf.tag = NoTag THEN sf.name ELSE sf.tag, tag |-> sf.tag # NoTag, index |-> index]

\* One level of the breadth-first search: the structs in current, count[t] times
\* each, and what is found in them.
Occurrences(f) ==
  LET all == [i \in 1..Len(decls[f.type]) |->
                [sf |-> decls[f.type][i], index |-> Append(f.index, i), in |-> f.type]]
  IN  SelectSeq(all, LAMBDA o : Scanned(o.sf))

firstOfType(seq, o) == \A p \in ToSet(seq) : p.sf.type = o.sf.type =>
  \E i, j \in 1..Len(seq) : seq[i] = o /\ seq[j] = p /\ i <= j

RECURSIVE search(_, _, _)
search(current, count, visited) ==
  LET fresh == SelectSeq(current, LAMBDA f : f.type \notin visited)
      found == FlattenSeq([i \in 1..Len(fresh) |-> Occurrences(fresh[i])])
      own == SelectSeq(found, LAMBDA o : Recorded(o.sf))
      twice == [i \in 1..Len(own) |->
                  LET g == field(own[i].sf, own[i].index)
                  IN  IF count[own[i].in] > 1 THEN <<g, g>> ELSE <<g>>]
      deeper == SelectSeq(found, LAMBDA o : ~Recorded(o.sf))
      first == SelectSeq(deeper, LAMBDA o : firstOfType(deeper, o))
      nextCount == [t \in Structs |-> Len(SelectSeq(deeper, LAMBDA o : o.sf.type = t))]
  IN  IF current = <<>> THEN <<>>
      ELSE FlattenSeq(twice)
             \o search([i \in 1..Len(first) |-> [type |-> first[i].sf.type, index |-> first[i].index]],
                       nextCount, visited \cup {fresh[i].type : i \in 1..Len(fresh)})

\* A plausible slip: of two tagged fields the first wins.
FirstTagged(fields) ==
  LET top == SelectSeq(fields, LAMBDA f : \A g \in ToSet(fields) : Len(f.index) <= Len(g.index))
      tagged == SelectSeq(top, LAMBDA f : f.tag)
  IN  IF tagged # <<>> THEN <<tagged[1]>> ELSE IF Len(top) > 1 THEN <<>> ELSE top

\* The field that hides the others of its name; a sequence of none or one.
dominantField(fields) ==
  LET top == SelectSeq(fields, LAMBDA f : \A g \in ToSet(fields) : Len(f.index) <= Len(g.index))
      tagged == SelectSeq(top, LAMBDA f : f.tag)
  IN  CASE Len(tagged) > 1 -> <<>>
        [] Len(tagged) = 1 -> tagged
        [] Len(tagged) = 0 -> IF Len(top) > 1 THEN <<>> ELSE top

typeFields(t) ==
  LET fields == search(<<[type |-> t, index |-> <<>>]>>, [u \in Structs |-> 0], {})
      names == {f.name : f \in ToSet(fields)}
      Named(n) == dominantField(SelectSeq(fields, LAMBDA f : f.name = n))
  IN  UNION {ToSet(Named(n)) : n \in names}

-----------------------------------------------------------------------------
\* The programmer declares one more field of t, of another name (as Go demands).
Declare(t, sf) ==
  /\ Len(decls[t]) < MaxFields
  /\ \A i \in 1..Len(decls[t]) : decls[t][i].name # sf.name
  /\ decls' = [decls EXCEPT ![t] = Append(@, sf)]

-----------------------------------------------------------------------------
\* Every way to reach a struct from t through embedding, depth steps deep.
RECURSIVE Embedding(_, _)
Embedding(t, depth) ==
  LET into == {i \in 1..Len(decls[t]) : Scanned(decls[t][i]) /\ ~Recorded(decls[t][i])}
      Under(i) == {[e EXCEPT !.index = <<i>> \o e.index] : e \in Embedding(decls[t][i].type, depth - 1)}
  IN  {[type |-> t, index |-> <<>>]} \cup IF depth = 0 THEN {} ELSE UNION {Under(i) : i \in into}

Reached ==
  UNION {{field(decls[e.type][i], Append(e.index, i)) :
            i \in {j \in 1..Len(decls[e.type]) : Scanned(decls[e.type][j]) /\ Recorded(decls[e.type][j])}} :
         e \in Embedding(Top, 5)}

\* Of the fields of one name Go's rule promotes the shallowest, a tagged one before
\* the others, and none if two are left.
Promoted ==
  LET Hides(f, g) == Len(f.index) < Len(g.index) \/ (Len(f.index) = Len(g.index) /\ f.tag /\ ~g.tag)
  IN  {f \in Reached : \A g \in Reached \ {f} : g.name = f.name => Hides(f, g)}

\* A struct embedded twice at one depth embeds another struct.
TwiceOver ==
  \E d, e \in Embedding(Top, 5) :
    /\ d # e /\ d.type = e.type /\ Len(d.index) = Len(e.index)
    /\ \E sf \in ToSet(decls[d.type]) : Scanned(sf) /\ ~Recorded(sf)

\* typeFields, which counts types level by level and never follows a type twice,
\* finds exactly the fields Go's rule promotes, through structs that embed each
\* other or the same struct twice (encode.go:1097).  TwiceOver is left out: a struct
\* embedded twice is counted twice, one embedded in it only once (encode.go:1087), so
\* a field Go calls ambiguous is seen.
FieldsAreGo == TwiceOver \/ typeFields(Top) = Promoted
=============================================================================
