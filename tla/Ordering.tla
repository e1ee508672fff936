------------------------------- MODULE Ordering -------------------------------
(* Sets in order, and Python's stable sorts and slices of sequences.        *)
EXTENDS Naturals, Sequences, FiniteSets

(* The members of a finite set, below[x] those that come before x: sorted   *)
(* if that is a strict total order.                                         *)
OrderedBy(S, below) ==
  LET ranked == {<<Cardinality(below[x]), x>> : x \in S}
  IN [k \in 1 .. Cardinality(S) |-> (CHOOSE p \in ranked : p[1] = k - 1)[2]]

Ascending(S) == OrderedBy(S, [x \in S |-> {y \in S : y < x}])

(* seq[:n]                                                                  *)
Take(seq, n) == SubSeq(seq, 1, IF n < Len(seq) THEN n ELSE Len(seq))

(* The elements at the positions in S.                                      *)
Kept(seq, S) == LET order == Ascending(S) IN [k \in DOMAIN order |-> seq[order[k]]]

(* A stable sort, largest key first, key[i] that of the element at i.       *)
Descending(seq, key) ==
  LET before(i, j) == key[i] > key[j] \/ (key[i] = key[j] /\ i < j)
      order == OrderedBy(DOMAIN seq, [j \in DOMAIN seq |-> {i \in DOMAIN seq : before(i, j)}])
  IN [k \in DOMAIN seq |-> seq[order[k]]]

(* A list extended by each of the sequences in turn, and an offset advanced *)
(* by each of the numbers: at[k] after the first k.                         *)
Concatenated(parts) ==
  LET upto[k \in 0 .. Len(parts)] == IF k = 0 THEN <<>> ELSE upto[k - 1] \o parts[k]
  IN upto[Len(parts)]

Totals(counts) ==
  LET at[k \in 0 .. Len(counts)] == IF k = 0 THEN 0 ELSE at[k - 1] + counts[k] IN at
===============================================================================
