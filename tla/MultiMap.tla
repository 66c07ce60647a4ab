------------------------------ MODULE MultiMap ------------------------------
(***************************************************************************)
(* What a MAP promises: for each key the items stored under it, oldest     *)
(* first, and in what order all of them are visited is nobody's business.  *)
(***************************************************************************)
EXTENDS Integers, Sequences, FiniteSets, SequencesExt

CONSTANTS Keys, Values,
          RtnArrSize  \* how many items a caller has room for

VARIABLES stored,     \* the items under each key, oldest first
          answer      \* the last call and what it returned

multiMapVars == <<stored, answer>>

\* A call with the return code and the items it handed out.
Answer(call, rc, items) == [call |-> call, rc |-> rc, items |-> items]
\* This is the call, and this what it gets.
Answers(call, rc, items) ==
  /\ answer'.call = call
  /\ answer' = Answer(call, rc, items)
FirstOf(s) == IF s = <<>> THEN <<>> ELSE <<Head(s)>>

MultiMapInit ==
  /\ stored = [k \in Keys |-> <<>>]
  /\ answer = Answer(<<"new">>, "0", <<>>)

Add(k, x) ==
  \/ /\ Answers(<<"addKey">>, "0", <<>>)
     /\ stored' = [stored EXCEPT ![k] = Append(@, x)]
  \/ /\ Answers(<<"addKey">>, "1", <<>>)       \* out of memory
     /\ UNCHANGED stored

Lookup(k) ==
  /\ Answers(<<"findItem", k>>, "0", FirstOf(stored[k]))
  /\ UNCHANGED stored

\* Nothing is handed out when not all fit.
LookupAll(k) ==
  LET fits == Len(stored[k]) <= RtnArrSize
  IN  /\ Answers(<<"findItems", k>>, IF fits THEN "0" ELSE "-1",
                                     IF fits THEN stored[k] ELSE <<>>)
      /\ UNCHANGED stored

\* Without a matching item NULL is returned and nothing changes.
Delete(k) ==
  /\ Answers(<<"removeItem", k>>, "0", FirstOf(stored[k]))
  /\ stored' = [stored EXCEPT ![k] = IF @ = <<>> THEN @ ELSE Tail(@)]

DeleteItem(k, x) ==
  LET places == {i \in DOMAIN stored[k] : stored[k][i] = x}
      first  == CHOOSE i \in places : \A j \in places : i <= j
  IN  /\ Answers(<<"removeSpecificItem", k, x>>, "0", IF places = {} THEN <<>> ELSE <<x>>)
      /\ stored' = IF places = {} THEN stored
                   ELSE [stored EXCEPT ![k] = RemoveAt(@, first)]

Empty ==
  /\ Answers(<<"clear">>, "0", <<>>)
  /\ stored' = [k \in Keys |-> <<>>]

\* Every item once for each time it is stored, in any order.
Everything(s) ==
  LET places == UNION {{k} \X DOMAIN stored[k] : k \in Keys}
  IN  /\ Len(s) = Cardinality(places)
      /\ \A x \in Values :
           Cardinality({i \in DOMAIN s : s[i] = x})
             = Cardinality({p \in places : stored[p[1]][p[2]] = x})

Visit ==
  /\ Answers(<<"fetchAll">>, "0", answer'.items)
  /\ UNCHANGED stored
  /\ Everything(answer'.items)

MultiMapNext ==
  \/ Empty
  \/ Visit
  \/ \E k \in Keys :
       \/ \E x \in Values : Add(k, x) \/ DeleteItem(k, x)
       \/ Lookup(k)
       \/ LookupAll(k)
       \/ Delete(k)

MultiMapSpec == MultiMapInit /\ [][MultiMapNext]_multiMapVars
=============================================================================
