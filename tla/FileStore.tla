------------------------------- MODULE FileStore -------------------------------
(***************************************************************************)
(* The default persistent store (src/src/MQTTPersistenceDefault.c): one    *)
(* file per key in the directory of a client.  A key is a pair of its stem *)
(* ("s-", "sc-", "r-", "c-" or "q-") and its number.                       *)
(***************************************************************************)
EXTENDS Naturals, Sequences, SequencesExt

Torn == [id |-> 0, n |-> 0, qos |-> 0]   \* a file of which a part has been written
Stems == <<"c-", "q-", "r-", "s-", "sc-">>

NoFiles == <<>>
Directory(exists, files) == [exists |-> exists, files |-> files]

\* mkdir of every level of the path; one that exists is no error
PstOpen(d) == [d EXCEPT !.exists = TRUE]

\* rmdir, which leaves a directory that is not empty
PstClose(d) == [d EXCEPT !.exists = d.files # NoFiles]

PstContainsKey(d, key) == key \in DOMAIN d.files
PstGet(d, key) == d.files[key]

\* fopen "wb" empties the file before the buffers are written to it
PstPut(d, key, content) ==
  [d EXCEPT !.files = [k \in DOMAIN d.files \cup {key} |->
                         IF k = key THEN content ELSE d.files[k]]]
PstPutTorn(d, key) == PstPut(d, key, Torn)

\* a file that is not there is no error
PstRemove(d, key) == [d EXCEPT !.files = Restrict(d.files, DOMAIN d.files \ {key})]

\* clearUnix removes the names of the directory's entries from the working directory
\* of the process, where they are not: the store keeps them
PstClear(d) == d

\* the elements of a set in an order
Sorted(S, Less(_, _)) ==
  [i \in 1..Cardinality(S) |-> CHOOSE x \in S : Cardinality({y \in S : Less(y, x)}) = i - 1]

\* readdir promises no order: two opposite ones stand for all of them
ByName(k, l) ==
  LET stem(x) == CHOOSE i \in DOMAIN Stems : Stems[i] = x[1]
  IN  stem(k) < stem(l) \/ (stem(k) = stem(l) /\ k[2] < l[2])
PstKeys(d) ==
  LET keys == Sorted(DOMAIN d.files, ByName) IN {keys, Reverse(keys)}
=============================================================================
