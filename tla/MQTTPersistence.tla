---------------------------- MODULE MQTTPersistence ----------------------------
(***************************************************************************)
(* What the library keeps in the store of a client and how it restores it  *)
(* (src/src/MQTTPersistence.c, and the commands of src/src/MQTTAsync.c).   *)
(*   s-id   the PUBLISH of an outbound message, QoS 1 or 2                 *)
(*   sc-id  its PUBREL, once it has been sent                              *)
(*   r-id   the PUBLISH of an inbound message of QoS 2                     *)
(*   c-n    a request that waits in the queue of the send thread           *)
(*   q-n    a message that the application has not taken yet               *)
(* A content is the message itself: its number n, qos and identifier.      *)
(***************************************************************************)
EXTENDS FileStore

CONSTANT MaxMsgId   \* MAX_MSG_ID

ASSUME MaxMsgIdAssumption == MaxMsgId \in Nat \ {0}

SentKey(id) == <<"s-", id>>
PubrelKey(id) == <<"sc-", id>>
ReceivedKey(id) == <<"r-", id>>
CommandKey(n) == <<"c-", n>>
QueueKey(k) == <<"q-", k>>

Outbound(m, next) == [id |-> m.id, n |-> m.n, qos |-> m.qos, next |-> next]
Inbound(m) == [id |-> m.id, n |-> m.n]

\* the packet that answers the PUBLISH
AnswerTo(qos) == IF qos = 2 THEN "PUBREC" ELSE "PUBACK"

KeysOfSentOnly(m) == <<SentKey(m.id)>>   \* mutant: the PUBREL is left in the store

\* MQTTPersistence_remove: which keys an acknowledgement of the message removes
KeysOf(m) == IF m.qos = 2 THEN <<SentKey(m.id), PubrelKey(m.id)>> ELSE <<SentKey(m.id)>>

\* the keys of a kind
OfKind(keys, stem) == {k \in ToSet(keys) : k[1] = stem}

\* keys in the order of the directory
Position(keys, k) == CHOOSE i \in DOMAIN keys : keys[i] = k
AsListed(keys, S) == Sorted(S, LAMBDA k, l : Position(keys, k) < Position(keys, l))

\* keys of one kind in the order of their numbers: MQTTPersistence_insertInOrder for
\* the messages, MQTTPersistence_insertInSeqOrder for the entries of the queue
ByNumber(k, l) == k[2] < l[2]
InOrderOf(S) == Sorted(S, ByNumber)

WrapMsgIDNever(list) == list   \* mutant: the order of the identifiers is kept

\* the outbound list is in the order of the identifiers: it is turned to start
\* after their largest gap, when that is larger than the one around MAX_MSG_ID
WrapMsgID(list) ==
  LET gap(i) == list[i].id - list[i - 1].id
      around == MaxMsgId - list[Len(list)].id + list[1].id
      IsWrap(i) == /\ gap(i) > around
                   /\ \A j \in 2..Len(list) : gap(j) < gap(i) \/ (gap(j) = gap(i) /\ i <= j)
  IN  IF \E i \in 2..Len(list) : IsWrap(i)
      THEN LET wrapel == CHOOSE i \in 2..Len(list) : IsWrap(i)
           IN  SubSeq(list, wrapel, Len(list)) \o SubSeq(list, 1, wrapel - 1)
      ELSE list

\* MQTTPersistence_restore.  The loop over the keys removes a file that is torn,
\* and a PUBREL without its PUBLISH; what it finds in the store is what is left of
\* it when it comes to a key.
BadRecord(store, key) == key[1] \in {"r-", "s-", "sc-"} /\ PstGet(store, key) = Torn
FoundAt(store, keys, key, at) ==
  /\ PstContainsKey(store, key)
  /\ \E i, j \in DOMAIN keys :
       keys[i] = key /\ keys[j] = at /\ (BadRecord(store, key) => j < i)
Orphan(store, keys, key) ==
  /\ key[1] = "sc-" /\ ~BadRecord(store, key)
  /\ ~FoundAt(store, keys, SentKey(key[2]), key)
DiscardedInbound(store, keys) ==   \* mutant: an inbound message is discarded as a PUBREL is
  {key \in ToSet(keys) : BadRecord(store, key) \/ Orphan(store, keys, key) \/ key[1] = "r-"}
Discarded(store, keys) ==
  {key \in ToSet(keys) : BadRecord(store, key) \/ Orphan(store, keys, key)}
RestoredStore(store, keys) ==
  [store EXCEPT !.files = Restrict(@, ToSet(keys) \ Discarded(store, keys))]

RestoredInbound(store, keys) ==
  LET good == AsListed(keys, OfKind(keys, "r-") \ Discarded(store, keys))
  IN  [i \in DOMAIN good |-> Inbound(PstGet(store, good[i]))]

RestoredOutbound(store, keys) ==
  LET good == InOrderOf({k \in OfKind(keys, "s-") : ~BadRecord(store, k)})
      message(k) ==
        LET m == PstGet(store, k)
        IN  Outbound(m, IF m.qos = 2 /\ FoundAt(store, keys, PubrelKey(k[2]), k)
                        THEN "PUBCOMP" ELSE AnswerTo(m.qos))
  IN  WrapMsgID([i \in DOMAIN good |-> message(good[i])])

\* the requests come back in the order of the directory: the comparison reads
\* the command as if it were a message, and finds 0 where the identifier is
RestoreCommands(store, keys) ==
  LET found == AsListed(keys, OfKind(keys, "c-")) IN [i \in DOMAIN found |-> PstGet(store, found[i])]

RestoreMessageQueue(store, keys) ==
  LET found == InOrderOf(OfKind(keys, "q-"))
  IN  [i \in DOMAIN found |-> [seqno |-> found[i][2], n |-> PstGet(store, found[i])]]
=============================================================================
