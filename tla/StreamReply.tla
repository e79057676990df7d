------------------------------ MODULE StreamReply ------------------------------
(***************************************************************************)
(* parse_stream (exec/src/main.rs): what worker_loop finds in the reply of *)
(* XREADGROUP.  A redis::Value is modelled as nil, a data string or a bulk *)
(* array.  Two shapes of a reply are built: the one RESP2 sends, an array  *)
(* of <<stream name, entries>> pairs, and the one parse_stream walks, an   *)
(* array of entry arrays.                                                  *)
(***************************************************************************)
EXTENDS Naturals, Sequences, SequencesExt

CONSTANT Malformed  \* data that serde_json does not decode as an Intent

Nil     == [type |-> "nil"]
Data(d) == [type |-> "data", data |-> d]
Bulk(s) == [type |-> "bulk", items |-> s]

(* A stream entry: an id and its fields, <<key, value>> pairs. *)
EntryValue(entry) ==
  Bulk(<<Data(entry.id),
         Bulk(FlattenSeq([k \in DOMAIN entry.fields |->
                            <<Data(entry.fields[k][1]), Data(entry.fields[k][2])>>]))>>)

EntryValues(entries) == Bulk([k \in DOMAIN entries |-> EntryValue(entries[k])])

Resp2Reply(name, entries) == Bulk(<<Bulk(<<Data(name), EntryValues(entries)>>)>>)
FlatReply(entries)        == Bulk(<<EntryValues(entries)>>)

(* Mutant: an intent that does not decode ends its entry. *)
IntentsUntilMalformed(id, keyvals) ==
  LET bad(k) == keyvals[2 * k - 1] = Data("intent") /\ keyvals[2 * k].data \in Malformed
      chunk(k) == IF keyvals[2 * k - 1] = Data("intent") /\ \A j \in 1 .. k : ~bad(j)
                    THEN <<[id |-> id, intent |-> keyvals[2 * k].data]>>
                    ELSE <<>>
  IN FlattenSeq([k \in 1 .. Len(keyvals) \div 2 |-> chunk(k)])

(* keyvals.chunks(2): every chunk of two whose key is "intent" and whose    *)
(* data decodes; what does not decode is passed over without a word.        *)
IntentsOf(id, keyvals) ==
  LET chunk(k) == IF /\ keyvals[2 * k - 1] = Data("intent")
                     /\ keyvals[2 * k].type = "data"
                     /\ keyvals[2 * k].data \notin Malformed
                    THEN <<[id |-> id, intent |-> keyvals[2 * k].data]>>
                    ELSE <<>>
  IN FlattenSeq([k \in 1 .. Len(keyvals) \div 2 |-> chunk(k)])

EntryIntents(entry) ==
  IF /\ entry.type = "bulk" /\ Len(entry.items) >= 2
     /\ entry.items[1].type = "data" /\ entry.items[2].type = "bulk"
    THEN IntentsOf(entry.items[1].data, entry.items[2].items)
    ELSE <<>>

BulkItems(value) == IF value.type = "bulk" THEN value.items ELSE <<>>

(* The intents worker_loop handles; none when the reply is no array. *)
ParseStream(value) ==
  FlattenSeq([s \in DOMAIN BulkItems(value) |->
    LET entries == BulkItems(BulkItems(value)[s])
    IN FlattenSeq([k \in DOMAIN entries |-> EntryIntents(entries[k])])])
===============================================================================
