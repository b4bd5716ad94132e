---------------------------- MODULE MCBatchReader ----------------------------
(* Small instances of BatchReader. *)
EXTENDS BatchReader

St(kind, size, holes) == [kind |-> kind, size |-> size, holes |-> holes]
Par(prefix, core) == [name |-> <<prefix, core>>, isSet |-> TRUE]
At == <<"@", "a">>
Colon == <<":", "a">>

\* A query between two writes; a write that returns its row, before another
\* write; DDL before a query that uses two spellings of a name; two
\* statements of which the first uses an anonymous placeholder; a write that
\* finds no row to return; a write inside BEGIN and COMMIT; an EXPLAIN whose
\* placeholder may be left without a value, before a write that has one too.
MCBatches == {
    <<St("write", 1, <<>>), St("select", 2, <<>>), St("write", 2, <<At>>)>>,
    <<St("returning", 1, <<At>>), St("write", 1, <<>>)>>,
    <<St("other", 0, <<>>), St("select", 1, <<At, Colon>>)>>,
    <<St("write", 1, <<Anonymous>>), St("write", 0, <<>>)>>,
    <<St("returning", 0, <<>>), St("write", 1, <<>>)>>,
    <<St("control", 0, <<>>), St("write", 1, <<>>), St("control", 0, <<>>)>>,
    <<St("explain", 1, <<At>>), St("write", 1, <<At>>)>> }

\* Nothing; the exact name; a name without prefix, ambiguous where both
\* spellings are used; both spellings; no name; and one without a value.
MCParameterLists == {
    <<>>,
    <<Par("@", "a")>>,
    <<Par("", "a")>>,
    <<Par(":", "a"), Par("@", "a")>>,
    <<Par("", "")>>,
    <<Par("$", "a"), [name |-> <<"@", "a">>, isSet |-> FALSE]>> }

MCBehaviors == {{}, {"SingleRow"}, {"SingleResult"}}

\* One write that returns its row.
ReturningOnly == {<<St("returning", 1, <<>>)>>}
WritesOnly == {<<St("write", 1, <<>>), St("write", 1, <<>>)>>}
NoParameters == {<<>>}
DefaultBehavior == {{}}
===============================================================================
