--------------------------- MODULE ParameterBinding ---------------------------
(***************************************************************************)
(* SqliteCommand.BindParameters: how the parameters of a command, in their *)
(* order in the collection, are matched with the placeholders of one       *)
(* statement.                                                              *)
(*                                                                         *)
(* A placeholder is a pair <<prefix, core>>: "@a" is <<"@", "a">> and the  *)
(* anonymous "?" is <<"", "">>.  SQLite numbers the placeholders of a      *)
(* statement from 1, giving one name one number.  A parameter is a record  *)
(* [name, isSet], its name a pair too: <<"", "a">> has no prefix and       *)
(* <<"", "">> is the empty name.                                           *)
(* Numbered placeholders (?3), whose gaps are placeholders without a name, *)
(* are left out.                                                           *)
(***************************************************************************)
EXTENDS Integers, Sequences, FiniteSets

Prefixes == {"@", ":", "$"}
Anonymous == <<"", "">>

\* sqlite3_bind_parameter_index: 0 if the statement has no such name.
IndexOfName(holes, name) ==
    IF \E h \in DOMAIN holes : holes[h] = name /\ name[1] \in Prefixes
    THEN CHOOSE h \in DOMAIN holes : holes[h] = name
    ELSE 0

\* The placeholders a name may mean when it is not found as it is written.
Spellings(holes, core) ==
    {h \in DOMAIN holes : holes[h][2] = core /\ holes[h][1] \in Prefixes}

Unresolvable == -1   \* ResolveParameterIndex throws

\* Mutant: an ambiguous name takes the last spelling tried.
ResolveAnySpelling(holes, name, ordinal) ==
    IF name = Anonymous
    THEN IF ordinal <= Len(holes) /\ holes[ordinal] = Anonymous
         THEN ordinal ELSE Unresolvable
    ELSE IF IndexOfName(holes, name) > 0
         THEN IndexOfName(holes, name)
         ELSE IF Spellings(holes, name[2]) = {} THEN 0
              ELSE CHOOSE h \in Spellings(holes, name[2]) : TRUE

\* ResolveParameterIndex: by ordinal without a name, then by the name as it
\* is, then by its core with each prefix; 0 says that the statement does not
\* use the parameter.
Resolve(holes, name, ordinal) ==
    IF name = Anonymous
    THEN IF ordinal <= Len(holes) /\ holes[ordinal] = Anonymous
         THEN ordinal ELSE Unresolvable
    ELSE IF IndexOfName(holes, name) > 0
         THEN IndexOfName(holes, name)
         ELSE CASE Cardinality(Spellings(holes, name[2])) = 0 -> 0
                [] Cardinality(Spellings(holes, name[2])) = 1 ->
                       CHOOSE h \in Spellings(holes, name[2]) : TRUE
                [] OTHER -> Unresolvable

\* The first parameter at which the loop of BindParameters throws.
StopsAt(holes, parameters) ==
    LET bad == {i \in DOMAIN parameters :
                    \/ ~parameters[i].isSet
                    \/ Resolve(holes, parameters[i].name, i) = Unresolvable}
    IN IF bad = {} THEN Len(parameters) + 1
       ELSE CHOOSE i \in bad : \A j \in bad : i <= j

BindThrows(holes, parameters) == StopsAt(holes, parameters) <= Len(parameters)

\* What the loop has bound when it ends or throws: the pairs of a placeholder
\* and the last parameter that resolved to it.
BoundPairs(holes, parameters) ==
    LET at(i) == Resolve(holes, parameters[i].name, i)
        done == {i \in DOMAIN parameters : i < StopsAt(holes, parameters)}
    IN {<<at(i), parameters[i]>> : i \in
           {j \in done : at(j) > 0 /\ \A k \in done : at(k) = at(j) => k <= j}}

Filled(pairs) == {pair[1] : pair \in pairs}

\* ThrowIfMissingParameters: every placeholder was bound by this call.
NothingMissing(holes, parameters) ==
    Filled(BoundPairs(holes, parameters)) = DOMAIN holes

\* bind_*: the new value takes the place of the old one.
Overwrite(old, new) == new \cup {pair \in old : pair[1] \notin Filled(new)}

-----------------------------------------------------------------------------
(* What a name means, said without the search: the reference. *)

Means(name, hole) ==
    \/ name = hole
    \/ /\ name # Anonymous /\ hole # Anonymous
       /\ name[2] = hole[2]
===============================================================================
