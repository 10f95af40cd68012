---------------------------- MODULE MCMatching ----------------------------
(***************************************************************************)
(* Matching with a catalogue of three skills: names that occur in one      *)
(* another, an alias, a skill it does not know, and words of proficiency   *)
(* in an entry of their own or in the skill's.                             *)
(***************************************************************************)
EXTENDS Matching

Java == <<"java">>
JavaScript == <<"java", "script">>
Sql == <<"sql">>

MCWords == {"java", "script", "js", "sql", "cobol", "expert", "advanced", "proficient"}

MCAlias == (Java :> Java) @@ (JavaScript :> JavaScript) @@ (<<"js">> :> JavaScript)
           @@ (Sql :> Sql)

MCEntries == {Java, <<"js">>, Sql, <<"sql", "expert">>, <<"advanced", "java">>, <<"cobol">>}

\* Those among ten skills or fewer; with one or two no sum of 70s, 85s and 100s is such.
MCShortOfHalf == {<<285, 10>>, <<565, 10>>, <<575, 10>>}

MCPostings == [skills : {{Java}, {JavaScript, Sql}}, level : Levels]
=============================================================================
