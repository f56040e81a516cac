----------------------------- MODULE MCSession -----------------------------
(***************************************************************************)
(* The instance of Session for TLC: names of one letter, lines of up to    *)
(* five characters in every arrangement of blanks, texts of up to five     *)
(* characters with lines shorter and longer than a buffer of three.        *)
(***************************************************************************)
EXTENDS Session, TLC

ExitLetters == <<"x">>
Zeroed == {Nul}

MCCharacters == {Blank, Newline, Nul} \cup {"a", "b", "c", "g", "s", "l", "h", "n", "t", "x", "."}

Entry(name, type) == [name |-> <<name>>, type |-> type]
MCDirectory == << Entry(".", "dir"), Entry("c", "program"), Entry("g", "program"), Entry("t", "text"),
                  Entry("s", "program"), Entry("l", "program"), Entry("h", "program"),
                  [name |-> <<".", "d">>, type |-> "text"],
                  Entry("n", "program"), Entry("r", "rtc") >>
MCProgram == [name \in {<<"c">>, <<"g">>, <<"s">>, <<"l">>, <<"h">>, <<"n">>} |->
                CASE name = <<"c">> -> "cat" [] name = <<"g">> -> "grep" [] name = <<"s">> -> "shell"
                  [] name = <<"l">> -> "ls" [] name = <<"h">> -> "hello" [] name = <<"n">> -> "counter"]

(* The file with a dot holds what is looked for.                           *)
Contents(letters, n) == UNION {[1 .. k -> letters] : k \in 0 .. n}
MCTexts == {(<<"t">> :> content @@ <<".", "d">> :> <<"a">>) : content \in Contents({"a", "b", Newline}, 5)}

Blanks(n) == [i \in 1 .. n |-> Blank]
Fitting(lines) == {Append(l, Newline) : l \in {m \in lines : Len(m) < BUF_SIZE}}
Names == {<<name>> : name \in {"s", "l", "h", "n", "t", "x"}} \cup {<<>>, <<"x", "a">>}
Arguments == {<<"a">>, <<"a", "b">>, <<"t">>, <<".">>}
MCLines ==
    Fitting({Blanks(i) \o w : i \in {0, 4}, w \in Names}) \cup
    Fitting({Blanks(i) \o w \o Blanks(j) : i \in {0, 4}, w \in {<<"c">>, <<"g">>}, j \in 0 .. 1}) \cup
    Fitting({Blanks(i) \o w \o Blanks(j) \o a \o Blanks(k) :
               i \in 0 .. 1, w \in {<<"c">>, <<"g">>}, j \in 1 .. 2, a \in Arguments, k \in 0 .. 1})

MCCounts == [c \in {"a", "b", "t"} |-> CASE c = "a" -> 1 [] c = "b" -> 2 [] c = "t" -> 3]
=============================================================================
