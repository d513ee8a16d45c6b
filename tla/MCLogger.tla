------------------------------ MODULE MCLogger ------------------------------
(* Logger and Formatter on small instances for TLC. *)
EXTENDS Logger, TLC

CONSTANTS s1, s2, w1, MaxPattern, MaxItems

ASSUME BoundsAssumption == MaxPattern \in Nat /\ MaxItems \in Nat

Good == <<"%", "m">>
Dated == <<"%", "m", "{", "%", "x", "}">>
Bad == <<"%", "x">>

App(type, file, p) == [type |-> type, file |-> file, formatter |-> p]
Node(name, level, p, apps) == [name |-> name, level |-> level, formatter |-> p, appenders |-> apps]

Stdout == App("StdoutLogAppender", Absent, Absent)
File == App("FileLogAppender", "a.txt", Dated)

\* Nothing; the root logger and one with two appenders; patterns in error, an
\* appender that is left out and a second node of the same name; a node without
\* a name.
MCDocs == {
    <<>>,
    <<Node("root", 1, Absent, <<Stdout>>), Node("a", 1, Good, <<File, Stdout>>)>>,
    <<Node("a", 4, Bad, <<App("FileLogAppender", Absent, Absent), App("StdoutLogAppender", Absent, Bad)>>),
      Node("a", 1, Good, <<File>>)>>,
    <<Node("a", 1, Good, <<>>), Node(Absent, 1, Absent, <<Stdout>>)>>}

\* Setters are interchangeable.
Symmetry == Permutations(Setters)

MCOrder == <<"a", "root", "u">>
MCItemNames == {<<"m">>}
MCUserPatterns == {Dated, Bad}
MCDefault == <<"%", "m", ".">>

Chars == {Percent, LBrace, RBrace, ".", "m", "x"}
Formats == {<<>>, <<"x">>, <<Percent, LBrace>>}
SomeItems == {Literal(c) : c \in Chars \ {Percent}} \cup {Item(name, f) : name \in ItemNames, f \in Formats}

\* LogFormatter::init() loses nothing of a pattern that it accepts, and accepts
\* every pattern that items make: all patterns and lists up to the bounds.
\* (It is about no state: the initial one is enough.)
FormatterExact == Init =>
    /\ \A p \in BoundedSeq(Chars, MaxPattern) : Kept(p)
    /\ \A items \in BoundedSeq(SomeItems, MaxItems) : Accepted(items)

=============================================================================
