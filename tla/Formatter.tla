----------------------------- MODULE Formatter -----------------------------
(***************************************************************************)
(* LogFormatter::init() (log.cpp): a pattern is parsed into the items that *)
(* format() writes one after another.  A pattern is a sequence of          *)
(* characters.                                                             *)
(***************************************************************************)
EXTENDS Naturals, Sequences, FiniteSetsExt

CONSTANTS
    Letters,      \* the characters that isalpha() accepts
    ItemNames     \* the keys of s_format_items, each one letter

\* The characters that init() looks for.
Percent == "%"
LBrace == "{"
RBrace == "}"

ASSUME FormatterAssumption ==
    /\ Letters \cap {Percent, LBrace, RBrace} = {}
    /\ \A name \in ItemNames : name \in Seq(Letters) /\ name # <<>>

Literal(c) == [type |-> 0, str |-> <<c>>, fmt |-> <<>>]
Item(name, f) == [type |-> 1, str |-> name, fmt |-> f]

\* From the '%' at i: the name ends before the first character that is neither
\* a letter nor '}', or at the end; if that is '{' the format goes up to the
\* next '}'.
Scan(p, i) ==
    LET ends == {n \in (i + 1)..Len(p) : p[n] \notin Letters /\ p[n] # RBrace}
        h == IF ends = {} THEN Len(p) + 1 ELSE Min(ends)
        closing == {n \in (h + 1)..Len(p) : p[n] = RBrace}
        opened == h <= Len(p) /\ p[h] = LBrace
    IN  [str |-> SubSeq(p, i + 1, h - 1),
         fmt |-> IF opened /\ closing # {} THEN SubSeq(p, h + 1, Min(closing) - 1) ELSE <<>>,
         next |-> IF opened /\ closing # {} THEN Min(closing) + 1 ELSE h,
         closed |-> ~ opened \/ closing # {}]

\* "%%" stands for one '%'; the second one is then looked at by itself.
Plain(p, i) == p[i] # Percent \/ (i < Len(p) /\ p[i + 1] = Percent)

\* Mutant: the character behind an item is skipped.
ResumeBehind(s) == s.next + 1

\* Where the loop goes on behind an item.
Resume(s) == s.next

Found(item, rest) == [items |-> <<item>> \o rest.items, m_error |-> rest.m_error]

\* The loop over the pattern, from each of its characters to the end; of a
\* pattern in error only m_error matters.
Loop(p) ==
    LET From[i \in 1..(Len(p) + 2)] ==
            IF i > Len(p) THEN [items |-> <<>>, m_error |-> FALSE]
            ELSE IF Plain(p, i)
            THEN Found(Literal(p[i]), From[i + 1])
            ELSE LET s == Scan(p, i)
                 IN  IF s.closed /\ s.str \in ItemNames
                     THEN Found(Item(s.str, s.fmt), From[Resume(s)])
                     ELSE [items |-> <<>>, m_error |-> TRUE]
    IN  From

init(p) == Loop(p)[1]
isError(p) == init(p).m_error

-----------------------------------------------------------------------------
(* The reference: what a list of items looks like as a pattern *)

Written(item) ==
    IF item.type = 0 THEN item.str
    ELSE <<Percent>> \o item.str \o (IF item.fmt = <<>> THEN <<>> ELSE <<LBrace>> \o item.fmt \o <<RBrace>>)

PatternUpto(items) ==
    LET Upto[n \in 0..Len(items)] == IF n = 0 THEN <<>> ELSE Upto[n - 1] \o Written(items[n])
    IN  Upto
Pattern(items) == PatternUpto(items)[Len(items)]

\* No two items run into each other: behind an item without a format there is
\* no letter and no brace.
Apart(items) ==
    \A n \in 2..Len(items) :
        items[n].type = 0 /\ items[n].str[1] \in Letters \cup {LBrace, RBrace} =>
            items[n - 1].type = 0 \/ items[n - 1].fmt # <<>>

\* Nothing of a pattern that is accepted is lost; "%m{}" and "%m" are the same item.
Kept(p) ==
    ~ isError(p) /\ (\A i \in 1..(Len(p) - 1) : <<p[i], p[i + 1]>> # <<LBrace, RBrace>>) =>
        Pattern(init(p).items) = p

\* The pattern that items make is accepted, as these items.
Accepted(items) == Apart(items) => init(Pattern(items)) = [items |-> items, m_error |-> FALSE]

=============================================================================
