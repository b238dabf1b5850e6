----------------------------- MODULE MCProcess -----------------------------
(* A process that parses command lines, or one that logs and makes system *)
(* calls.  int is -1 .. 1.                                                  *)
EXTENDS Process, SequencesExt

CONSTANTS MaxArgs, MaxCalls

VARIABLE calls

MCIntMin == -1
T(n, r) == [num |-> n, rest |-> r]
Entry(l, c, h, t) == [long |-> l, short |-> c, has_arg |-> h, arg_type |-> t]

\* Two entries are the same, two have no letter, and the last has no name and
\* stands behind them.
MCTable == <<
    Entry("verbose", 1, "NO", "INT"),
    Entry("port", 2, "REQUIRED", "INT"), Entry("port", 2, "REQUIRED", "INT"),
    Entry("name", 3, "OPTIONAL", "STR"),
    Entry("level", NoShort, "OPTIONAL", "INT"), Entry("log", NoShort, "REQUIRED", "STR"),
    Entry(NULL, 4, "NO", "INT")>>

\* "po" abbreviates both ports, which are alike, "l" two options that are not.
MCNames == {"verbose", "port", "name", "level", "log", "po", "l"}
MCBegins == [n \in MCNames |->
    CASE n = "po" -> {"po", "port"}
      [] n = "l" -> {"l", "level", "log"}
      [] OTHER -> {n}]

\* The elements of a command line, each with its places.
Dashes == T(0, TRUE)
Long(n, s) == <<[name |-> n, arg |-> s, text |-> Dashes]>>
Letter(c, s, t) == [letter |-> c, inner |-> FALSE, arg |-> s, text |-> t]
InnerLetter(c, t) == [letter |-> c, inner |-> TRUE, arg |-> NULL, text |-> t]
Single(c) == <<Letter(c, NULL, Dashes)>>
Pair(c, d, s, t) == <<Letter(c, s, t), InnerLetter(d, t)>>
Plain(s) == <<[text |-> s]>>

\* Among them -vp, -p1x and -1, which is the letter of the last entry.
MCElements == {
    Single(1), Pair(1, 2, Dashes, Dashes), Pair(2, 9, T(1, TRUE), Dashes),
    <<Letter(4, NULL, T(-1, FALSE))>>, Long("verbose", T(1, FALSE)), Long("po", NULL),
    Long("name", T(1, TRUE)), Long("level", NULL), Long("level", T(1, FALSE)),
    Long("level", T(-2, FALSE)), Long("log", NULL), Long("l", NULL),
    Plain(T(1, FALSE)), Plain(Empty)}

\* MaxArgs bounds the elements of a command line.
MCArgVectors == UNION {{FlattenSeq(es) : es \in [1 .. n -> MCElements]} : n \in 0 .. MaxArgs}

\* A small table: two options that have only a name, and behind them one with a
\* letter.  A command line is one option without an argument.
MCNoLetter == <<
    Entry("level", NoShort, "NO", "STR"), Entry("log", NoShort, "NO", "STR"),
    Entry("verbose", 1, "NO", "INT")>>
MCOneOption == {Single(1)} \cup {Long(n, NULL) : n \in MCNames}

\* "a", newline, ESC and US, DEL, and a byte of a multi-byte character.
MCTexts == {<< 97, 10, 27, 31, 127 >>, << 192, 97 >>}

MCSids == {-1, 7}

dvars == <<sink, errno, frames, handler, at, failed, info, returned, base>>
MCInit == Init /\ Diag!DiagInit /\ calls = 0
\* MaxCalls bounds the parses of one table.  The parser and the log share no
\* state, so the parser is looked at in a process that never logs, and the log
\* in one that never parses.
Parser == ~sink /\ ~handler /\ errno = Min(Errnos) /\ returned = NULL /\ failed = NULL
Logger == opterr /\ call = NULL /\ last = NULL
MCNext ==
    \/ /\ Parser /\ Next /\ UNCHANGED dvars
       /\ calls' = (IF call = NULL THEN calls + 1 ELSE calls)
       /\ calls' =< MaxCalls
    \/ Logger /\ Diag!DiagNext /\ UNCHANGED <<data, opterr, call, last, calls>>
MCSpec == MCInit /\ [][MCNext]_<<vars, dvars, calls>>
=============================================================================
