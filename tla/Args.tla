-------------------------------- MODULE Args --------------------------------
(***************************************************************************)
(* args_parse of src/args.h: parses of command lines into one table of     *)
(* options, again and again.  A parse is a step for the beginning, one for *)
(* each return of getopt_long, and one for the exit.                       *)
(*                                                                         *)
(* getopt_long is external: it permutes, so it returns every option before *)
(* it stops, and it complains on stderr while opterr is not 0.  Of the     *)
(* tables it is given it reads short_opts up to the first NUL, long_opts   *)
(* up to the first null name, and in each the first entry that fits.       *)
(*                                                                         *)
(* A place of a command line holds a long option [name, arg], one letter   *)
(* [letter, inner, arg], or nothing but a plain text; `inner' letters are  *)
(* in one element of argv with the letter before them, as b in -ab, and    *)
(* arg is the text attached, be it an argument or more letters, or NULL.   *)
(* `text' is the whole element.  A text is what strtol makes of it:        *)
(* [num, rest], with rest = TRUE when characters are left over; the empty  *)
(* text is Empty.                                                          *)
(***************************************************************************)
EXTENDS Integers, Sequences, FiniteSetsExt

CONSTANTS
    NULL,
    Empty,          \* the text ""
    Names,          \* the names that stand behind "--"
    Begins,         \* the names that a name is the beginning of
    Table,          \* the entries: [long, short, has_arg, arg_type]
    ArgVectors,     \* the command lines, without argv[0]
    IntMin, IntMax, \* INT_MIN, INT_MAX
    SignedChar      \* whether char is signed on this platform

Entries == DOMAIN Table
NoShort == 0        \* short_name of an option that has only a long name

\* The entry that ends a table.
Zero == [long |-> NULL, short |-> NoShort, has_arg |-> "NO", arg_type |-> "INT"]

\* Any table up to its end.  A short name is a letter or a digit, as getopt
\* asks for; two entries may share theirs, or have none.
ASSUME TableAssumption ==
    /\ Table \in Seq([long : Names \cup {NULL}, short : Nat,
                      has_arg : {"NO", "REQUIRED", "OPTIONAL"},
                      arg_type : {"INT", "STR"}])
    /\ \A i \in Entries : Table[i] # Zero
    /\ NULL \notin Names
    /\ Begins \in [Names -> SUBSET Names]

Strings == {Empty} \cup [num : Int, rest : BOOLEAN]
Elements ==
    [name : Names, arg : Strings \cup {NULL}, text : Strings]
    \cup [letter : Nat \ {NoShort}, inner : BOOLEAN, arg : Strings \cup {NULL},
          text : Strings]
    \cup [text : Strings]

IsLong(e) == "name" \in DOMAIN e
IsLetter(e) == "letter" \in DOMAIN e
IsOption(e) == IsLong(e) \/ IsLetter(e)
Inner(e) == IsLetter(e) /\ e.inner

\* An inner letter is attached to the letter before it, and what is attached to
\* a letter begins with an inner one.  NULL is no text and no number.
ASSUME ArgvAssumption ==
    /\ ArgVectors \subseteq Seq(Elements)
    /\ \A argv \in ArgVectors : \A k \in 1 .. Len(argv) + 1 :
          k =< Len(argv) /\ Inner(argv[k]) <=>
             k > 1 /\ IsLetter(argv[k - 1]) /\ argv[k - 1].arg # NULL
    /\ NULL \notin Strings /\ NULL \notin Int
    /\ IntMin \in Int /\ IntMax \in Int /\ SignedChar \in BOOLEAN

VARIABLES
    data,       \* found, opt_arg_found and the value, for each entry
    opterr,     \* whether getopt may write to stderr (the global of getopt)
    call,       \* the locals of args_parse, or NULL between two calls
    last,       \* the finished call: [argv, flags, saved, before, told, rv]
    up          \* FALSE once _LINC_LIB_FATAL has ended the process

vars == <<data, opterr, call, last, up>>

NotFound == [found |-> FALSE, opt_arg_found |-> FALSE, val |-> NULL]

Init ==
    /\ data = [i \in Entries |-> NotFound]
    /\ opterr \in BOOLEAN
    /\ call = NULL /\ last = NULL
    /\ up = TRUE

-----------------------------------------------------------------------------
(* getopt_long *)

\* short_opts is a C string, long_opts ends at a null name.
Shorts == {i \in Entries : \A j \in 1 .. i : Table[j].short # NoShort}
Longs == {i \in Entries : \A j \in 1 .. i : Table[j].long # NULL}

\* The entries with the name, or with names that it abbreviates unambiguously.
Named(name) ==
    LET exact == {i \in Longs : Table[i].long = name}
        begun == {i \in Longs : Table[i].long \in Begins[name]}
        alike == \A i, j \in begun : /\ Table[i].short = Table[j].short
                                    /\ Table[i].has_arg = Table[j].has_arg
    IN  IF exact # {} THEN exact ELSE IF alike THEN begun ELSE {}

Candidates(e) == IF IsLong(e) THEN Named(e.name)
                 ELSE {i \in Shorts : Table[i].short = e.letter}
Known(e) == Candidates(e) # {}
Opt(e) == Table[Min(Candidates(e))]

\* A required argument that is not attached is the next element.
TakesNext(argv, k) ==
    /\ IsOption(argv[k]) /\ Known(argv[k])
    /\ Opt(argv[k]).has_arg = "REQUIRED" /\ argv[k].arg = NULL

\* A letter without an argument is followed by another one.
Continues(argv, k) ==
    /\ IsLetter(argv[k]) /\ Known(argv[k])
    /\ Opt(argv[k]).has_arg = "NO" /\ argv[k].arg # NULL

OptArg(argv, k) ==
    IF Opt(argv[k]).has_arg = "NO" THEN NULL
    ELSE IF TakesNext(argv, k) THEN argv[k + 1].text ELSE argv[k].arg

\* The first place of the element behind the one at k, and where getopt_long
\* goes on when it has returned the option at k.
Behind(argv, k) ==
    Min({m \in k + 1 .. Len(argv) + 1 : m =< Len(argv) => ~Inner(argv[m])})
After(argv, k) ==
    IF Continues(argv, k) THEN k + 1
    ELSE Behind(argv, IF TakesNext(argv, k) THEN k + 1 ELSE k)

\* getopt_long returns '?' at the place k.
Refused(argv, k) ==
    Known(argv[k]) =>
        \/ IsLong(argv[k]) /\ Opt(argv[k]).has_arg = "NO" /\ argv[k].arg # NULL
        \/ TakesNext(argv, k) /\ k = Len(argv)

\* The options from place k on, which is one of them or begins an element.
Options(argv, k) == {m \in k .. Len(argv) : IsOption(argv[m])}

-----------------------------------------------------------------------------
(* The helpers *)

\* A variant with a mistake: the rest of the text is not looked at.
_args_get_int_prefix(s) ==
    IF s = Empty \/ s.num < IntMin \/ s.num > IntMax THEN NULL ELSE s.num

\* NULL stands for the return value -1.
_args_get_int(s) ==
    IF s = Empty \/ s.num < IntMin \/ s.num > IntMax \/ s.rest THEN NULL
    ELSE s.num

\* The first entry whose short_name is the value getopt_long returned, the
\* short_name of the entry it found, which is 0 if that has none.
_args_lookup_opt_by_short_opt(c) == Min({i \in Entries : Table[i].short = c})

\* A variant with a mistake: a missing argument leaves opt_arg_found alone.
IntParsedKept(d, s) ==
    IF s = NULL THEN d
    ELSE [d EXCEPT !.val = _args_get_int(s), !.opt_arg_found = TRUE]

\* _args_parse_opt_arg_int, when it does not fail.
IntParsed(d, s) ==
    IF s = NULL THEN [d EXCEPT !.opt_arg_found = FALSE]
    ELSE [d EXCEPT !.val = _args_get_int(s), !.opt_arg_found = TRUE]

\* _args_parse_opt_arg_str
StrParsed(d, s) == IF s = NULL THEN d ELSE [d EXCEPT !.val = s]

\* The entry i after the option with argument s was read.
Parsed(i, s) ==
    LET d == [data[i] EXCEPT !.found = TRUE]
    IN  IF Table[i].has_arg = "NO" THEN d
        ELSE IF Table[i].arg_type = "INT" THEN IntParsed(d, s)
        ELSE StrParsed(d, s)

BadInt(i, s) ==
    /\ Table[i].has_arg # "NO" /\ Table[i].arg_type = "INT"
    /\ s # NULL /\ _args_get_int(s) = NULL

-----------------------------------------------------------------------------
(* args_parse *)

Flags == [silent : BOOLEAN, no_non_opts : BOOLEAN]

\* Both tables are built, or calloc fails and the process ends.
Start ==
    /\ call = NULL
    /\ \E argv \in ArgVectors, flags \in Flags :
          call' = [argv |-> argv, flags |-> flags, saved |-> opterr,
                   at |-> 1, plain |-> 0, told |-> FALSE, before |-> data]
    /\ opterr' = (opterr /\ ~call'.flags.silent)
    /\ last' = NULL
    /\ UNCHANGED <<data, up>>

StartFails == call = NULL /\ up' = FALSE /\ UNCHANGED <<data, opterr, call, last>>

\* A variant with a mistake: only the successful exit restores opterr.
LeaveUnrestored(rv, told) ==
    /\ last' = [argv |-> call.argv, flags |-> call.flags, rv |-> rv,
                told |-> told, before |-> call.before, saved |-> call.saved]
    /\ opterr' = IF rv = 0 THEN call.saved ELSE opterr
    /\ call' = NULL
    /\ UNCHANGED up

\* Both exits: the tables are freed, opterr is as before.
Leave(rv, told) ==
    /\ last' = [argv |-> call.argv, flags |-> call.flags, rv |-> rv,
                told |-> told, before |-> call.before, saved |-> call.saved]
    /\ opterr' = call.saved
    /\ call' = NULL
    /\ UNCHANGED up

\* getopt_long or _args_report_err writes to stderr unless opterr is 0.
Fail == Leave(-1, call.told \/ opterr)

More == call # NULL /\ Options(call.argv, call.at) # {}

\* getopt_long returns '?'.
OptionRefused ==
    /\ More
    /\ Refused(call.argv, Min(Options(call.argv, call.at)))
    /\ Fail /\ UNCHANGED data

\* getopt_long returns an option: it is marked as found, then its argument is
\* parsed, which may fail.
OptionRead ==
    /\ More
    /\ LET k == Min(Options(call.argv, call.at))
           e == call.argv[k]
       IN  /\ ~Refused(call.argv, k)
           /\ LET s == OptArg(call.argv, k)
                  i == _args_lookup_opt_by_short_opt(Opt(e).short)
              IN  IF BadInt(i, s)
                  THEN data' = [data EXCEPT ![i].found = TRUE] /\ Fail
                  ELSE /\ data' = [data EXCEPT ![i] = Parsed(i, s)]
                       /\ call' = [call EXCEPT
                            !.at = After(call.argv, k),
                            !.plain = @ + (k - call.at)]
                       /\ UNCHANGED <<opterr, last, up>>

\* getopt_long returns -1.  Kept in an unsigned char it is 255, no option.
OptionsDone ==
    /\ call # NULL /\ ~More
    /\ LET plain == call.plain + (Len(call.argv) + 1 - call.at)
       IN  IF ~SignedChar \/ (call.flags.no_non_opts /\ plain > 0)
           THEN Fail ELSE Leave(0, call.told)
    /\ UNCHANGED data

Next == up /\ (Start \/ StartFails \/ OptionRefused \/ OptionRead \/ OptionsDone)

Spec == Init /\ [][Next]_vars

-----------------------------------------------------------------------------
(* What a whole command line means *)

\* The place k is an argument of the option before it, or inside of one.
Taken(argv, P, k) ==
    IF Inner(argv[k]) THEN ~(k - 1 \in P /\ Continues(argv, k - 1))
    ELSE k - 1 \in P /\ TakesNext(argv, k - 1)

\* The places of the options that are not taken.
OptionPlaces(argv) ==
    CHOOSE P \in SUBSET DOMAIN argv :
        \A k \in DOMAIN argv : k \in P <=> IsOption(argv[k]) /\ ~Taken(argv, P, k)

\* The entry that an option counts for: the first that getopt_long's value
\* stands for.
Counted(e) == Min({i \in Entries : Table[i].short = Opt(e).short})

\* The entry i takes an integer.
TakesInt(i) == Table[i].has_arg # "NO" /\ Table[i].arg_type = "INT"

\* A whole text that is an int.
IsInt(s) == s # Empty /\ ~s.rest /\ s.num \in IntMin .. IntMax

WellFormed(argv, k) ==
    /\ ~Refused(argv, k)
    /\ TakesInt(Counted(argv[k])) /\ OptArg(argv, k) # NULL =>
          IsInt(OptArg(argv, k))

IsPlain(argv, k) == ~IsOption(argv[k]) /\ ~Taken(argv, OptionPlaces(argv), k)

Acceptable(argv, flags) ==
    /\ \A k \in OptionPlaces(argv) : WellFormed(argv, k)
    /\ flags.no_non_opts => \A k \in DOMAIN argv : ~IsPlain(argv, k)

\* What the fields of entry i are after a command line, from what they were.
Means(argv, i, old, new) ==
    LET uses == {k \in OptionPlaces(argv) : Counted(argv[k]) = i}
        given == {k \in uses : Table[i].has_arg # "NO" /\ OptArg(argv, k) # NULL}
    IN  /\ new.found = (old.found \/ uses # {})
        /\ new.opt_arg_found =
             IF TakesInt(i) /\ uses # {} THEN Max(uses) \in given
                                   ELSE old.opt_arg_found
        /\ new.val =
             IF given = {} THEN old.val
             ELSE LET s == OptArg(argv, Max(given))
                  IN  IF TakesInt(i) THEN s.num ELSE s

-----------------------------------------------------------------------------
(* Properties *)

\* A call returns 0 exactly for the command lines that consist of known
\* options with the arguments they take, every integer argument whole and in
\* the range of int, and no plain element if those are refused: however
\* options, clusters of letters, arguments and plain elements are mixed, and
\* whichever names and letters the entries share or lack (args.h:180-236).
ResultExact == last # NULL => (last.rv = 0 <=> Acceptable(last.argv, last.flags))

\* After a call that succeeded the table says what the command line says: the
\* last of several arguments counts, a missing optional integer argument
\* clears opt_arg_found, and an entry that no option counts for keeps what
\* earlier calls, failed ones included, left in it (args.h:98-133, 195-212).
ValuesExact ==
    last # NULL /\ last.rv = 0 /\ call = NULL =>
        \A i \in Entries : Means(last.argv, i, last.before[i], data[i])

\* Between two calls opterr is what it was before, and a call wrote to stderr
\* exactly when it failed and neither the caller's opterr nor ARGS_SILENT
\* forbade it, whichever of its failures occurred (args.h:67-77, 142-145,
\* 225-236).
ErrorsAsAsked ==
    last # NULL /\ call = NULL =>
        /\ opterr = last.saved
        /\ last.told = (last.rv = -1 /\ last.saved /\ ~last.flags.silent)

\* What the head of args.h says of args_parse: 'found' is true for an element of
\* the table whose option was found (args.h:3-5).  Here the command line is one
\* option that takes no argument, spelled by its letter or by its whole name.
Spelled(e) ==
    {i \in Entries : /\ Table[i].has_arg = "NO" /\ e.arg = NULL
                     /\ IF IsLong(e) THEN Table[i].long = e.name
                                     ELSE Table[i].short = e.letter}
OptionIsFound ==
    last # NULL /\ call = NULL /\ Len(last.argv) = 1 /\ IsOption(last.argv[1]) =>
        LET given == Spelled(last.argv[1])
        IN  given # {} => last.rv = 0 /\ \E i \in given : data[i].found
=============================================================================
