---------------------------- MODULE UnityFixture ----------------------------
(***************************************************************************)
(* The test runner of unity/unity_fixture.c, as test/test_all.c uses it:   *)
(* UnityMain reads the command line, then runs all tests RepeatCount       *)
(* times.  A test is setup, body and teardown; an assertion that fails     *)
(* leaves them with longjmp.  What the three functions of a test do is     *)
(* open: any MaxSteps steps each, different in every repetition.           *)
(***************************************************************************)
EXTENDS UnityAsserts

CONSTANTS
    ArgVectors,     \* the command lines, without argv[0]
    Number,         \* for each word that begins with digits, their value
    Contains,       \* the <<name, word>> for which strstr finds word in name
    Tests,          \* the tests in the order of runAllTests: [group, name, ignored]
    Calls,          \* calls of assertions that the tests make
    Cells, Values,  \* pointers of the tested program, and what they point to
    MaxPointers,    \* UNITY_MAX_POINTERS
    MaxSteps        \* bounds the steps of a setup, a body or a teardown

ASSUME FixtureAssumption ==
    /\ MaxPointers \in Nat
    /\ \A w \in DOMAIN Number : Number[w] \in Nat
    /\ Tests \in Seq([group : STRING, name : STRING, ignored : BOOLEAN])

VARIABLES
    args,       \* the rest of the command line
    fixture,    \* UnityFixture
    unity,      \* the counters and flags of Unity
    phase,      \* the function that runs
    r,          \* repetitions done
    test,       \* the next test of runAllTests, or the one that runs
    steps,      \* steps the function of the test has done
    cell,       \* the pointers of the program
    store,      \* pointer_store, up to pointer_index
    result,     \* what UnityMain returned, NULL before
    first,      \* history: the first verdict of this test
    tally,      \* history: the tests of this repetition by first verdict
    origin      \* history: what the pointers were at first

vars == <<args, fixture, unity, phase, r, test, steps, cell, store, result,
          first, tally, origin>>
history == <<first, tally, origin>>

NoCounts == [NumberOfTests |-> 0, TestFailures |-> 0, TestIgnores |-> 0,
             CurrentTestFailed |-> FALSE, CurrentTestIgnored |-> FALSE]
NoTally == [v \in {"pass", "fail", "ignore"} |-> 0]

Init ==
    /\ args \in ArgVectors
    /\ fixture = [DryRun |-> FALSE, RepeatCount |-> 1, NameFilter |-> NULL,
                  Name |-> NULL, GroupFilter |-> NULL, Group |-> NULL]
    /\ unity = NoCounts
    /\ phase = "options" /\ r = 0 /\ test = 1 /\ steps = 0
    /\ cell \in [Cells -> Values] /\ store = << >>
    /\ result = NULL
    /\ first = "pass" /\ tally = NoTally /\ origin = cell

-----------------------------------------------------------------------------
(* UnityGetCommandLineOptions: a step for each turn of its loop *)

Filters == {"-g", "-G", "-n", "-N"}
FieldOf(word) ==
    CASE word = "-g" -> "GroupFilter" [] word = "-G" -> "Group"
      [] word = "-n" -> "NameFilter"  [] word = "-N" -> "Name"

Drop(n) == args' = SubSeq(args, n + 1, Len(args))

Option ==
    /\ phase = "options" /\ args # << >>
    /\ UNCHANGED <<unity, r, test, steps, cell, store, history>>

\* UnityMain returns without running a test.
Refuse == result' = 1 /\ phase' = "exit" /\ UNCHANGED <<args, fixture>>

ReadHelp == Option /\ Head(args) \in {"-h", "--help"} /\ Refuse

ReadFilter ==
    /\ Option /\ Head(args) \in Filters
    /\ IF Len(args) = 1 THEN Refuse
       ELSE /\ fixture' = [fixture EXCEPT ![FieldOf(Head(args))] = args[2]]
            /\ Drop(2)
            /\ UNCHANGED <<phase, result>>

\* A repetition without a number is two repetitions.
ReadRepeat ==
    /\ Option /\ Head(args) = "-r"
    /\ IF Len(args) > 1 /\ args[2] \in DOMAIN Number
       THEN fixture' = [fixture EXCEPT !.RepeatCount = Number[args[2]]] /\ Drop(2)
       ELSE fixture' = [fixture EXCEPT !.RepeatCount = 2] /\ Drop(1)
    /\ UNCHANGED <<phase, result>>

\* -v and -s only change what is printed, an unknown word is skipped.
ReadOther ==
    /\ Option /\ Head(args) \notin Filters \cup {"-h", "--help", "-r"}
    /\ fixture' = [fixture EXCEPT !.DryRun = @ \/ Head(args) = "-d"]
    /\ Drop(1)
    /\ UNCHANGED <<phase, result>>

OptionsRead ==
    /\ phase = "options" /\ args = << >> /\ phase' = "begin"
    /\ UNCHANGED <<args, fixture, unity, r, test, steps, cell, store, result, history>>

-----------------------------------------------------------------------------
(* UnityMain *)

\* UnityBegin, for the next repetition.
BeginRun ==
    /\ phase = "begin" /\ r < fixture.RepeatCount
    /\ unity' = NoCounts
    /\ phase' = "idle" /\ test' = 1 /\ tally' = NoTally
    /\ UNCHANGED <<args, fixture, r, steps, cell, store, result, first, origin>>

\* UnityEnd: the counters are printed.
EndRun ==
    /\ phase = "idle" /\ test > Len(Tests)
    /\ phase' = "begin" /\ r' = r + 1
    /\ UNCHANGED <<args, fixture, unity, test, steps, cell, store, result, history>>

MainReturns ==
    /\ phase = "begin" /\ r >= fixture.RepeatCount
    /\ phase' = "exit" /\ result' = unity.TestFailures
    /\ UNCHANGED <<args, fixture, unity, r, test, steps, cell, store, history>>

-----------------------------------------------------------------------------
(* UnityTestRunner and UnityIgnoreTest *)

selected(filter, select, name) ==
    \/ filter = NULL /\ select = NULL
    \/ <<name, filter>> \in Contains
    \/ name = select

Selected(t) ==
    /\ selected(fixture.NameFilter, fixture.Name, t.name)
    /\ selected(fixture.GroupFilter, fixture.Group, t.group)

Idle == phase = "idle" /\ test =< Len(Tests) /\ UNCHANGED <<args, fixture, r, result, cell, origin>>

SkipTest ==
    /\ Idle /\ ~Selected(Tests[test])
    /\ test' = test + 1
    /\ UNCHANGED <<unity, phase, steps, store, first, tally>>

UnityIgnoreTest ==
    /\ Idle /\ Selected(Tests[test]) /\ Tests[test].ignored
    /\ unity' = [unity EXCEPT !.NumberOfTests = @ + 1, !.TestIgnores = @ + 1]
    /\ test' = test + 1
    /\ tally' = [tally EXCEPT !["ignore"] = @ + 1]
    /\ UNCHANGED <<phase, steps, store, first>>

\* UnityPointer_Init; a dry run goes on behind the test's functions.
StartTest ==
    /\ Idle /\ Selected(Tests[test]) /\ ~Tests[test].ignored
    /\ unity' = [unity EXCEPT !.NumberOfTests = @ + 1]
    /\ store' = << >>
    /\ phase' = IF fixture.DryRun THEN "undo" ELSE "setup"
    /\ steps' = 0
    /\ UNCHANGED <<test, first, tally>>

\* One of the functions of the test runs.
Running ==
    /\ phase \in {"setup", "body", "teardown"}
    /\ UNCHANGED <<args, fixture, r, test, result, tally, origin>>

FunctionReturns ==
    /\ Running
    /\ phase' = CASE phase = "setup" -> "body" [] phase = "body" -> "teardown"
                  [] phase = "teardown" -> "undo"
    /\ steps' = 0
    /\ UNCHANGED <<unity, cell, store, first>>

-----------------------------------------------------------------------------
(* The steps of a test *)

GoOn == steps' = steps + 1 /\ UNCHANGED phase

\* A variant with a mistake: the teardown is called without a TEST_PROTECT of
\* its own, behind the one of setup and body.
AbortToTeardown == steps' = 0 /\ phase' = "teardown"

\* TEST_ABORT returns to the last TEST_PROTECT: one protects setup and body,
\* one the teardown.
Abort == steps' = 0 /\ phase' = (IF phase = "teardown" THEN "undo" ELSE "teardown")

\* RETURN_IF_FAIL_OR_IGNORE
Decided == unity.CurrentTestFailed \/ unity.CurrentTestIgnored

Verdict(v) == first' = IF first = "pass" THEN v ELSE first

\* UNITY_FAIL_AND_BAIL behind RETURN_IF_FAIL_OR_IGNORE.
Fail ==
    /\ unity' = [unity EXCEPT !.CurrentTestFailed = @ \/ ~Decided]
    /\ Abort /\ Verdict("fail")

Step == Running /\ steps < MaxSteps

\* The verdicts that the calls of assertion functions have.
Verdicts == {Fails(c) : c \in Calls}

\* An assertion that is a function leaves the test when it fails, and also
\* when the test was already decided.
AssertFunction ==
    /\ Step /\ UNCHANGED <<cell, store>>
    /\ \E fails \in Verdicts :
          IF fails THEN Fail
          ELSE /\ IF Decided THEN Abort ELSE GoOn
               /\ UNCHANGED <<unity, first>>

\* UNITY_TEST_ASSERT calls UnityFail only for a condition that is false.
AssertCondition ==
    /\ Step /\ UNCHANGED <<cell, store>>
    /\ \E condition \in BOOLEAN :
          IF condition THEN GoOn /\ UNCHANGED <<unity, first>> ELSE Fail

\* A variant with a mistake: a test that has failed can still be ignored.
UnityIgnoreAlways ==
    /\ Step /\ UNCHANGED <<cell, store>>
    /\ unity' = [unity EXCEPT !.CurrentTestIgnored = TRUE]
    /\ Abort /\ Verdict("ignore")

UnityIgnore ==
    /\ Step /\ UNCHANGED <<cell, store>>
    /\ unity' = [unity EXCEPT !.CurrentTestIgnored = @ \/ ~Decided]
    /\ Abort /\ Verdict("ignore")

\* TEST_PASS
TestPass == Step /\ Abort /\ UNCHANGED <<unity, cell, store, first>>

UnityPointer_Set ==
    /\ Step
    /\ \E p \in Cells, v \in Values :
          IF Len(store) >= MaxPointers THEN Fail /\ UNCHANGED <<cell, store>>
          ELSE /\ store' = Append(store, [pointer |-> p, old_value |-> cell[p]])
               /\ cell' = [cell EXCEPT ![p] = v]
               /\ GoOn /\ UNCHANGED <<unity, first>>

-----------------------------------------------------------------------------
(* The end of a test *)

\* A variant with a mistake: the first pointer that was set is undone first.
UndoFirst ==
    /\ phase = "undo" /\ store # << >>
    /\ cell' = [cell EXCEPT ![store[1].pointer] = store[1].old_value]
    /\ store' = Tail(store)
    /\ UNCHANGED <<args, fixture, unity, phase, r, test, steps, result, history>>

\* A turn of the loop of UnityPointer_UndoAllSets.
UndoLast ==
    /\ phase = "undo" /\ store # << >>
    /\ LET last == store[Len(store)]
       IN  cell' = [cell EXCEPT ![last.pointer] = last.old_value]
    /\ store' = SubSeq(store, 1, Len(store) - 1)
    /\ UNCHANGED <<args, fixture, unity, phase, r, test, steps, result, history>>

UnityConcludeFixtureTest ==
    /\ phase = "undo" /\ store = << >>
    /\ unity' = [unity EXCEPT
          !.TestIgnores = IF unity.CurrentTestIgnored THEN @ + 1 ELSE @,
          !.TestFailures = IF unity.CurrentTestFailed /\ ~unity.CurrentTestIgnored
                           THEN @ + 1 ELSE @,
          !.CurrentTestFailed = FALSE, !.CurrentTestIgnored = FALSE]
    /\ phase' = "idle" /\ test' = test + 1
    /\ tally' = [tally EXCEPT ![first] = @ + 1] /\ first' = "pass"
    /\ UNCHANGED <<args, fixture, r, steps, cell, store, result, origin>>

Next ==
    \/ ReadHelp \/ ReadFilter \/ ReadRepeat \/ ReadOther \/ OptionsRead
    \/ BeginRun \/ EndRun \/ MainReturns
    \/ SkipTest \/ UnityIgnoreTest \/ StartTest \/ FunctionReturns
    \/ AssertFunction \/ AssertCondition \/ UnityIgnore \/ TestPass \/ UnityPointer_Set
    \/ UndoLast \/ UnityConcludeFixtureTest

\* The runner is one thread that nothing blocks.
Spec == Init /\ [][Next]_vars /\ WF_vars(Next)

-----------------------------------------------------------------------------
(* Properties *)

BetweenTests == phase \in {"begin", "idle", "exit"}

\* Every test that was run is counted once, by the first thing that decided
\* it, an assertion that failed or TEST_IGNORE, in setup, body or teardown:
\* no later failure, ignore or abort changes it.  UnityMain returns the
\* failures of the last repetition (unity_fixture.c:30-47, 84-122, 324-354).
TotalsExact ==
    BetweenTests =>
        /\ unity.NumberOfTests = tally["pass"] + tally["fail"] + tally["ignore"]
        /\ unity.TestFailures = tally["fail"]
        /\ unity.TestIgnores = tally["ignore"]
        /\ phase = "exit" /\ args = << >> => result = tally["fail"]

\* Between two tests every pointer is what it was before the first one,
\* however a test was left and however often it set the same pointer, also
\* when it set too many (unity_fixture.c:150-189).
PointersRestored == BetweenTests => cell = origin

\* UnityMain returns when every function of a test ends: an assertion that
\* leaves a function always comes back to the runner behind that function.
RunEnds == <>(phase = "exit")
=============================================================================
