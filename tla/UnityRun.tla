------------------------------ MODULE UnityRun ------------------------------
(***************************************************************************)
(* A process that runs the suite (UnityFixture), or makes one call of an   *)
(* assertion (UnityAsserts) on its own.                                    *)
(***************************************************************************)
EXTENDS UnityFixture

\* Tests use the assertions with the types and lengths of what they compare.
ASSUME CallsAssumption == NULL \notin Calls /\ \A c \in Calls : Legal(c)

VARIABLE call   \* the call that is looked at, NULL while the suite runs

UnityInit == Init /\ (call = NULL \/ call \in Calls)
UnityNext == call = NULL /\ Next /\ UNCHANGED call
UnitySpec == UnityInit /\ [][UnityNext]_<<vars, call>>

-----------------------------------------------------------------------------
(* Properties *)

\* An assertion fails exactly when what its name says of its arguments does
\* not hold: no sum wraps, no sign is lost in an array of narrow elements,
\* NULL and an empty array are told from equal ones (unity.c:768-2140).
VerdictExact == call # NULL => (Fails(call) <=> ~Holds(call))

\* What a failed assertion prints for a number is the number that was
\* compared, in its type, the least one included; what it prints for two
\* masked numbers differs (unity.c:199-345).
ReportTells ==
    call # NULL =>
        /\ call.op = "EQUAL" =>
              \A x \in {call.expected, call.actual} :
                  Denoted(Printed(call, x), call.style, call.width)
                    = Value(x, call.style, call.width)
        /\ call.op = "BITS" /\ Fails(call) =>
              Printed(call, call.expected) # Printed(call, call.actual)
=============================================================================
