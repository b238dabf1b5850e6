-------------------------------- MODULE Diag --------------------------------
(***************************************************************************)
(* A thread that logs through llog.h and makes its system calls through    *)
(* xfuncs.h.  The two share errno: the fatal handler may log, the sink of  *)
(* a log may make checked calls, and each of the two promises to leave the *)
(* error of the program alone.                                             *)
(***************************************************************************)
EXTENDS Llog

CONSTANTS NULL, Sids, BtSize

VARIABLES
    handler, at, failed, info, returned,    \* those of Xfuncs
    base        \* the log calls that were open when the handler was entered

X == INSTANCE Xfuncs

xvars == <<handler, at, failed, info, returned>>
dvars == <<vars, xvars, base>>

DiagInit == Init /\ X!Init /\ base = 0

\* llog_log is called, runs or returns: by the program, in a sink or in the
\* handler, which may return from its own calls only.
LogStep ==
    /\ at \in {"program", "handler"}
    /\ Next
    /\ Len(frames') >= base
    /\ UNCHANGED <<xvars, base>>

\* A wrapper is called by the program or in a sink.  The handler may end the
\* process at any time, but jumps only where no log call would be lost.
XStep ==
    /\ up
    /\ X!Next
    /\ at = "handler" /\ at' = "program" => frames = << >>
    /\ base' = IF at' = "handler" THEN Len(frames) ELSE 0
    /\ UNCHANGED <<sink, frames, up>>

DiagNext == LogStep \/ XStep

DiagSpec == DiagInit /\ [][DiagNext]_dvars
=============================================================================
