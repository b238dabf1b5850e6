------------------------------- MODULE Xfuncs -------------------------------
(***************************************************************************)
(* The checked system calls of src/xfuncs.h.  A wrapper makes its call and *)
(* returns the result, unless it is the value that reports a failure: then *)
(* _XFUNCS_SYS_FAIL collects what is known and calls the fatal handler, or *)
(* exits if there is none.                                                 *)
(*                                                                         *)
(* The calls are external.  Each returns "-1", "0" or "1", or, those that  *)
(* return a pointer, "NULL" or "pointer"; a call that fails sets errno, one *)
(* that succeeds may change it.                                            *)
(***************************************************************************)
EXTENDS Integers

CONSTANTS
    NULL,
    Errnos,         \* the values of errno
    Sids,           \* the session ids; -1 is the failure of getsid
    BtSize          \* _XFUNCS_BT_BUF_SIZE, 100 in the code

VARIABLES
    handler,    \* whether xf->handler is set
    errno,      \* the thread's errno
    at,         \* where control is: "program", "collect", "handler", "ended"
    failed,     \* ghost: the name and errno of the last call if it failed
    info,       \* the _xfuncs_info of the handler, or NULL
    returned    \* the wrapper that returned last, and what, or NULL

vars == <<handler, errno, at, failed, info, returned>>

Init ==
    /\ handler \in BOOLEAN /\ errno \in Errnos
    /\ at = "program" /\ failed = NULL /\ info = NULL /\ returned = NULL

-----------------------------------------------------------------------------
(* The wrappers: the results for which each calls _XFUNCS_SYS_FAIL *)

FileChecks == [open |-> {"-1"}, dup2 |-> {"-1"}, close |-> {"-1"}]

\* A variant with a mistake: malloc is checked like the calls before it.
MemoryChecksOfFiles ==
    [malloc |-> {"-1"}, calloc |-> {"NULL"}, realloc |-> {"NULL"}]

MemoryChecks ==
    [malloc |-> {"NULL"}, calloc |-> {"NULL"}, realloc |-> {"NULL"}]

SignalChecks ==
    [sigaction |-> {"-1"}, sigemptyset |-> {"-1"}, sigaddset |-> {"-1"},
     sigdelset |-> {"-1"}, sigprocmask |-> {"-1"}]

ProcessChecks ==
    [setpgid |-> {"-1"}, tcsetpgrp |-> {"-1"}, getcwd |-> {"NULL"},
     kill |-> {"-1"}, atexit |-> {"-1"}, pipe |-> {"-1"}, pipe2 |-> {"-1"},
     fork |-> {"-1"}]

TerminalChecks ==
    [tcgetattr |-> {"-1"}, tcsetattr |-> {"-1"}, forkpty |-> {"-1"},
     poll |-> {"-1"}, timerfd_create |-> {"-1"}, timerfd_settime |-> {"-1"}]

StringChecks ==
    [strdup |-> {"NULL"}, strndup |-> {"NULL"}, setvbuf |-> {"-1", "1"}]

DirectoryChecks ==
    [opendir |-> {"NULL"}, closedir |-> {"-1"}, mkdir |-> {"-1"},
     rmdir |-> {"-1"}, unlink |-> {"-1"}, chdir |-> {"-1"}]

Groups == {FileChecks, MemoryChecks, SignalChecks, ProcessChecks, TerminalChecks,
           StringChecks, DirectoryChecks}
Checks == [w \in UNION {DOMAIN g : g \in Groups} |->
              (CHOOSE g \in Groups : w \in DOMAIN g)[w]]

-----------------------------------------------------------------------------
(* The C library: what the calls return, and what means failure (a failed    *)
(* atexit of glibc returns -1).                                              *)

PointerCalls == {"malloc", "calloc", "realloc", "getcwd", "strdup", "strndup",
                 "opendir"}
Results(w) == IF w \in PointerCalls THEN {"NULL", "pointer"} ELSE {"-1", "0", "1"}
Failures(w) ==
    CASE w \in PointerCalls -> {"NULL"}
      [] w = "setvbuf"      -> {"-1", "1"}
      [] OTHER              -> {"-1"}

-----------------------------------------------------------------------------

\* The wrapper w makes its call.  With a handler there is something to
\* collect; without one the program exits.
Call(w) ==
    /\ at = "program"
    /\ errno' \in Errnos
    /\ \E rv \in Results(w) :
          /\ failed' = IF rv \in Failures(w) THEN [name |-> w, errno |-> errno']
                                            ELSE NULL
          /\ \/ /\ rv \notin Checks[w]
                /\ returned' = [name |-> w, rv |-> rv] /\ at' = at
             \/ /\ rv \in Checks[w]
                /\ returned' = NULL
                /\ at' = IF handler THEN "collect" ELSE "ended"
    /\ UNCHANGED <<handler, info>>

\* backtrace_symbols is called for the frames above the two of xfuncs, unless
\* the buffer may have been too small.
Frames(nptr) == IF nptr < BtSize /\ nptr > 2 THEN nptr - 2 ELSE 0

\* A variant with a mistake: errno is read last.
InfoErrnoLast(sid, frames, symbols, now) ==
    [saved_errno |-> now, sys_name |-> failed.name, sid |-> sid,
     available |-> (IF sid # -1 THEN {"SID"} ELSE {})
                   \cup (IF frames > 0 /\ symbols THEN {"BTRACE"} ELSE {}),
     backtrace_count |-> IF symbols THEN frames ELSE 0]

\* The fields of _xfuncs_collect_xinfo; now is errno after the calls in it.
Info(sid, frames, symbols, now) ==
    [saved_errno |-> errno, sys_name |-> failed.name, sid |-> sid,
     available |-> (IF sid # -1 THEN {"SID"} ELSE {})
                   \cup (IF frames > 0 /\ symbols THEN {"BTRACE"} ELSE {}),
     backtrace_count |-> IF symbols THEN frames ELSE 0]

\* _xfuncs_collect_xinfo: getsid, backtrace and backtrace_symbols may fail and
\* leave any errno behind.
Collect ==
    /\ at = "collect"
    /\ errno' \in Errnos
    /\ \E sid \in Sids, nptr \in 0 .. BtSize, symbols \in BOOLEAN :
          info' = Info(sid, Frames(nptr), symbols, errno')
    /\ at' = "handler"
    /\ UNCHANGED <<handler, failed, returned>>

\* The handler ends the process, or returns and abort() does.
HandlerEnds ==
    /\ at = "handler"
    /\ at' = "ended"
    /\ UNCHANGED <<handler, errno, failed, info, returned>>

\* The handler leaves by longjmp, as the one of test_xfuncs.c does.
HandlerJumps ==
    /\ at = "handler"
    /\ at' = "program" /\ info' = NULL
    /\ UNCHANGED <<handler, errno, failed, returned>>

Next == (\E w \in DOMAIN Checks : Call(w)) \/ Collect \/ HandlerEnds \/ HandlerJumps

Spec == Init /\ [][Next]_vars

-----------------------------------------------------------------------------
(* Properties *)

\* No wrapper returns a failure to the program, whichever convention its call
\* follows: only a handler that jumps lets the program go on after one
\* (xfuncs.h:48-58, 170-492).
OnlySuccessReturns ==
    returned # NULL => returned.rv \notin Failures(returned.name)

\* The handler is told the call that failed and its errno, and a flag is set
\* exactly for each best-effort field that is valid, whatever getsid, the
\* backtrace and a handler that logs do to errno meanwhile (xfuncs.h:96-126).
ReportExact ==
    at = "handler" =>
        /\ info.sys_name = failed.name
        /\ info.saved_errno = failed.errno
        /\ "SID" \in info.available <=> info.sid # -1
        /\ "BTRACE" \in info.available <=> info.backtrace_count > 0
        /\ info.backtrace_count < BtSize - 2
=============================================================================
