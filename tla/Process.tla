------------------------------- MODULE Process -------------------------------
(***************************************************************************)
(* A process that uses the parts of the library without data structures:   *)
(* it parses command lines (Args), logs and makes checked system calls     *)
(* (Diag).  The parser shares no state with the other two.                 *)
(***************************************************************************)
EXTENDS Args

CONSTANTS
    Texts,          \* the texts that are logged
    Errnos,         \* the values of errno
    Sids,           \* what getsid returns
    MaxDepth,       \* bound on the log calls that are open at once
    BtSize          \* _XFUNCS_BT_BUF_SIZE

\* A text is made of bytes and ends before its NUL.  The two frames of xfuncs
\* fit into the buffer of a backtrace (xfuncs.h:37).
ASSUME DiagAssumption ==
    /\ Texts \subseteq Seq(1 .. 255)
    /\ Sids \subseteq Int
    /\ BtSize \in Nat /\ BtSize > 2

VARIABLES sink, errno, frames, handler, at, failed, info, returned, base

Diag == INSTANCE Diag

-----------------------------------------------------------------------------
(* The properties of llog.h and xfuncs.h, see modules Llog and Xfuncs *)

MessageClean == Diag!MessageClean
ErrnoKept == Diag!ErrnoKept
OnlySuccessReturns == Diag!X!OnlySuccessReturns
ReportExact == Diag!X!ReportExact
=============================================================================
