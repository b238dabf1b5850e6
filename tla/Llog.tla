-------------------------------- MODULE Llog --------------------------------
(***************************************************************************)
(* llog_log of src/llog.h: calls may nest, because a sink may log to       *)
(* another log.  A text is a sequence of bytes, 0 not among them; the      *)
(* message is what _llog_convert_special_chars makes of it with the        *)
(* functions of dstr.h, whose Spelled says that the pieces are joined.     *)
(***************************************************************************)
EXTENDS Integers, Sequences, SequencesExt

CONSTANTS
    Errnos,         \* the values of errno
    Texts,          \* the formatted texts
    SignedChar,     \* whether char is signed on this platform
    MaxDepth        \* bound on the calls that are open at once

VARIABLES
    sink,       \* whether log->sink is set
    errno,      \* the thread's errno
    frames,     \* the open calls, the innermost last
    up          \* FALSE once _LINC_LIB_FATAL has ended the process

vars == <<sink, errno, frames, up>>

Init == sink \in BOOLEAN /\ errno \in Errnos /\ frames = << >> /\ up = TRUE

-----------------------------------------------------------------------------
(* _llog_convert_special_chars *)

\* \a \b \t \n \v \f \r and their letters
Letter == [b \in 7 .. 13 |-> << 97, 98, 116, 110, 118, 102, 114 >>[b - 6]]

\* The value of a byte as a char, and back.
Char(b) == IF SignedChar /\ b > 127 THEN b - 256 ELSE b
Byte(c) == c % 256

\* A variant with a mistake: 20 for 0x20.
EscapedDecimal(b) ==
    CASE b \in DOMAIN Letter -> << 92, Letter[b] >>
      [] b \notin DOMAIN Letter /\ Char(b) < 20 -> << 94, Byte(Char(b) + 64) >>
      [] OTHER -> << b >>

\* '\\' and a letter; '^' and the char that is 64 higher; the byte itself,
\* DEL included.
Escaped(b) ==
    CASE b \in DOMAIN Letter -> << 92, Letter[b] >>
      [] b \notin DOMAIN Letter /\ Char(b) < 32 -> << 94, Byte(Char(b) + 64) >>
      [] OTHER -> << b >>

Converted(text) == FlattenSeq([i \in DOMAIN text |-> Escaped(text[i])])

\* What a sink reads of a message: it ends at the first NUL.
SinkReads(msg) ==
    IF \E i \in DOMAIN msg : msg[i] = 0
    THEN SubSeq(msg, 1, SelectInSeq(msg, LAMBDA b : b = 0) - 1)
    ELSE msg

-----------------------------------------------------------------------------
(* llog_log *)

\* log->sink is NULL: nothing is saved, formatted or changed.
LogIgnored == ~sink /\ UNCHANGED vars

\* A variant with a mistake: errno is saved where it is stored, behind the
\* backtrace.
OpenedLate(text, now) ==
    [saved_errno |-> now, entry |-> errno, text |-> text, msg |-> Converted(text)]

\* saved_errno is taken first; entry is a ghost, errno as the call found it.
Opened(text, now) ==
    [saved_errno |-> errno, entry |-> errno, text |-> text,
     msg |-> Converted(text)]

\* backtrace, vasprintf and the allocations leave any errno behind.
LogOpens ==
    /\ sink /\ Len(frames) < MaxDepth
    /\ \E text \in Texts :
          errno' \in Errnos /\ frames' = Append(frames, Opened(text, errno'))
    /\ UNCHANGED <<sink, up>>

\* vasprintf, or an allocation of the conversion, fails.
LogDies == sink /\ up' = FALSE /\ UNCHANGED <<sink, errno, frames>>

\* The sink is the caller's code: it leaves any errno behind.
SinkRuns ==
    /\ frames # << >>
    /\ errno' \in Errnos
    /\ UNCHANGED <<sink, frames, up>>

\* The sink is done; the message is freed and errno restored.
LogReturns ==
    /\ frames # << >>
    /\ errno' = Last(frames).saved_errno
    /\ frames' = Front(frames)
    /\ UNCHANGED <<sink, up>>

Next == up /\ (LogIgnored \/ LogOpens \/ LogDies \/ SinkRuns \/ LogReturns)

Spec == Init /\ [][Next]_vars

-----------------------------------------------------------------------------
(* Properties *)

Plain(text) == SignedChar => \A k \in DOMAIN text : text[k] < 128

\* What a sink reads has no control character below 0x20 and is the whole
\* message.  Where char is signed this holds of ASCII texts only: a byte above
\* 0x7F takes the caret branch, and what is pushed for it may be a control
\* character or the NUL that ends the message (llog.h:78-105).
MessageClean ==
    \A i \in DOMAIN frames :
        Plain(frames[i].text) =>
            LET read == SinkReads(frames[i].msg)
            IN  read = frames[i].msg /\ \A k \in DOMAIN read : read[k] >= 32

\* Logging is invisible to error handling: however calls nest and whatever
\* backtrace, vasprintf and the sinks do to errno, a call returns with the
\* errno it was entered with, and reports that one (llog.h:118, 123, 141).
ErrnoKept ==
    [][/\ Len(frames') < Len(frames) => errno' = Last(frames).entry
       /\ Len(frames') > Len(frames) => Last(frames').saved_errno = errno]_vars
=============================================================================
