---------------------------- MODULE ProcessProofs ----------------------------
(***************************************************************************)
(* Proofs about llog.h, xfuncs.h (module Diag) and args.h (module Args).   *)
(***************************************************************************)
EXTENDS Process, SequenceTheorems, WellFoundedInduction, TLAPS

-----------------------------------------------------------------------------
(* Numbers and sequences *)

\* A set of numbers has a least one.
LEMMA Least ==
    ASSUME NEW S, S \subseteq Nat, S # {}
    PROVE  \E m \in S : \A n \in S : m =< n
<1> DEFINE R == {ss \in Nat \X Nat : ss[1] < ss[2]}
<1>1. OpToRel(<, Nat) = R
  BY DEF OpToRel
<1>2. IsWellFoundedOn(R, Nat)
  BY <1>1, NatLessThanWellFounded
<1> HIDE DEF R
<1>3. PICK m \in S : \A n \in S : ~(<< n, m >> \in R)
  BY <1>2, WFMin
<1>4. \A n \in S : ~(n < m)
  BY <1>3 DEF R
<1> QED BY <1>4

\* What FlattenSeq makes of sequences over S is one: its recursion has a
\* solution, and each value of it is a sequence over S.
LEMMA Flattened ==
    ASSUME NEW S, NEW s \in Seq(Seq(S))
    PROVE  Diag!FlattenSeq(s) \in Seq(S)
<1> DEFINE Solves(f, n) ==
             f = [i \in 1 .. n |-> IF i = 1 THEN s[i] ELSE f[i - 1] \o s[i]]
           Bad == {n \in Nat : ~(\E f : Solves(f, n))}
<1>1. \A i \in 1 .. Len(s) : s[i] \in Seq(S)
  BY ElementOfSeq
<1>2. Bad = {}
  <2> SUFFICES ASSUME Bad # {} PROVE FALSE
    OBVIOUS
  <2>1. PICK m \in Bad : \A n \in Bad : m =< n
    BY Least
  <2>2. m # 0
    <3> DEFINE e == [i \in 1 .. 0 |-> << >>]
    <3>1. Solves(e, 0)
      OBVIOUS
    <3> QED BY <3>1
  <2>3. m \in Nat /\ m - 1 \in Nat /\ m - 1 \notin Bad
    <3> HIDE DEF Bad
    <3>1. m \in Nat /\ m - 1 \in Nat /\ ~(m =< m - 1)
      <4>1. Bad \subseteq Nat
        BY DEF Bad
      <4> QED BY <2>1, <2>2, <4>1
    <3> QED BY <2>1, <3>1
  <2>4. PICK f : Solves(f, m - 1)
    BY <2>3
  <2> DEFINE g == [i \in 1 .. m |->
                     IF i = m THEN IF i = 1 THEN s[i] ELSE f[i - 1] \o s[i]
                     ELSE f[i]]
  <2>5. ASSUME NEW i \in 1 .. m
        PROVE  g[i] = IF i = 1 THEN s[i] ELSE g[i - 1] \o s[i]
    <3>1. CASE i = m
      BY <2>3, <3>1
    <3>2. CASE i # m
      <4>1. i \in 1 .. m - 1 /\ (i # 1 => i - 1 \in 1 .. m - 1 /\ i - 1 \in 1 .. m /\ i - 1 # m)
        BY <2>3, <3>2
      <4>2. f[i] = IF i = 1 THEN s[i] ELSE f[i - 1] \o s[i]
        BY <2>4, <4>1
      <4>3. g[i] = f[i] /\ (i # 1 => g[i - 1] = f[i - 1])
        BY <3>2, <4>1
      <4> QED BY <4>2, <4>3
    <3> QED BY <3>1, <3>2
  <2>6. g = [i \in 1 .. m |-> g[i]]
    OBVIOUS
  <2> HIDE DEF g
  <2>7. Solves(g, m)
    BY <2>5, <2>6
  <2> HIDE DEF Solves
  <2> QED BY <2>1, <2>7
<1>3. CASE Len(s) = 0
  BY <1>3, EmptySeq DEF Diag!FlattenSeq
<1>4. CASE Len(s) # 0
  <2>1. Len(s) \in Nat /\ Len(s) \in 1 .. Len(s)
    BY <1>4, LenProperties
  <2> DEFINE F == CHOOSE f : Solves(f, Len(s))
  <2>2. Diag!FlattenSeq(s) = F[Len(s)]
    BY <1>4 DEF Diag!FlattenSeq
  <2>3. \E f : Solves(f, Len(s))
    <3> HIDE DEF Solves
    <3> QED BY <1>2, <2>1
  <2>4. Solves(F, Len(s))
    <3> HIDE DEF Solves
    <3> QED BY <2>3
  <2> HIDE DEF F
  <2>5. \A i \in 1 .. Len(s) : F[i] = IF i = 1 THEN s[i] ELSE F[i - 1] \o s[i]
    BY <2>4
  <2> DEFINE Off == {i \in 1 .. Len(s) : F[i] \notin Seq(S)}
  <2>6. Off = {}
    <3> SUFFICES ASSUME Off # {} PROVE FALSE
      OBVIOUS
    <3>1. Off \subseteq Nat
      BY <2>1
    <3>2. PICK m \in Off : \A n \in Off : m =< n
      BY <3>1, Least
    <3>3. CASE m = 1
      BY <1>1, <2>5, <3>2, <3>3
    <3>4. CASE m # 1
      <4>1. m \in 1 .. Len(s) /\ m - 1 \in 1 .. Len(s) /\ ~(m =< m - 1)
        BY <2>1, <3>2, <3>4
      <4>2. F[m - 1] \in Seq(S) /\ s[m] \in Seq(S)
        BY <1>1, <3>2, <4>1
      <4>3. F[m - 1] \o s[m] \in Seq(S)
        BY <4>2, ConcatProperties
      <4> QED BY <2>5, <3>2, <3>4, <4>1, <4>3
    <3> QED BY <3>3, <3>4
  <2> QED BY <2>1, <2>2, <2>6
<1> QED BY <1>3, <1>4

-----------------------------------------------------------------------------
(* xfuncs.h: what each wrapper checks for *)

\* The wrappers check exactly for the values that mean failure.
LEMMA ChecksAreFailures ==
    \A w \in DOMAIN Diag!X!Checks : Diag!X!Checks[w] = Diag!X!Failures(w)
<1>1. ASSUME NEW g \in Diag!X!Groups, NEW w \in DOMAIN g
      PROVE  g[w] = Diag!X!Failures(w)
  <2>1. CASE g = Diag!X!FileChecks
    BY <2>1 DEF Diag!X!FileChecks, Diag!X!Failures, Diag!X!PointerCalls
  <2>2. CASE g = Diag!X!MemoryChecks
    BY <2>2 DEF Diag!X!MemoryChecks, Diag!X!Failures, Diag!X!PointerCalls
  <2>3. CASE g = Diag!X!SignalChecks
    BY <2>3 DEF Diag!X!SignalChecks, Diag!X!Failures, Diag!X!PointerCalls
  <2>4. CASE g = Diag!X!ProcessChecks
    BY <2>4 DEF Diag!X!ProcessChecks, Diag!X!Failures, Diag!X!PointerCalls
  <2>5. CASE g = Diag!X!TerminalChecks
    BY <2>5 DEF Diag!X!TerminalChecks, Diag!X!Failures, Diag!X!PointerCalls
  <2>6. CASE g = Diag!X!StringChecks
    BY <2>6 DEF Diag!X!StringChecks, Diag!X!Failures, Diag!X!PointerCalls
  <2>7. CASE g = Diag!X!DirectoryChecks
    BY <2>7 DEF Diag!X!DirectoryChecks, Diag!X!Failures, Diag!X!PointerCalls
  <2> QED BY <2>1, <2>2, <2>3, <2>4, <2>5, <2>6, <2>7 DEF Diag!X!Groups
<1>2. ASSUME NEW w \in DOMAIN Diag!X!Checks
      PROVE  Diag!X!Checks[w] = Diag!X!Failures(w)
  <2>1. PICK h \in Diag!X!Groups : w \in DOMAIN h
    BY DEF Diag!X!Checks
  <2> DEFINE g == CHOOSE g \in Diag!X!Groups : w \in DOMAIN g
  <2>2. g \in Diag!X!Groups /\ w \in DOMAIN g
    BY <2>1
  <2>3. Diag!X!Checks[w] = g[w]
    BY DEF Diag!X!Checks
  <2> HIDE DEF g
  <2> QED BY <1>1, <2>2, <2>3
<1> QED BY <1>2

-----------------------------------------------------------------------------
(* xfuncs.h: failures are not returned and are reported as they were *)

\* Between a failed call and its report errno is the one of the failure.
XfuncsInv ==
    /\ OnlySuccessReturns
    /\ at = "collect" => failed.errno = errno
    /\ ReportExact

LEMMA XfuncsInitially == Diag!DiagInit => XfuncsInv
  BY DEF Diag!DiagInit, Diag!X!Init, XfuncsInv, OnlySuccessReturns, ReportExact,
         Diag!X!OnlySuccessReturns, Diag!X!ReportExact

LEMMA XfuncsKept ==
    XfuncsInv /\ [Diag!DiagNext]_(Diag!dvars) => XfuncsInv'
<1> SUFFICES ASSUME XfuncsInv, [Diag!DiagNext]_(Diag!dvars) PROVE XfuncsInv'
  OBVIOUS
<1> USE DEF OnlySuccessReturns, ReportExact, Diag!X!OnlySuccessReturns, Diag!X!ReportExact
<1>1. CASE Diag!LogStep
  BY <1>1 DEF Diag!LogStep, Diag!xvars, XfuncsInv
<1>2. ASSUME NEW w \in DOMAIN Diag!X!Checks, Diag!X!Call(w) PROVE XfuncsInv'
  <2>1. Diag!X!Checks[w] = Diag!X!Failures(w)
    BY ChecksAreFailures
  <2>2. PICK rv \in Diag!X!Results(w) :
          /\ failed' = IF rv \in Diag!X!Failures(w) THEN [name |-> w, errno |-> errno']
                                                    ELSE NULL
          /\ \/ /\ rv \notin Diag!X!Checks[w]
                /\ returned' = [name |-> w, rv |-> rv] /\ at' = at
             \/ /\ rv \in Diag!X!Checks[w]
                /\ returned' = NULL
                /\ at' = IF handler THEN "collect" ELSE "ended"
    BY <1>2 DEF Diag!X!Call
  <2>3. at = "program"
    BY <1>2 DEF Diag!X!Call
  <2>4. CASE rv \notin Diag!X!Checks[w]
    BY <2>1, <2>2, <2>3, <2>4 DEF XfuncsInv
  <2>5. CASE rv \in Diag!X!Checks[w]
    <3>1. at' # "handler" /\ returned' = NULL /\ failed' = [name |-> w, errno |-> errno']
      BY <2>1, <2>2, <2>5
    <3> QED BY <3>1 DEF XfuncsInv
  <2> QED BY <2>4, <2>5
<1>3. CASE Diag!X!Collect
  <2>1. PICK sid \in Sids, nptr \in 0 .. BtSize, symbols \in BOOLEAN :
          info' = Diag!X!Info(sid, Diag!X!Frames(nptr), symbols, errno')
    BY <1>3 DEF Diag!X!Collect
  <2>2. PICK n : n = Diag!X!Frames(nptr)
    OBVIOUS
  <2>3. n \in Nat /\ n < BtSize - 2
    BY <2>1, <2>2, DiagAssumption DEF Diag!X!Frames
  <2>4. /\ info' = Diag!X!Info(sid, n, symbols, errno') 
        /\ at = "collect" /\ at' = "handler" /\ failed' = failed /\ returned' = returned
    BY <1>3, <2>1, <2>2 DEF Diag!X!Collect
  <2>5. 0 < BtSize - 2
    BY DiagAssumption
  <2>6. /\ info'.sys_name = failed.name
        /\ info'.saved_errno = errno
        /\ info'.sid = sid
        /\ "SID" \in info'.available <=> sid # -1
        /\ "BTRACE" \in info'.available <=> n > 0 /\ symbols
        /\ info'.backtrace_count = IF symbols THEN n ELSE 0
    BY <2>4 DEF Diag!X!Info
  <2> QED BY <2>3, <2>4, <2>5, <2>6 DEF XfuncsInv
<1>4. CASE Diag!X!HandlerEnds \/ Diag!X!HandlerJumps
  BY <1>4 DEF Diag!X!HandlerEnds, Diag!X!HandlerJumps, XfuncsInv
<1>5. CASE UNCHANGED Diag!dvars
  BY <1>5 DEF Diag!dvars, Diag!vars, Diag!xvars, XfuncsInv
<1> QED
  BY <1>1, <1>2, <1>3, <1>4, <1>5 DEF Diag!DiagNext, Diag!XStep, Diag!X!Next

\* No wrapper returns a failure to the program, and the fatal handler is told
\* the call that failed, its errno and which of the other fields are valid:
\* for every order of calls, logs and handlers (xfuncs.h:48-126, 170-492).
THEOREM FailuresStay == Diag!DiagSpec => []OnlySuccessReturns
<1>1. XfuncsInv => OnlySuccessReturns
  BY DEF XfuncsInv
<1> QED BY <1>1, XfuncsInitially, XfuncsKept, PTL DEF Diag!DiagSpec

\* The report of a failure is exact.
THEOREM ReportsAreExact == Diag!DiagSpec => []ReportExact
<1>1. XfuncsInv => ReportExact
  BY DEF XfuncsInv
<1> QED BY <1>1, XfuncsInitially, XfuncsKept, PTL DEF Diag!DiagSpec

-----------------------------------------------------------------------------
(* llog.h: what is made of a byte and of a text *)

\* A byte of a plain text becomes bytes a sink can print.
LEMMA EscapedPrints ==
    ASSUME NEW b \in 1 .. 255, SignedChar => b < 128
    PROVE  Diag!Escaped(b) \in Seq(32 .. 255)
<1>1. Diag!Char(b) = b
  BY DEF Diag!Char
<1>2. CASE b \in 7 .. 13
  <2>1. /\ b \in DOMAIN Diag!Letter
        /\ Diag!Letter[b] = << 97, 98, 116, 110, 118, 102, 114 >>[b - 6]
    BY <1>2 DEF Diag!Letter
  <2>2. Diag!Letter[b] \in 32 .. 255
    <3>1. \A i \in 1 .. 7 : << 97, 98, 116, 110, 118, 102, 114 >>[i] \in 32 .. 255
      OBVIOUS
    <3>2. b - 6 \in 1 .. 7
      BY <1>2
    <3> QED BY <2>1, <3>1, <3>2
  <2>3. PICK c \in 32 .. 255 : c = Diag!Letter[b]
    BY <2>2
  <2>4. Diag!Escaped(b) = << 92, c >>
    BY <2>1, <2>3 DEF Diag!Escaped
  <2> QED BY <2>4
<1>3. CASE b \notin 7 .. 13
  <2>1. b \notin DOMAIN Diag!Letter
    BY <1>3 DEF Diag!Letter
  <2>2. CASE b < 32
    <3>1. Diag!Byte(Diag!Char(b) + 64) = b + 64
      <4>1. (b + 64) % 256 = b + 64
        BY <2>2
      <4> QED BY <1>1, <4>1 DEF Diag!Byte
    <3>2. Diag!Escaped(b) = << 94, Diag!Byte(Diag!Char(b) + 64) >>
      BY <1>1, <2>1, <2>2 DEF Diag!Escaped
    <3>3. Diag!Escaped(b) = << 94, b + 64 >>
      BY <3>1, <3>2
    <3> QED BY <3>3, <2>2
  <2>3. CASE ~(b < 32)
    <3>1. Diag!Escaped(b) = << b >>
      BY <1>1, <2>1, <2>3 DEF Diag!Escaped
    <3> QED BY <2>3, <3>1
  <2> QED BY <2>2, <2>3
<1> QED BY <1>2, <1>3

\* So a plain text becomes a message that a sink can print to its end.
LEMMA PlainConverts ==
    ASSUME NEW text \in Texts, Diag!Plain(text)
    PROVE  Diag!Converted(text) \in Seq(32 .. 255)
<1>1. text \in Seq(1 .. 255) /\ DOMAIN text = 1 .. Len(text) /\ Len(text) \in Nat
  BY DiagAssumption, LenProperties
<1>2. \A i \in 1 .. Len(text) : text[i] \in 1 .. 255
  BY <1>1, ElementOfSeq
<1> DEFINE pieces == [i \in DOMAIN text |-> Diag!Escaped(text[i])]
<1>3. ASSUME NEW i \in 1 .. Len(text) PROVE Diag!Escaped(text[i]) \in Seq(32 .. 255)
  BY <1>1, <1>2, EscapedPrints DEF Diag!Plain
<1>4. pieces \in Seq(Seq(32 .. 255))
  <2>1. pieces \in [1 .. Len(text) -> Seq(32 .. 255)]
    BY <1>1, <1>3
  <2> HIDE DEF pieces
  <2>2. PICK n \in Nat : n = Len(text)
    BY <1>1
  <2>3. pieces \in [1 .. n -> Seq(32 .. 255)]
    BY <2>1, <2>2
  <2>4. PICK S : S = Seq(32 .. 255)
    OBVIOUS
  <2>5. pieces \in UNION {[1 .. m -> S] : m \in Nat}
    BY <2>3, <2>4
  <2> QED BY <2>4, <2>5, SeqDef
<1>5. Diag!Converted(text) = Diag!FlattenSeq(pieces)
  BY DEF Diag!Converted
<1> HIDE DEF pieces
<1> QED BY <1>4, <1>5, Flattened

\* A sink reads the whole of such a message.
LEMMA PlainIsRead ==
    ASSUME NEW msg \in Seq(32 .. 255)
    PROVE  /\ Diag!SinkReads(msg) = msg
           /\ \A k \in DOMAIN msg : msg[k] >= 32
<1>1. DOMAIN msg = 1 .. Len(msg) /\ \A k \in 1 .. Len(msg) : msg[k] \in 32 .. 255
  BY LenProperties, ElementOfSeq
<1>2. \A k \in DOMAIN msg : msg[k] # 0 /\ msg[k] >= 32
  <2> SUFFICES ASSUME NEW k \in DOMAIN msg PROVE msg[k] # 0 /\ msg[k] >= 32
    OBVIOUS
  <2>1. msg[k] \in 32 .. 255
    BY <1>1
  <2>2. PICK b \in 32 .. 255 : b = msg[k]
    BY <2>1
  <2>3. b # 0 /\ b >= 32
    OBVIOUS
  <2> QED BY <2>2, <2>3
<1>3. Diag!SinkReads(msg) = msg
  BY <1>2, Zenon DEF Diag!SinkReads
<1> QED BY <1>2, <1>3

-----------------------------------------------------------------------------
(* llog.h: the open calls *)

\* What a call of llog_log may look like from the moment it is open.
Calls == {[saved_errno |-> e, entry |-> e, text |-> t, msg |-> Diag!Converted(t)] :
             e \in Errnos, t \in Texts}

LogInv == errno \in Errnos /\ frames \in Seq(Calls)

LEMMA LogInitially == Diag!DiagInit => LogInv
  BY DEF Diag!DiagInit, Diag!Init, LogInv

\* llog_log appends a call, removes the last one or leaves them.
LEMMA LogMoves ==
    ASSUME LogInv, Diag!Next
    PROVE  /\ LogInv'
           /\ \/ Len(frames') = Len(frames)
              \/ /\ Len(frames') = Len(frames) + 1
                 /\ frames'[Len(frames')].saved_errno = errno
              \/ /\ Len(frames') = Len(frames) - 1
                 /\ errno' = frames[Len(frames)].entry
<1> USE DEF LogInv
<1>0. Len(frames) \in Nat /\ \A i \in 1 .. Len(frames) : frames[i] \in Calls
  BY LenProperties, ElementOfSeq
<1>1. CASE Diag!LogIgnored \/ Diag!LogDies \/ Diag!SinkRuns
  BY <1>1 DEF Diag!LogIgnored, Diag!LogDies, Diag!SinkRuns, Diag!vars
<1>2. CASE Diag!LogOpens
  <2>1. PICK t \in Texts : errno' \in Errnos /\ frames' = Append(frames, Diag!Opened(t, errno'))
    BY <1>2 DEF Diag!LogOpens
  <2>2. PICK c \in Calls : c = Diag!Opened(t, errno') /\ c.saved_errno = errno
    BY <2>1 DEF Diag!Opened, Calls
  <2>3. frames' = Append(frames, c)
    BY <2>1, <2>2
  <2>4. frames' \in Seq(Calls) /\ Len(frames') = Len(frames) + 1 /\ frames'[Len(frames')] = c
    BY <2>3, <1>0, AppendProperties
  <2> QED BY <2>1, <2>2, <2>4
<1>3. CASE Diag!LogReturns
  <2>1. /\ frames # << >> /\ errno' = frames[Len(frames)].saved_errno
        /\ frames' = SubSeq(frames, 1, Len(frames) - 1)
    BY <1>3 DEF Diag!LogReturns, Diag!Last, Diag!Front
  <2>2. Len(frames) > 0
    BY <1>0, <2>1, EmptySeq
  <2>3. frames[Len(frames)] \in Calls
    BY <1>0, <2>2
  <2>4. errno' = frames[Len(frames)].entry /\ errno' \in Errnos
    BY <2>1, <2>3 DEF Calls
  <2>5. frames' \in Seq(Calls) /\ Len(frames') = Len(frames) - 1
    <3>1. SubSeq(frames, 1, Len(frames) - 1) \in Seq(Calls)
      BY <1>0, <2>2, SubSeqProperties
    <3>2. Len(SubSeq(frames, 1, Len(frames) - 1)) = Len(frames) - 1
      <4>1. 1 \in Int /\ Len(frames) - 1 \in Int /\ \A i \in 1 .. Len(frames) - 1 : frames[i] \in Calls
        BY <1>0, <2>2
      <4>2. PICK n \in Int : n = Len(frames) - 1
        BY <4>1
      <4>3. Len(SubSeq(frames, 1, n)) = IF 1 =< n THEN n - 1 + 1 ELSE 0
        BY <4>1, <4>2, SubSeqProperties
      <4> QED BY <1>0, <2>2, <4>2, <4>3
    <3> QED BY <2>1, <3>1, <3>2
  <2> QED BY <2>4, <2>5
<1> QED BY <1>1, <1>2, <1>3 DEF Diag!Next

LEMMA LogKept == LogInv /\ [Diag!DiagNext]_(Diag!dvars) => LogInv'
<1> SUFFICES ASSUME LogInv, [Diag!DiagNext]_(Diag!dvars) PROVE LogInv'
  OBVIOUS
<1>1. CASE Diag!LogStep
  BY <1>1, LogMoves DEF Diag!LogStep
<1>2. CASE Diag!XStep
  <2>1. errno' \in Errnos /\ frames' = frames
    BY <1>2 DEF Diag!XStep, Diag!X!Next, Diag!X!Call, Diag!X!Collect, Diag!X!HandlerEnds,
                Diag!X!HandlerJumps, LogInv
  <2> QED BY <2>1 DEF LogInv
<1>3. CASE UNCHANGED Diag!dvars
  BY <1>3 DEF Diag!dvars, Diag!vars, LogInv
<1> QED BY <1>1, <1>2, <1>3 DEF Diag!DiagNext

\* What a sink reads is the whole message, free of control characters, for
\* every text that is plain where char is signed, however the calls nest
\* (llog.h:78-105).
THEOREM MessagesAreClean == Diag!DiagSpec => []MessageClean
<1>1. LogInv => MessageClean
  <2> SUFFICES ASSUME LogInv, NEW i \in DOMAIN frames, Diag!Plain(frames[i].text)
               PROVE  LET read == Diag!SinkReads(frames[i].msg)
                      IN  read = frames[i].msg /\ \A k \in DOMAIN read : read[k] >= 32
    BY DEF MessageClean, Diag!MessageClean
  <2>1. frames[i] \in Calls
    BY LenProperties, ElementOfSeq DEF LogInv
  <2>2. PICK t \in Texts : frames[i].text = t /\ frames[i].msg = Diag!Converted(t)
    BY <2>1 DEF Calls
  <2>3. frames[i].msg \in Seq(32 .. 255)
    BY <2>2, PlainConverts
  <2> QED BY <2>3, PlainIsRead
<1> QED BY <1>1, LogInitially, LogKept, PTL DEF Diag!DiagSpec

\* A log is invisible to the error handling around it: a call saves the errno
\* it finds and returns with it, whatever happens between, the checked system
\* calls of a sink and of the fatal handler included (llog.h:118, 123, 141).
THEOREM ErrnoIsKept == Diag!DiagSpec => ErrnoKept
<1> DEFINE Step == /\ Len(frames') < Len(frames) => errno' = Diag!Last(frames).entry
                   /\ Len(frames') > Len(frames) => Diag!Last(frames').saved_errno = errno
<1>1. LogInv /\ [Diag!DiagNext]_(Diag!dvars) => [Step]_(Diag!vars)
  <2> SUFFICES ASSUME LogInv, [Diag!DiagNext]_(Diag!dvars) PROVE [Step]_(Diag!vars)
    OBVIOUS
  <2>0. Len(frames) \in Nat
    BY LenProperties DEF LogInv
  <2>1. CASE Diag!LogStep
    <3>1. \/ Len(frames') = Len(frames)
          \/ /\ Len(frames') = Len(frames) + 1
             /\ frames'[Len(frames')].saved_errno = errno
          \/ /\ Len(frames') = Len(frames) - 1
             /\ errno' = frames[Len(frames)].entry
      BY <2>1, LogMoves DEF Diag!LogStep
    <3> QED BY <2>0, <3>1 DEF Diag!Last
  <2>2. CASE Diag!XStep
    <3>1. frames' = frames
      BY <2>2 DEF Diag!XStep
    <3> QED BY <2>0, <3>1
  <2>3. CASE UNCHANGED Diag!dvars
    BY <2>3 DEF Diag!dvars
  <2> QED BY <2>1, <2>2, <2>3 DEF Diag!DiagNext
<1>2. ErrnoKept <=> [][Step]_(Diag!vars)
  BY DEF ErrnoKept, Diag!ErrnoKept
<1> QED BY <1>1, <1>2, LogInitially, LogKept, PTL DEF Diag!DiagSpec

-----------------------------------------------------------------------------
(* args.h: the options of a command line *)

LEMMA MinIs ==
    ASSUME NEW S, S \subseteq Int, NEW m \in S, \A n \in S : m =< n
    PROVE  Min(S) = m
<1>1. Min(S) \in S /\ \A n \in S : Min(S) =< n
  BY Zenon DEF Min
<1>2. PICK x \in Int : x = Min(S)
  BY <1>1
<1>3. x =< m /\ m =< x
  BY <1>1, <1>2
<1> QED BY <1>2, <1>3

LEMMA MaxIs ==
    ASSUME NEW S, S \subseteq Int, NEW m \in S, \A n \in S : n =< m
    PROVE  Max(S) = m
<1> DEFINE T(x) == \A y \in S : x >= y
<1>1. T(m)
  OBVIOUS
<1>2. Max(S) = CHOOSE x \in S : T(x)
  BY DEF Max
<1>3. Max(S) \in S /\ T(Max(S))
  <2> HIDE DEF T
  <2> QED BY <1>1, <1>2
<1>4. PICK x \in Int : x = Max(S)
  BY <1>3
<1>5. x >= m /\ m >= x
  BY <1>3, <1>4
<1> QED BY <1>4, <1>5

\* P is the set of the options among the first n places.
Places(argv, P, n) ==
    /\ P \in SUBSET (1 .. n)
    /\ \A k \in 1 .. n : k \in P <=> IsOption(argv[k]) /\ ~Taken(argv, P, k)

\* Every command line has the set that OptionPlaces is to choose.
LEMMA PlacesExist ==
    ASSUME NEW argv, NEW n \in Nat
    PROVE  \E P : Places(argv, P, n)
<1> DEFINE Bad == {m \in Nat : ~(\E P : Places(argv, P, m))}
<1>1. Bad = {}
  <2> SUFFICES ASSUME Bad # {} PROVE FALSE
    OBVIOUS
  <2>0. Bad \subseteq Nat
    OBVIOUS
  <2>1. PICK m \in Bad : \A l \in Bad : m =< l
    <3> HIDE DEF Bad
    <3> QED BY <2>0, Least
  <2>2. m \in Nat
    BY <2>0, <2>1
  <2>3. m # 0
    <3>1. Places(argv, {}, 0)
      BY DEF Places
    <3> QED BY <3>1
  <2>4. m - 1 \in Nat /\ m - 1 \notin Bad
    <3> HIDE DEF Bad
    <3> QED BY <2>1, <2>2, <2>3
  <2>5. PICK P : Places(argv, P, m - 1)
    BY <2>4
  <2> DEFINE Q == P \cup {k \in {m} : IsOption(argv[k]) /\ ~Taken(argv, P, k)}
  <2>6. P \subseteq 1 .. m - 1
    BY <2>5 DEF Places
  <2>7. Q \in SUBSET (1 .. m)
    <3>1. m \in 1 .. m /\ 1 .. m - 1 \subseteq 1 .. m
      BY <2>2, <2>3
    <3>2. Q \subseteq P \cup {m}
      OBVIOUS
    <3> HIDE DEF Q
    <3> QED BY <2>6, <3>1, <3>2
  <2>8. ASSUME NEW k \in 1 .. m
        PROVE  k \in Q <=> IsOption(argv[k]) /\ ~Taken(argv, Q, k)
    <3>1. k - 1 \in Q <=> k - 1 \in P
      <4>1. k - 1 # m
        BY <2>2
      <4> QED BY <4>1
    <3>4. Taken(argv, Q, k) <=> Taken(argv, P, k)
      <4> HIDE DEF Q
      <4> QED BY <3>1 DEF Taken
    <3>2. CASE k = m
      <4>1. m \notin P
        BY <2>2, <2>6
      <4> QED BY <3>2, <3>4, <4>1
    <3>3. CASE k # m
      <4>1. k \in 1 .. m - 1 /\ (k \in Q <=> k \in P)
        BY <2>2, <3>3
      <4> HIDE DEF Q
      <4> QED BY <2>5, <3>4, <4>1 DEF Places
    <3> QED BY <3>2, <3>3
  <2> HIDE DEF Q
  <2>9. Places(argv, Q, m)
    BY <2>7, <2>8 DEF Places
  <2> QED BY <2>1, <2>9
<1> QED BY <1>1

\* Place a is not taken by the option before it.
Free(argv, a) == a =< Len(argv) => ~Taken(argv, OptionPlaces(argv), a)

LEMMA ArgvFacts ==
    ASSUME NEW argv \in ArgVectors
    PROVE  /\ Len(argv) \in Nat /\ DOMAIN argv = 1 .. Len(argv)
           /\ \A k \in 1 .. Len(argv) : argv[k] \in Elements
           /\ OptionPlaces(argv) \subseteq 1 .. Len(argv)
           /\ \A k \in 1 .. Len(argv) :
                 k \in OptionPlaces(argv) <=> IsOption(argv[k]) /\ Free(argv, k)
<1>1. argv \in Seq(Elements)
  BY ArgvAssumption
<1>2. /\ Len(argv) \in Nat /\ DOMAIN argv = 1 .. Len(argv)
      /\ \A k \in 1 .. Len(argv) : argv[k] \in Elements
  BY <1>1, LenProperties, ElementOfSeq
<1> DEFINE Q(P) == \A k \in DOMAIN argv :
                      k \in P <=> IsOption(argv[k]) /\ ~Taken(argv, P, k)
<1>3. \E P \in SUBSET DOMAIN argv : Q(P)
  <2>1. PICK P : Places(argv, P, Len(argv))
    BY <1>2, PlacesExist
  <2> QED BY <1>2, <2>1 DEF Places
<1>4. OptionPlaces(argv) = CHOOSE P \in SUBSET DOMAIN argv : Q(P)
  BY DEF OptionPlaces
<1>5. OptionPlaces(argv) \in SUBSET DOMAIN argv /\ Q(OptionPlaces(argv))
  <2> HIDE DEF Q
  <2> QED BY <1>3, <1>4
<1>6. \A k \in 1 .. Len(argv) : k =< Len(argv)
  BY <1>2
<1> QED BY <1>2, <1>5, <1>6 DEF Free

\* An inner letter stands behind a letter that something is attached to.
LEMMA InnerFacts ==
    ASSUME NEW argv \in ArgVectors, NEW k \in 1 .. Len(argv)
    PROVE  /\ Inner(argv[k]) => k > 1 /\ IsLetter(argv[k - 1]) /\ argv[k - 1].arg # NULL
           /\ IsLetter(argv[k]) /\ argv[k].arg # NULL => k < Len(argv) /\ Inner(argv[k + 1])
           /\ argv[k].arg = NULL /\ k < Len(argv) => ~Inner(argv[k + 1])
<1>1. Len(argv) \in Nat
  BY ArgvFacts
<1>2. \A m \in 1 .. Len(argv) + 1 :
         m =< Len(argv) /\ Inner(argv[m]) <=>
            m > 1 /\ IsLetter(argv[m - 1]) /\ argv[m - 1].arg # NULL
  BY ArgvAssumption
<1>3. k \in 1 .. Len(argv) + 1 /\ k =< Len(argv)
  BY <1>1
<1>4. k + 1 \in 1 .. Len(argv) + 1 /\ k + 1 > 1 /\ k + 1 - 1 = k
      /\ (k + 1 =< Len(argv) <=> k < Len(argv))
  BY <1>1
<1>5. Inner(argv[k]) => k > 1 /\ IsLetter(argv[k - 1]) /\ argv[k - 1].arg # NULL
  BY <1>2, <1>3
<1>6. k < Len(argv) /\ Inner(argv[k + 1]) <=> IsLetter(argv[k]) /\ argv[k].arg # NULL
  BY <1>2, <1>4
<1> QED BY <1>5, <1>6

\* The place behind k is taken by it or not.
LEMMA NextTaken ==
    ASSUME NEW argv, NEW P, NEW k \in Nat
    PROVE  /\ Inner(argv[k + 1]) =>
                 (Taken(argv, P, k + 1) <=> ~(k \in P /\ Continues(argv, k)))
           /\ ~Inner(argv[k + 1]) =>
                 (Taken(argv, P, k + 1) <=> k \in P /\ TakesNext(argv, k))
<1>1. PICK n \in Nat : n = k + 1 /\ n - 1 = k
  OBVIOUS
<1>2. CASE Inner(argv[n])
  <2>1. Taken(argv, P, n) <=> ~(n - 1 \in P /\ Continues(argv, n - 1))
    BY <1>2 DEF Taken
  <2> QED BY <1>1, <1>2, <2>1
<1>3. CASE ~Inner(argv[n])
  <2>1. Taken(argv, P, n) <=> n - 1 \in P /\ TakesNext(argv, n - 1)
    BY <1>3 DEF Taken
  <2> QED BY <1>1, <1>3, <2>1
<1> QED BY <1>1, <1>2, <1>3

\* The option getopt_long finds from a free place on: what it passes over is
\* plain.
LEMMA NextOption ==
    ASSUME NEW argv \in ArgVectors, NEW a \in 1 .. Len(argv) + 1, Free(argv, a),
           Options(argv, a) # {}
    PROVE  \E k \in a .. Len(argv) :
              /\ k = Min(Options(argv, a))
              /\ k \in OptionPlaces(argv) /\ IsOption(argv[k]) /\ ~IsPlain(argv, k)
              /\ \A j \in a .. k - 1 : j \notin OptionPlaces(argv) /\ IsPlain(argv, j)
<1>0. /\ Len(argv) \in Nat /\ OptionPlaces(argv) \subseteq 1 .. Len(argv)
      /\ \A k \in 1 .. Len(argv) :
            k \in OptionPlaces(argv) <=> IsOption(argv[k]) /\ Free(argv, k)
  BY ArgvFacts
<1>1. Options(argv, a) \subseteq a .. Len(argv) /\ a .. Len(argv) \subseteq Nat
  BY <1>0 DEF Options
<1>2. PICK k \in Options(argv, a) : \A n \in Options(argv, a) : k =< n
  BY <1>1, Least
<1>3. k = Min(Options(argv, a)) /\ k \in a .. Len(argv) /\ IsOption(argv[k])
  <2>1. Options(argv, a) \subseteq Int
    BY <1>1
  <2> QED BY <1>1, <1>2, <2>1, MinIs DEF Options
<1>4. ASSUME NEW j \in a .. k - 1
      PROVE  ~IsOption(argv[j]) /\ j \notin OptionPlaces(argv) /\ j \in 1 .. Len(argv)
  <2>1. j \in a .. Len(argv) /\ ~(k =< j) /\ j \in 1 .. Len(argv)
    BY <1>0, <1>3
  <2>2. ~IsOption(argv[j])
    BY <1>2, <2>1 DEF Options
  <2> QED BY <1>0, <2>1, <2>2
<1>5. ASSUME NEW j \in a .. k PROVE Free(argv, j)
  <2>1. CASE j = a
    BY <2>1
  <2>2. CASE j # a
    <3>1. j - 1 \in a .. k - 1 /\ j \in 1 .. Len(argv)
      BY <1>0, <1>3, <2>2
    <3>2. ~IsLetter(argv[j - 1]) /\ j - 1 \notin OptionPlaces(argv)
      BY <1>4, <3>1 DEF IsOption
    <3>3. ~Inner(argv[j])
      BY <3>1, <3>2, InnerFacts
    <3> QED BY <3>2, <3>3 DEF Free, Taken
  <2> QED BY <2>1, <2>2
<1>6. ASSUME NEW j \in a .. k - 1 PROVE IsPlain(argv, j)
  <2>1. j \in a .. k /\ j =< Len(argv)
    BY <1>0, <1>3
  <2> QED BY <1>4, <1>5, <2>1 DEF IsPlain, Free
<1>7. k \in OptionPlaces(argv)
  <2>1. k \in a .. k /\ k \in 1 .. Len(argv)
    BY <1>0, <1>3
  <2> QED BY <1>0, <1>3, <1>5, <2>1
<1> QED BY <1>3, <1>4, <1>6, <1>7 DEF IsPlain

\* Behind an option that is not refused, getopt_long goes on at a free place.
\* What it skips belongs to that option.
LEMMA OptionEnds ==
    ASSUME NEW argv \in ArgVectors, NEW k \in OptionPlaces(argv), ~Refused(argv, k),
           NEW b, b = After(argv, k)
    PROVE  /\ b \in 1 .. Len(argv) + 1 /\ k < b /\ Free(argv, b)
           /\ \A j \in k + 1 .. b - 1 : j \notin OptionPlaces(argv) /\ ~IsPlain(argv, j)
<1> DEFINE P == OptionPlaces(argv)
<1>0. /\ Len(argv) \in Nat /\ P \subseteq 1 .. Len(argv)
      /\ \A n \in 1 .. Len(argv) : n \in P <=> IsOption(argv[n]) /\ Free(argv, n)
      /\ \A n \in 1 .. Len(argv) : argv[n] \in Elements
  BY ArgvFacts
<1>1. k \in 1 .. Len(argv) /\ k \in Nat /\ IsOption(argv[k]) /\ Known(argv[k])
  BY <1>0 DEF Refused
<1>2. CASE Continues(argv, k)
  <2>1. b = k + 1 /\ IsLetter(argv[k]) /\ argv[k].arg # NULL
    BY <1>2 DEF After, Continues
  <2>2. k < Len(argv) /\ Inner(argv[k + 1])
    BY <1>1, <2>1, InnerFacts
  <2>3. ~Taken(argv, P, k + 1)
    BY <1>1, <1>2, <2>2, NextTaken
  <2>4. Free(argv, b)
    BY <2>1, <2>3 DEF Free
  <2>5. b \in 1 .. Len(argv) + 1 /\ k < b /\ k + 1 .. b - 1 = {}
    BY <1>0, <1>1, <2>1, <2>2
  <2> QED BY <2>4, <2>5
<1>3. CASE ~Continues(argv, k)
  <2>1. PICK m \in Nat : m = IF TakesNext(argv, k) THEN k + 1 ELSE k
    BY <1>1
  <2> DEFINE S == {n \in m + 1 .. Len(argv) + 1 : n =< Len(argv) => ~Inner(argv[n])}
  <2>2. b = Min(S)
    BY <1>3, <2>1 DEF After, Behind
  <2>3. m =< Len(argv) /\ k =< m
    <3>1. TakesNext(argv, k) => k # Len(argv)
      BY <1>1 DEF Refused
    <3> QED BY <1>0, <1>1, <2>1, <3>1
  <2>4. S \subseteq Nat /\ Len(argv) + 1 \in S
    BY <1>0, <2>1, <2>3
  <2>5. PICK l \in S : \A n \in S : l =< n
    <3> HIDE DEF S
    <3> QED BY <2>4, Least
  <2>6. b = l
    <3>1. S \subseteq Int
      BY <2>4
    <3> HIDE DEF S
    <3> QED BY <2>2, <2>5, <3>1, MinIs
  <2>7. /\ b \in m + 1 .. Len(argv) + 1 /\ b \in Nat
        /\ b =< Len(argv) => ~Inner(argv[b])
    BY <1>0, <2>1, <2>5, <2>6
  <2>8. ASSUME NEW n \in m + 1 .. b - 1 PROVE Inner(argv[n])
    <3>1. n \in m + 1 .. Len(argv) + 1 /\ n < l
      BY <1>0, <2>1, <2>6, <2>7
    <3>2. n \notin S
      BY <1>0, <2>1, <2>5, <2>7, <3>1
    <3> QED BY <3>1, <3>2
  <2> HIDE DEF S
  <2>9. b \in 1 .. Len(argv) + 1 /\ k < b
    BY <1>0, <1>1, <2>1, <2>3, <2>7
  <2>10. TakesNext(argv, k) =>
            k + 1 \in 1 .. Len(argv) /\ Taken(argv, P, k + 1)
    <3> SUFFICES ASSUME TakesNext(argv, k)
                 PROVE  k + 1 \in 1 .. Len(argv) /\ Taken(argv, P, k + 1)
      OBVIOUS
    <3>1. k + 1 \in 1 .. Len(argv) /\ k < Len(argv)
      BY <1>0, <1>1, <2>1, <2>3
    <3>2. argv[k].arg = NULL
      BY DEF TakesNext
    <3>3. ~Inner(argv[k + 1])
      BY <1>1, <3>1, <3>2, InnerFacts
    <3> QED BY <1>1, <3>1, <3>3, NextTaken
  <2>11. ASSUME NEW j \in k + 1 .. b - 1
         PROVE  /\ j \in Nat /\ j \in 1 .. Len(argv)
                /\ \/ Inner(argv[j]) /\ (j = k + 1 => ~TakesNext(argv, k))
                   \/ Taken(argv, P, j)
    <3>1. j \in Nat /\ j \in 1 .. Len(argv)
      BY <1>0, <1>1, <2>7
    <3>2. CASE j = k + 1 /\ TakesNext(argv, k)
      BY <2>10, <3>1, <3>2
    <3>3. CASE ~(j = k + 1 /\ TakesNext(argv, k))
      <4>1. j \in m + 1 .. b - 1
        BY <1>1, <2>1, <2>7, <3>3
      <4> QED BY <2>8, <3>1, <3>3, <4>1
    <3> QED BY <3>2, <3>3
  <2>12. \A j \in k + 1 .. b - 1 : j \notin P
    <3> DEFINE Bad == {n \in k + 1 .. b - 1 : n \in P}
    <3> SUFFICES ASSUME Bad # {} PROVE FALSE
      OBVIOUS
    <3>1. Bad \subseteq Nat
      BY <1>0
    <3>2. PICK n \in Bad : \A o \in Bad : n =< o
      <4> HIDE DEF Bad
      <4> QED BY <3>1, Least
    <3>3. n \in k + 1 .. b - 1 /\ n \in P /\ n \in 1 .. Len(argv) /\ n =< Len(argv)
      BY <1>0, <2>11
    <3>4. ~Taken(argv, P, n)
      BY <1>0, <3>3 DEF Free
    <3>5. Inner(argv[n])
      BY <2>11, <3>3, <3>4
    <3>6. n - 1 \in P /\ Continues(argv, n - 1)
      BY <3>4, <3>5 DEF Taken
    <3>7. n - 1 # k
      BY <1>3, <3>6
    <3>8. n - 1 \in k + 1 .. b - 1
      BY <1>1, <2>7, <3>3, <3>7
    <3>9. n - 1 \in Bad
      BY <3>6, <3>8
    <3> HIDE DEF Bad
    <3>10. n =< n - 1
      BY <3>2, <3>9
    <3>11. n \in Nat
      BY <3>1
    <3> QED BY <3>10, <3>11
  <2>13. ASSUME NEW j \in k + 1 .. b - 1 PROVE ~IsPlain(argv, j)
    BY <2>11 DEF IsPlain, Inner, IsOption
  <2>14. Free(argv, b)
    <3> SUFFICES ASSUME b =< Len(argv) PROVE ~(b - 1 \in P /\ TakesNext(argv, b - 1))
      BY <2>7 DEF Free, Taken
    <3>1. CASE b - 1 = k
      <4>1. m # k + 1
        BY <1>1, <2>1, <2>7, <3>1
      <4> QED BY <2>1, <3>1, <4>1
    <3>2. CASE b - 1 # k
      <4>1. b - 1 \in k + 1 .. b - 1
        BY <1>1, <2>7, <2>9, <3>2
      <4> QED BY <2>12, <4>1
    <3> QED BY <3>1, <3>2
  <2> QED BY <2>9, <2>12, <2>13, <2>14
<1> QED BY <1>2, <1>3

\* Without an option from a free place on, all places there are plain.
LEMMA NoOption ==
    ASSUME NEW argv \in ArgVectors, NEW a \in 1 .. Len(argv) + 1, Free(argv, a),
           Options(argv, a) = {}
    PROVE  \A j \in a .. Len(argv) : j \notin OptionPlaces(argv) /\ IsPlain(argv, j)
<1>0. /\ Len(argv) \in Nat
      /\ \A k \in 1 .. Len(argv) :
            k \in OptionPlaces(argv) <=> IsOption(argv[k]) /\ Free(argv, k)
  BY ArgvFacts
<1>1. ASSUME NEW j \in a .. Len(argv)
      PROVE  ~IsOption(argv[j]) /\ j \notin OptionPlaces(argv)
  <2>1. j \in 1 .. Len(argv) /\ ~IsOption(argv[j])
    BY <1>0 DEF Options
  <2> QED BY <1>0, <2>1
<1>2. ASSUME NEW j \in a .. Len(argv) PROVE IsPlain(argv, j)
  <2>1. CASE j = a
    <3>1. j =< Len(argv)
      BY <1>0
    <3> QED BY <1>1, <2>1, <3>1 DEF IsPlain, Free
  <2>2. CASE j # a
    <3>1. j - 1 \in a .. Len(argv)
      BY <1>0, <2>2
    <3>2. j - 1 \notin OptionPlaces(argv) /\ ~Inner(argv[j])
      BY <1>1, <3>1 DEF Inner, IsOption
    <3> QED BY <1>1, <3>2 DEF IsPlain, Taken
  <2> QED BY <2>1, <2>2
<1> QED BY <1>1, <1>2

-----------------------------------------------------------------------------
(* args.h: the argument of an option *)

\* An option that getopt_long returns counts for the entry that the lookup
\* finds, and its argument is well-formed unless it is a bad integer.
LEMMA OptionMeans ==
    ASSUME NEW argv \in ArgVectors, NEW k \in 1 .. Len(argv), IsOption(argv[k]),
           ~Refused(argv, k), NEW i, i = Counted(argv[k]), NEW s, s = OptArg(argv, k)
    PROVE  /\ i \in Entries /\ _args_lookup_opt_by_short_opt(Opt(argv[k]).short) = i
           /\ s \in Strings \cup {NULL}
           /\ BadInt(i, s) <=> ~WellFormed(argv, k)
           /\ TakesInt(i) /\ s # NULL /\ ~BadInt(i, s) =>
                 _args_get_int(s) = s.num /\ s.num \in Int
<1>0. Len(argv) \in Nat /\ \A m \in 1 .. Len(argv) : argv[m] \in Elements
  BY ArgvFacts
<1>1. Known(argv[k])
  BY DEF Refused
<1>2. Entries \subseteq Nat
  BY TableAssumption, LenProperties DEF Entries
<1>3. i \in Entries /\ _args_lookup_opt_by_short_opt(Opt(argv[k]).short) = i
  <2> DEFINE C == Candidates(argv[k])
             S == {j \in Entries : Table[j].short = Opt(argv[k]).short}
  <2>1. C \subseteq Entries /\ C # {}
    BY <1>1 DEF Candidates, Named, Longs, Shorts, Known
  <2>2. PICK f : f = Min(C) /\ f \in Entries
    <3> HIDE DEF C
    <3>1. PICK m \in C : \A n \in C : m =< n
      BY <1>2, <2>1, Least
    <3>2. C \subseteq Int
      BY <1>2, <2>1
    <3> QED BY <2>1, <3>1, <3>2, MinIs
  <2>3. f \in S
    BY <2>2 DEF Opt
  <2>4. S \subseteq Entries
    OBVIOUS
  <2>5. PICK g \in S : g = Min(S)
    <3> HIDE DEF S
    <3>1. PICK m \in S : \A n \in S : m =< n
      BY <1>2, <2>3, <2>4, Least
    <3>2. S \subseteq Int
      BY <1>2, <2>4
    <3> QED BY <3>1, <3>2, MinIs
  <2> QED BY <2>5 DEF _args_lookup_opt_by_short_opt, Counted
<1>4. TakesNext(argv, k) => k < Len(argv)
  <2>1. TakesNext(argv, k) => k # Len(argv)
    BY <1>1 DEF Refused
  <2> QED BY <1>0, <2>1
<1>5. argv[k] \in Elements /\ argv[k].arg \in Strings \cup {NULL}
  BY <1>0 DEF Elements, IsOption, IsLong, IsLetter
<1>6. s \in Strings \cup {NULL}
  <2>1. CASE TakesNext(argv, k)
    <3>1. k + 1 \in 1 .. Len(argv)
      BY <1>0, <1>4, <2>1
    <3>2. argv[k + 1] \in Elements
      BY <1>0, <3>1
    <3>3. argv[k + 1].text \in Strings
      BY <3>2 DEF Elements
    <3> QED BY <2>1, <3>3 DEF OptArg
  <2>2. CASE ~TakesNext(argv, k)
    BY <1>5, <2>2 DEF OptArg
  <2> QED BY <2>1, <2>2
<1>7. ASSUME s # NULL
      PROVE  /\ _args_get_int(s) = NULL <=> ~IsInt(s)
             /\ IsInt(s) => _args_get_int(s) = s.num /\ s.num \in Int
  <2>1. CASE s = Empty
    BY <2>1 DEF _args_get_int, IsInt
  <2>2. CASE s # Empty
    <3>1. s.num \in Int /\ s.rest \in BOOLEAN
      BY <1>6, <1>7, <2>2 DEF Strings
    <3>2. IntMin \in Int /\ IntMax \in Int /\ s.num # NULL
      BY <3>1, ArgvAssumption
    <3>3. IsInt(s) <=> ~(s.num < IntMin \/ s.num > IntMax \/ s.rest)
      <4>1. PICK n \in Int : n = s.num
        BY <3>1
      <4>2. n \in IntMin .. IntMax <=> ~(n < IntMin \/ n > IntMax)
        BY <3>2, <4>1
      <4> QED BY <2>2, <3>1, <4>1, <4>2 DEF IsInt
    <3>4. _args_get_int(s) = IF IsInt(s) THEN s.num ELSE NULL
      BY <2>2, <3>3 DEF _args_get_int
    <3> QED BY <3>1, <3>2, <3>4
  <2> QED BY <2>1, <2>2
<1>8. BadInt(i, s) <=> ~WellFormed(argv, k)
  BY <1>7 DEF BadInt, WellFormed, TakesInt
<1>9. TakesInt(i) /\ s # NULL /\ ~BadInt(i, s) =>
          _args_get_int(s) = s.num /\ s.num \in Int
  BY <1>7 DEF BadInt, TakesInt
<1> QED BY <1>3, <1>6, <1>8, <1>9

-----------------------------------------------------------------------------
(* args.h: what the options before a place say of the entries *)

EntryData ==
    [found : BOOLEAN, opt_arg_found : BOOLEAN, val : Strings \cup Int \cup {NULL}]

\* The options before place a that count for the entry i, those with an argument
\* that it takes among them, and what they make of its fields.
Uses(argv, i, a) == {k \in OptionPlaces(argv) : k < a /\ Counted(argv[k]) = i}
Gives(i, s) == Table[i].has_arg # "NO" /\ s # NULL
Given(argv, i, a) == {k \in Uses(argv, i, a) : Gives(i, OptArg(argv, k))}

Says(argv, old, new, i, a) ==
    /\ new.found = (old.found \/ Uses(argv, i, a) # {})
    /\ new.opt_arg_found =
         IF TakesInt(i) /\ Uses(argv, i, a) # {}
         THEN Max(Uses(argv, i, a)) \in Given(argv, i, a)
         ELSE old.opt_arg_found
    /\ new.val =
         IF Given(argv, i, a) = {} THEN old.val
         ELSE LET s == OptArg(argv, Max(Given(argv, i, a)))
              IN  IF TakesInt(i) THEN s.num ELSE s

\* Between a and b no option counts for the entry i.
Unused(argv, i, a, b) == Uses(argv, i, b) = Uses(argv, i, a)

\* The next option k is added to those of its entry, before place b.
LEMMA UsesGrow ==
    ASSUME NEW argv \in ArgVectors, NEW a \in Nat, NEW k \in OptionPlaces(argv), a =< k,
           \A j \in a .. k - 1 : j \notin OptionPlaces(argv),
           NEW b \in Nat, k < b, \A j \in k + 1 .. b - 1 : j \notin OptionPlaces(argv)
    PROVE  /\ \A i : i # Counted(argv[k]) => Unused(argv, i, a, b)
           /\ Uses(argv, Counted(argv[k]), b) = Uses(argv, Counted(argv[k]), a) \cup {k}
           /\ \A i : Uses(argv, i, a) \subseteq Int /\ \A n \in Uses(argv, i, a) : n =< k
<1>1. OptionPlaces(argv) \subseteq Nat
  BY ArgvFacts
<1>2. ASSUME NEW n \in OptionPlaces(argv)
      PROVE  /\ n < b <=> n < a \/ n = k
             /\ n < a => n =< k /\ n # k
  <2>1. n \in Nat /\ k \in Nat
    BY <1>1
  <2>2. CASE n < a
    BY <2>1, <2>2
  <2>3. CASE n = k
    BY <2>1, <2>3
  <2>4. CASE ~(n < a) /\ n # k
    <3>1. n \notin a .. k - 1 /\ n \notin k + 1 .. b - 1
      OBVIOUS
    <3> QED BY <2>1, <2>4, <3>1
  <2> QED BY <2>2, <2>3, <2>4
<1> QED BY <1>1, <1>2 DEF Uses, Unused

LEMMA ParsedSays ==
    ASSUME NEW argv \in ArgVectors, NEW a \in Nat, NEW k \in OptionPlaces(argv), a =< k,
           \A j \in a .. k - 1 : j \notin OptionPlaces(argv),
           NEW b \in Nat, k < b, \A j \in k + 1 .. b - 1 : j \notin OptionPlaces(argv),
           ~Refused(argv, k), NEW i, i = Counted(argv[k]), NEW s, s = OptArg(argv, k),
           ~BadInt(i, s), data \in [Entries -> EntryData],
           NEW old \in EntryData, Says(argv, old, data[i], i, a)
    PROVE  Parsed(i, s) \in EntryData /\ Says(argv, old, Parsed(i, s), i, b)
<1>1. k \in 1 .. Len(argv) /\ IsOption(argv[k])
  BY ArgvFacts
<1>2. /\ i \in Entries /\ s \in Strings \cup {NULL}
      /\ TakesInt(i) /\ s # NULL => _args_get_int(s) = s.num /\ s.num \in Int
  BY <1>1, OptionMeans
<1>3. /\ Table[i].has_arg \in {"NO", "REQUIRED", "OPTIONAL"}
      /\ Table[i].arg_type \in {"INT", "STR"}
  <2>1. PICK t \in [long : Names \cup {NULL}, short : Nat,
                    has_arg : {"NO", "REQUIRED", "OPTIONAL"},
                    arg_type : {"INT", "STR"}] : t = Table[i]
    <3>1. /\ Table \in Seq([long : Names \cup {NULL}, short : Nat,
                            has_arg : {"NO", "REQUIRED", "OPTIONAL"},
                            arg_type : {"INT", "STR"}])
          /\ i \in 1 .. Len(Table)
      BY <1>2, TableAssumption, LenProperties DEF Entries
    <3> QED BY <3>1, ElementOfSeq
  <2> QED BY <2>1
<1>4. PICK d \in EntryData : d = data[i]
  BY <1>2
<1>5. /\ Parsed(i, s).found = TRUE
      /\ Parsed(i, s).opt_arg_found = IF TakesInt(i) THEN s # NULL ELSE d.opt_arg_found
      /\ Parsed(i, s).val = IF ~Gives(i, s) THEN d.val ELSE IF TakesInt(i) THEN s.num ELSE s
      /\ Parsed(i, s) \in EntryData
  <2> DEFINE e == [d EXCEPT !.found = TRUE]
  <2>1. /\ e \in EntryData /\ e.found = TRUE /\ e.val = d.val
        /\ e.opt_arg_found = d.opt_arg_found
    BY DEF EntryData
  <2>2. Parsed(i, s) = IF Table[i].has_arg = "NO" THEN e
                       ELSE IF Table[i].arg_type = "INT" THEN IntParsed(e, s)
                       ELSE StrParsed(e, s)
    BY <1>4 DEF Parsed
  <2> HIDE DEF e
  <2>3. CASE ~TakesInt(i)
    <3>1. Parsed(i, s) = IF ~Gives(i, s) THEN e ELSE [e EXCEPT !.val = s]
      <4>1. CASE Table[i].has_arg = "NO"
        BY <2>2, <4>1 DEF Gives
      <4>2. CASE Table[i].has_arg # "NO"
        <5>1. Table[i].arg_type # "INT"
          BY <2>3, <4>2 DEF TakesInt
        <5> QED BY <2>2, <4>2, <5>1 DEF StrParsed, Gives
      <4> QED BY <4>1, <4>2
    <3> QED BY <1>2, <2>1, <2>3, <3>1 DEF EntryData, Gives
  <2>4. CASE TakesInt(i)
    <3>0. Gives(i, s) <=> s # NULL
      BY <2>4 DEF Gives, TakesInt
    <3>1. Parsed(i, s) = IntParsed(e, s)
      BY <1>3, <2>2, <2>4 DEF TakesInt
    <3>2. CASE s = NULL
      BY <2>1, <2>4, <3>0, <3>1, <3>2 DEF IntParsed, EntryData
    <3>3. CASE s # NULL
      <4>1. Parsed(i, s) = [e EXCEPT !.val = s.num, !.opt_arg_found = TRUE]
        BY <1>2, <2>4, <3>1, <3>3 DEF IntParsed
      <4> QED BY <1>2, <2>1, <2>4, <3>0, <3>3, <4>1 DEF EntryData
    <3> QED BY <3>2, <3>3
  <2> QED BY <2>3, <2>4
<1>6. PICK U, V : U = Uses(argv, i, a) /\ V = Given(argv, i, a)
  OBVIOUS
<1>7. /\ Uses(argv, i, b) = U \cup {k} /\ U \subseteq Int
      /\ \A n \in U : n =< k
  <2>1. /\ Uses(argv, Counted(argv[k]), b) = Uses(argv, Counted(argv[k]), a) \cup {k}
        /\ Uses(argv, Counted(argv[k]), a) \subseteq Int
        /\ \A n \in Uses(argv, Counted(argv[k]), a) : n =< k
    BY UsesGrow
  <2> QED BY <1>6, <2>1
<1>8. V = {n \in U : Gives(i, OptArg(argv, n))}
  BY <1>6 DEF Given
<1>9. Given(argv, i, b) = IF ~Gives(i, s) THEN V ELSE V \cup {k}
  BY <1>7, <1>8 DEF Given
<1>10. k \in Int
  BY <1>1, ArgvFacts
<1>11. Max(U \cup {k}) = k
  <2>1. U \cup {k} \subseteq Int /\ k \in U \cup {k} /\ \A n \in U \cup {k} : n =< k
    BY <1>7, <1>10
  <2> QED BY <2>1, MaxIs
<1>12. Max(V \cup {k}) = k
  <2>1. V \cup {k} \subseteq Int /\ k \in V \cup {k} /\ \A n \in V \cup {k} : n =< k
    <3>1. V \subseteq U
      BY <1>8
    <3> QED BY <1>7, <1>10, <3>1
  <2> QED BY <2>1, MaxIs
<1>13. /\ d.found = (old.found \/ U # {})
       /\ d.val = IF V = {} THEN old.val
                  ELSE LET t == OptArg(argv, Max(V)) IN IF TakesInt(i) THEN t.num ELSE t
       /\ ~TakesInt(i) => d.opt_arg_found = old.opt_arg_found
  BY <1>4, <1>6 DEF Says
<1>14. k \in Given(argv, i, b) <=> Gives(i, s)
  BY <1>7, <1>9 DEF Given
<1>15. Parsed(i, s).opt_arg_found =
         IF TakesInt(i) /\ Uses(argv, i, b) # {}
         THEN Max(Uses(argv, i, b)) \in Given(argv, i, b) ELSE old.opt_arg_found
  <2>1. CASE TakesInt(i)
    <3>1. Max(Uses(argv, i, b)) = k /\ Uses(argv, i, b) # {}
      BY <1>7, <1>11
    <3>2. Parsed(i, s).opt_arg_found = (s # NULL)
      BY <1>5, <2>1
    <3>3. (k \in Given(argv, i, b)) = (s # NULL)
      BY <1>14, <2>1 DEF Gives, TakesInt
    <3> QED BY <2>1, <3>1, <3>2, <3>3, Zenon
  <2>2. CASE ~TakesInt(i)
    BY <1>5, <1>13, <2>2
  <2> QED BY <2>1, <2>2
<1>16. Parsed(i, s).val =
         IF Given(argv, i, b) = {} THEN old.val
         ELSE LET t == OptArg(argv, Max(Given(argv, i, b)))
              IN  IF TakesInt(i) THEN t.num ELSE t
  <2>1. CASE ~Gives(i, s)
    BY <1>5, <1>9, <1>13, <2>1
  <2>2. CASE Gives(i, s)
    <3>1. Given(argv, i, b) # {} /\ Max(Given(argv, i, b)) = k
      BY <1>9, <1>12, <2>2
    <3> QED BY <1>5, <2>2, <3>1
  <2> QED BY <2>1, <2>2
<1>17. Parsed(i, s).found = (old.found \/ Uses(argv, i, b) # {})
  BY <1>5, <1>7
<1> QED BY <1>5, <1>15, <1>16, <1>17 DEF Says

-----------------------------------------------------------------------------
(* args.h: a parse *)

\* A parse that is under way: what it has read so far was well-formed, and the
\* table says what it says.
Reading(c) ==
    /\ c \in [argv : ArgVectors, flags : Flags, saved : BOOLEAN, at : Nat, plain : Nat,
              told : {FALSE}, before : [Entries -> EntryData]]
    /\ c.at \in 1 .. Len(c.argv) + 1 /\ Free(c.argv, c.at)
    /\ \A k \in OptionPlaces(c.argv) : k < c.at => WellFormed(c.argv, k)
    /\ c.plain > 0 <=> \E k \in 1 .. Len(c.argv) : k < c.at /\ IsPlain(c.argv, k)

ParseInv ==
    /\ data \in [Entries -> EntryData] /\ opterr \in BOOLEAN
    /\ call # NULL =>
          /\ last = NULL
          /\ Reading(call)
          /\ opterr = (call.saved /\ ~call.flags.silent)
          /\ \A i \in Entries : Says(call.argv, call.before[i], data[i], i, call.at)
    /\ ErrorsAsAsked
    /\ SignedChar => ResultExact
    /\ ValuesExact

LEMMA ParseInitially == Init => ParseInv
<1> SUFFICES ASSUME Init PROVE ParseInv
  OBVIOUS
<1>1. NotFound \in EntryData
  BY DEF NotFound, EntryData
<1>2. data \in [Entries -> EntryData]
  BY <1>1 DEF Init
<1> QED BY <1>2 DEF Init, ParseInv, ErrorsAsAsked, ResultExact, ValuesExact

\* The beginning: nothing is read.
LEMMA StartKept ==
    ASSUME ParseInv, Start
    PROVE  ParseInv'
<1>1. PICK argv \in ArgVectors, flags \in Flags :
        call' = [argv |-> argv, flags |-> flags, saved |-> opterr,
                 at |-> 1, plain |-> 0, told |-> FALSE, before |-> data]
  BY DEF Start
<1>2. /\ opterr' = (opterr /\ ~call'.flags.silent) /\ last' = NULL /\ data' = data
      /\ data \in [Entries -> EntryData] /\ opterr \in BOOLEAN
  BY DEF Start, ParseInv
<1>3. PICK c : c = [argv |-> argv, flags |-> flags, saved |-> opterr,
                    at |-> 1, plain |-> 0, told |-> FALSE, before |-> data]
  OBVIOUS
<1>4. /\ OptionPlaces(argv) \subseteq 1 .. Len(argv) /\ Len(argv) \in Nat
  BY ArgvFacts
<1>5. Reading(c)
  <2>1. c \in [argv : ArgVectors, flags : Flags, saved : BOOLEAN, at : Nat, plain : Nat,
               told : {FALSE}, before : [Entries -> EntryData]]
    BY <1>2, <1>3
  <2>2. c.argv = argv /\ c.at = 1 /\ c.plain = 0
    BY <1>3
  <2>3. Free(argv, 1)
    <3>1. 1 =< Len(argv) => ~Inner(argv[1])
      BY <1>4, InnerFacts
    <3>2. 1 - 1 \notin OptionPlaces(argv)
      BY <1>4
    <3> QED BY <3>1, <3>2 DEF Free, Taken
  <2>4. \A k \in 1 .. Len(argv) : ~(k < 1)
    BY <1>4
  <2>5. c.plain > 0 <=> \E k \in 1 .. Len(argv) : k < 1 /\ IsPlain(argv, k)
    BY <2>2, <2>4
  <2>6. 1 \in 1 .. Len(argv) + 1 /\ \A k \in OptionPlaces(argv) : ~(k < 1)
    BY <1>4
  <2> HIDE <1>3
  <2> QED BY <2>1, <2>2, <2>3, <2>5, <2>6 DEF Reading
<1>6. ASSUME NEW i \in Entries PROVE Says(argv, data[i], data[i], i, 1)
  <2>1. Uses(argv, i, 1) = {} /\ Given(argv, i, 1) = {}
    BY <1>4 DEF Uses, Given
  <2>2. data[i].found \in BOOLEAN
    BY <1>2 DEF EntryData
  <2> QED BY <2>1, <2>2 DEF Says
<1>7. call' = c /\ c.argv = argv /\ c.flags = flags /\ c.saved = opterr /\ c.at = 1 /\ c.before = data
  BY <1>1, <1>3
<1>8. opterr' \in BOOLEAN /\ opterr' = (c.saved /\ ~c.flags.silent)
  BY <1>2, <1>7
<1>9. Reading(call)'
  <2>1. Reading(call') 
    BY <1>5, <1>7
  <2> QED BY <2>1 DEF Reading
<1>10. \A i \in Entries : Says(call.argv, call.before[i], data[i], i, call.at)'
  <2>1. \A i \in Entries : Says(call'.argv, call'.before[i], data'[i], i, call'.at)
    BY <1>2, <1>6, <1>7
  <2> QED BY <2>1 
<1> QED BY <1>2, <1>7, <1>8, <1>9, <1>10 DEF ParseInv, ErrorsAsAsked, ResultExact, ValuesExact

\* The end: opterr is restored, and the result is what the whole says.
LEMMA LeaveKept ==
    ASSUME ParseInv, call # NULL, NEW rv \in {0, -1}, NEW told, Leave(rv, told),
           data' \in [Entries -> EntryData],
           told = (rv = -1 /\ call.saved /\ ~call.flags.silent),
           SignedChar => (rv = 0 <=> Acceptable(call.argv, call.flags)),
           rv = 0 => \A i \in Entries :
              Says(call.argv, call.before[i], data'[i], i, Len(call.argv) + 1)
    PROVE  ParseInv'
<1>1. PICK c : c = call
  OBVIOUS
<1>2. /\ last' = [argv |-> c.argv, flags |-> c.flags, rv |-> rv,
                  told |-> told, before |-> c.before, saved |-> c.saved]
      /\ opterr' = c.saved /\ call' = NULL
  BY <1>1 DEF Leave
<1>3. c.argv \in ArgVectors /\ c.saved \in BOOLEAN
  BY <1>1 DEF ParseInv, Reading
<1>4. /\ last'.argv = c.argv /\ last'.flags = c.flags /\ last'.rv = rv /\ last'.told = told
      /\ last'.before = c.before /\ last'.saved = c.saved
  BY <1>2
<1>5. ErrorsAsAsked'
  BY <1>1, <1>2, <1>4 DEF ErrorsAsAsked
<1>6. SignedChar => ResultExact'
  <2>1. SignedChar => (rv = 0 <=> Acceptable(c.argv, c.flags))
    BY <1>1
  <2>2. SignedChar => (last'.rv = 0 <=> Acceptable(last'.argv, last'.flags))
    BY <1>4, <2>1
  <2> QED BY <2>2 DEF ResultExact
<1>7. ValuesExact'
  <2>1. CASE rv = 0
    <3>1. ASSUME NEW i \in Entries PROVE Means(c.argv, i, c.before[i], data'[i])
      <4>1. Says(c.argv, c.before[i], data'[i], i, Len(c.argv) + 1)
        BY <1>1, <2>1
      <4>2. Len(c.argv) \in Nat /\ OptionPlaces(c.argv) \subseteq 1 .. Len(c.argv)
        BY <1>3, ArgvFacts
      <4>3. Uses(c.argv, i, Len(c.argv) + 1) = {k \in OptionPlaces(c.argv) : Counted(c.argv[k]) = i}
        <5>1. \A k \in 1 .. Len(c.argv) : k < Len(c.argv) + 1
          BY <4>2
        <5> QED BY <4>2, <5>1 DEF Uses
      <4>4. PICK U : U = Uses(c.argv, i, Len(c.argv) + 1)
        OBVIOUS
      <4>5. Given(c.argv, i, Len(c.argv) + 1) =
                   {k \in U : Table[i].has_arg # "NO" /\ OptArg(c.argv, k) # NULL}
        BY <4>4 DEF Given, Gives
      <4> QED BY <4>1, <4>3, <4>4, <4>5 DEF Says, Means
    <3>2. \A i \in Entries : Means(last'.argv, i, last'.before[i], data'[i])
      BY <1>4, <3>1
    <3> QED BY <3>2 DEF ValuesExact
  <2>2. CASE rv # 0
    BY <1>4, <2>2 DEF ValuesExact
  <2> QED BY <2>1, <2>2
<1> QED BY <1>2, <1>3, <1>5, <1>6, <1>7 DEF ParseInv

\* A failure: an option that is not well-formed makes the whole unacceptable.
LEMMA FailKept ==
    ASSUME ParseInv, call # NULL, Fail, data' \in [Entries -> EntryData],
           SignedChar => ~Acceptable(call.argv, call.flags)
    PROVE  ParseInv'
<1>1. PICK t : t = (call.told \/ opterr)
  OBVIOUS
<1>2. Leave(-1, t)
  BY <1>1 DEF Fail
<1>3. call.told = FALSE /\ opterr = (call.saved /\ ~call.flags.silent)
  BY DEF ParseInv, Reading
<1>4. t = (-1 = -1 /\ call.saved /\ ~call.flags.silent)
  BY <1>1, <1>3
<1>5. -1 \in {0, -1} /\ -1 # 0
  OBVIOUS
<1>6. SignedChar => (-1 = 0 <=> Acceptable(call.argv, call.flags))
  BY <1>5
<1> QED BY <1>2, <1>4, <1>5, <1>6, LeaveKept

LEMMA RefusedKept ==
    ASSUME ParseInv, OptionRefused
    PROVE  ParseInv'
<1>1. /\ call # NULL /\ Options(call.argv, call.at) # {}
      /\ Refused(call.argv, Min(Options(call.argv, call.at))) /\ Fail /\ data' = data
  BY DEF OptionRefused, More
<1>2. call.argv \in ArgVectors /\ call.at \in 1 .. Len(call.argv) + 1 /\ Free(call.argv, call.at)
  BY <1>1 DEF ParseInv, Reading
<1>3. PICK k : k = Min(Options(call.argv, call.at)) /\ k \in OptionPlaces(call.argv)
  BY <1>1, <1>2, NextOption
<1>4. ~WellFormed(call.argv, k)
  BY <1>1, <1>3 DEF WellFormed
<1>5. ~Acceptable(call.argv, call.flags)
  BY <1>3, <1>4 DEF Acceptable
<1>6. data' \in [Entries -> EntryData]
  BY <1>1 DEF ParseInv
<1> QED BY <1>1, <1>5, <1>6, FailKept

LEMMA ReadKept ==
    ASSUME ParseInv, OptionRead
    PROVE  ParseInv'
<1>1. call # NULL /\ Options(call.argv, call.at) # {}
  BY DEF OptionRead, More
<1>2. PICK c : c = call
  OBVIOUS
<1>3. PICK argv, a : argv = c.argv /\ a = c.at
  OBVIOUS
<1>4. /\ argv \in ArgVectors /\ a \in 1 .. Len(argv) + 1 /\ Free(argv, a) /\ a \in Nat
      /\ Options(argv, a) # {}
  BY <1>1, <1>2, <1>3 DEF ParseInv, Reading
<1>5. PICK k \in a .. Len(argv) :
        /\ k = Min(Options(argv, a))
        /\ k \in OptionPlaces(argv) /\ IsOption(argv[k]) /\ ~IsPlain(argv, k)
        /\ \A j \in a .. k - 1 : j \notin OptionPlaces(argv) /\ IsPlain(argv, j)
  BY <1>4, NextOption
<1>6. Len(argv) \in Nat /\ k \in 1 .. Len(argv) /\ a =< k /\ k \in Nat
  BY <1>4, <1>5, ArgvFacts
<1>7. PICK i, s : i = Counted(argv[k]) /\ s = OptArg(argv, k)
  OBVIOUS
<1>8. /\ ~Refused(argv, k)
      /\ LET l == _args_lookup_opt_by_short_opt(Opt(argv[k]).short)
         IN  IF BadInt(l, s)
             THEN data' = [data EXCEPT ![l].found = TRUE] /\ Fail
             ELSE /\ data' = [data EXCEPT ![l] = Parsed(l, s)]
                  /\ call' = [call EXCEPT
                       !.at = After(argv, k),
                       !.plain = @ + (k - call.at)]
                  /\ UNCHANGED <<opterr, last, up>>
  BY <1>2, <1>3, <1>5, <1>7 DEF OptionRead
<1>9. /\ i \in Entries /\ _args_lookup_opt_by_short_opt(Opt(argv[k]).short) = i
      /\ BadInt(i, s) <=> ~WellFormed(argv, k)
  <2>1. ~Refused(argv, k) /\ argv \in ArgVectors /\ k \in 1 .. Len(argv) /\ IsOption(argv[k])
    BY <1>4, <1>5, <1>6, <1>8
  <2> QED BY <1>7, <2>1, OptionMeans
<1>10. data \in [Entries -> EntryData]
  BY DEF ParseInv
<1>11. CASE BadInt(i, s)
  <2>1. data' = [data EXCEPT ![i].found = TRUE] /\ Fail
    BY <1>8, <1>9, <1>11
  <2>2. data' \in [Entries -> EntryData]
    BY <1>9, <1>10, <2>1 DEF EntryData
  <2>3. ~Acceptable(call.argv, call.flags)
    BY <1>2, <1>3, <1>5, <1>9, <1>11 DEF Acceptable
  <2> QED BY <1>1, <2>1, <2>2, <2>3, FailKept
<1>12. CASE ~BadInt(i, s)
  <2>1. PICK b \in Nat :
          /\ b = After(argv, k) /\ b \in 1 .. Len(argv) + 1 /\ k < b /\ Free(argv, b)
          /\ \A j \in k + 1 .. b - 1 : j \notin OptionPlaces(argv) /\ ~IsPlain(argv, j)
    BY <1>4, <1>5, <1>6, <1>8, OptionEnds
  <2>2. PICK d : d = [c EXCEPT !.at = b, !.plain = @ + (k - a)]
    OBVIOUS
  <2>3. /\ data' = [data EXCEPT ![i] = Parsed(i, s)] /\ call' = d
        /\ opterr' = opterr /\ last' = last
    BY <1>2, <1>3, <1>8, <1>9, <1>12, <2>1, <2>2
  <2>4. \A j \in k + 1 .. b - 1 : j \notin OptionPlaces(argv)
    BY <2>1
  <2>5. Reading(c) /\ last = NULL /\ opterr = (c.saved /\ ~c.flags.silent)
    BY <1>1, <1>2 DEF ParseInv
  <2>6. /\ d \in [argv : ArgVectors, flags : Flags, saved : BOOLEAN, at : Nat, plain : Nat,
                  told : {FALSE}, before : [Entries -> EntryData]]
        /\ d.argv = argv /\ d.at = b /\ d.plain = c.plain + (k - a) /\ d.saved = c.saved
        /\ d.flags = c.flags /\ d.before = c.before /\ c.plain \in Nat
    <3>1. c \in [argv : ArgVectors, flags : Flags, saved : BOOLEAN, at : Nat, plain : Nat,
                 told : {FALSE}, before : [Entries -> EntryData]]
      BY <2>5 DEF Reading
    <3>2. PICK n \in Nat : n = k - a
      BY <1>4, <1>6
    <3>3. d = [c EXCEPT !.at = b, !.plain = @ + n]
      BY <2>2, <3>2
    <3>4. c.plain \in Nat /\ c.plain + n \in Nat
      BY <3>1
    <3>5. PICK m \in Nat : m = c.plain + n
      BY <3>4
    <3>6. d = [c EXCEPT !.at = b, !.plain = m]
      BY <3>3, <3>5
    <3> QED BY <1>3, <3>1, <3>2, <3>4, <3>5, <3>6
  <2>7. ASSUME NEW n \in OptionPlaces(argv), n < b PROVE WellFormed(argv, n)
    <3>1. n \in Nat
      BY <1>4, ArgvFacts
    <3>2. CASE n < a
      BY <1>3, <2>5, <2>7, <3>2 DEF Reading
    <3>3. CASE ~(n < a)
      <4>1. n \notin a .. k - 1
        BY <1>5, <2>7
      <4>2. n = k
        <5>1. n \notin k + 1 .. b - 1
          BY <2>4, <2>7
        <5> QED BY <1>4, <1>6, <2>1, <2>7, <3>1, <3>3, <4>1, <5>1
      <4> QED BY <1>9, <1>12, <4>2
    <3> QED BY <3>2, <3>3
  <2>8. d.plain > 0 <=> \E n \in 1 .. Len(argv) : n < b /\ IsPlain(argv, n)
    <3>0. c.plain > 0 <=> \E n \in 1 .. Len(argv) : n < a /\ IsPlain(argv, n)
      BY <1>3, <2>5 DEF Reading
    <3>1. CASE a < k
      <4>1. a \in a .. k - 1 /\ a \in 1 .. Len(argv) /\ a < b
        BY <1>4, <1>6, <2>1, <3>1
      <4>2. IsPlain(argv, a)
        BY <1>5, <4>1
      <4>3. d.plain > 0
        BY <1>4, <1>6, <2>6, <3>1
      <4> QED BY <4>1, <4>2, <4>3
    <3>2. CASE a = k
      <4>1. d.plain = c.plain
        BY <1>6, <2>6, <3>2
      <4>2. ASSUME NEW n \in 1 .. Len(argv), IsPlain(argv, n)
            PROVE  n < b <=> n < a
        <5>1. n # k /\ n \notin k + 1 .. b - 1
          BY <1>5, <2>1, <4>2
        <5> QED BY <1>6, <2>1, <3>2, <5>1
      <4> QED BY <3>0, <4>1, <4>2
    <3> QED BY <1>4, <1>6, <3>1, <3>2
  <2>9. Reading(d)
    BY <2>1, <2>6, <2>7, <2>8 DEF Reading
  <2>10. \A j \in Entries : Says(argv, c.before[j], data[j], j, a)
    BY <1>1, <1>2, <1>3 DEF ParseInv
  <2>11. \A j \in a .. k - 1 : j \notin OptionPlaces(argv)
    BY <1>5
  <2>12. c.before[i] \in EntryData
    BY <1>9, <2>5 DEF Reading
  <2>13. Parsed(i, s) \in EntryData /\ Says(argv, c.before[i], Parsed(i, s), i, b)
    BY <1>4, <1>5, <1>6, <1>7, <1>8, <1>9, <1>10, <1>12, <2>1, <2>4, <2>10, <2>11, <2>12, ParsedSays
  <2>14. ASSUME NEW j \in Entries PROVE Says(argv, c.before[j], data'[j], j, b)
    <3>1. CASE j = i
      <4>1. data'[j] = Parsed(i, s)
        BY <1>9, <1>10, <2>3, <3>1
      <4> QED BY <2>13, <3>1, <4>1
    <3>2. CASE j # i
      <4>1. data'[j] = data[j]
        BY <1>10, <2>3, <3>2
      <4>2. Uses(argv, j, b) = Uses(argv, j, a)
        <5>1. /\ argv \in ArgVectors /\ a \in Nat /\ k \in OptionPlaces(argv) /\ a =< k
              /\ k < b
          BY <1>4, <1>5, <1>6, <2>1
        <5>2. \A e : e # Counted(argv[k]) => Unused(argv, e, a, b)
          BY <2>4, <2>11, <5>1, UsesGrow
        <5> QED BY <1>7, <3>2, <5>2 DEF Unused
      <4>3. Given(argv, j, b) = Given(argv, j, a)
        BY <4>2 DEF Given
      <4> QED BY <2>10, <4>1, <4>2, <4>3 DEF Says
    <3> QED BY <3>1, <3>2
  <2>15. data' \in [Entries -> EntryData]
    BY <1>9, <1>10, <2>3, <2>13
  <2>16. Reading(call)' 
    <3>1. Reading(call')
      BY <2>3, <2>9
    <3> QED BY <3>1 DEF Reading
  <2>17. \A j \in Entries : Says(call.argv, call.before[j], data[j], j, call.at)'
    <3>1. \A j \in Entries : Says(call'.argv, call'.before[j], data'[j], j, call'.at)
      BY <2>3, <2>6, <2>14
    <3> QED BY <3>1
  <2>18. last' = NULL /\ opterr' \in BOOLEAN /\ opterr' = (call'.saved /\ ~call'.flags.silent)
    BY <2>3, <2>5, <2>6 DEF ParseInv
  <2> QED
    BY <2>15, <2>16, <2>17, <2>18 DEF ParseInv, ErrorsAsAsked, ResultExact, ValuesExact
<1> QED BY <1>11, <1>12

LEMMA DoneKept ==
    ASSUME ParseInv, OptionsDone
    PROVE  ParseInv'
<1>1. /\ call # NULL /\ Options(call.argv, call.at) = {} /\ data' = data
  BY DEF OptionsDone, More
<1>2. PICK c, argv, a : c = call /\ argv = c.argv /\ a = c.at
  OBVIOUS
<1>3. /\ argv \in ArgVectors /\ a \in 1 .. Len(argv) + 1 /\ Free(argv, a)
      /\ Options(argv, a) = {} /\ Reading(c) /\ c.plain \in Nat /\ c.told = FALSE
  BY <1>1, <1>2 DEF ParseInv, Reading
<1>4. \A j \in a .. Len(argv) : j \notin OptionPlaces(argv) /\ IsPlain(argv, j)
  BY <1>3, NoOption
<1>5. /\ Len(argv) \in Nat /\ DOMAIN argv = 1 .. Len(argv)
      /\ OptionPlaces(argv) \subseteq 1 .. Len(argv)
  BY <1>3, ArgvFacts
<1>6. \A k \in OptionPlaces(argv) : k < a /\ WellFormed(argv, k)
  <2> SUFFICES ASSUME NEW k \in OptionPlaces(argv) PROVE k < a /\ WellFormed(argv, k)
    OBVIOUS
  <2>1. k \in 1 .. Len(argv) /\ k \notin a .. Len(argv)
    BY <1>4, <1>5
  <2>2. k < a
    BY <1>3, <1>5, <2>1
  <2> QED BY <1>2, <1>3, <2>2 DEF Reading
<1>7. PICK plain : plain = c.plain + (Len(argv) + 1 - a)
  OBVIOUS
<1>8. plain > 0 <=> \E k \in 1 .. Len(argv) : IsPlain(argv, k)
  <2>1. c.plain > 0 <=> \E k \in 1 .. Len(argv) : k < a /\ IsPlain(argv, k)
    BY <1>2, <1>3 DEF Reading
  <2>2. CASE a = Len(argv) + 1
    <3>1. plain = c.plain /\ \A k \in 1 .. Len(argv) : k < a
      BY <1>3, <1>5, <1>7, <2>2
    <3> QED BY <2>1, <3>1
  <2>3. CASE a # Len(argv) + 1
    <3>1. a \in a .. Len(argv) /\ a \in 1 .. Len(argv) /\ plain > 0
      BY <1>3, <1>5, <1>7, <2>3
    <3> QED BY <1>4, <3>1
  <2> QED BY <2>2, <2>3
<1>9. Acceptable(argv, c.flags) <=> ~(c.flags.no_non_opts /\ plain > 0)
  BY <1>5, <1>6, <1>8 DEF Acceptable
<1>10. data' \in [Entries -> EntryData]
  BY <1>1 DEF ParseInv
<1>11. IF ~SignedChar \/ (c.flags.no_non_opts /\ plain > 0)
       THEN Fail ELSE Leave(0, call.told)
  BY <1>2, <1>7 DEF OptionsDone
<1>12. CASE ~SignedChar \/ (c.flags.no_non_opts /\ plain > 0)
  <2>1. Fail
    BY <1>11, <1>12
  <2>2. SignedChar => ~Acceptable(call.argv, call.flags)
    BY <1>2, <1>9, <1>12
  <2> QED BY <1>1, <1>10, <2>1, <2>2, FailKept
<1>13. CASE SignedChar /\ ~(c.flags.no_non_opts /\ plain > 0)
  <2>1. Leave(0, FALSE)
    BY <1>2, <1>3, <1>11, <1>13
  <2>2. 0 \in {0, -1} /\ 0 # -1
    OBVIOUS
  <2>3. FALSE = (0 = -1 /\ call.saved /\ ~call.flags.silent)
    BY <2>2
  <2>4. SignedChar => (0 = 0 <=> Acceptable(call.argv, call.flags))
    BY <1>2, <1>9, <1>13
  <2>5. ASSUME NEW i \in Entries
        PROVE  Says(call.argv, call.before[i], data'[i], i, Len(call.argv) + 1)
    <3>1. Says(argv, c.before[i], data[i], i, a)
      BY <1>1, <1>2 DEF ParseInv
    <3>2. \A k \in 1 .. Len(argv) : k < Len(argv) + 1
      BY <1>5
    <3>3. Uses(argv, i, Len(argv) + 1) = Uses(argv, i, a)
      BY <1>5, <1>6, <3>2 DEF Uses
    <3>4. Given(argv, i, Len(argv) + 1) = Given(argv, i, a)
      BY <3>3 DEF Given
    <3>5. Says(argv, c.before[i], data[i], i, Len(argv) + 1)
      BY <3>1, <3>3, <3>4 DEF Says
    <3> QED BY <1>1, <1>2, <3>5
  <2> QED BY <1>1, <1>10, <2>1, <2>2, <2>3, <2>4, <2>5, LeaveKept
<1> QED BY <1>12, <1>13

LEMMA ParseKept == ParseInv /\ [Next]_vars => ParseInv'
<1> SUFFICES ASSUME ParseInv, [Next]_vars PROVE ParseInv'
  OBVIOUS
<1>1. CASE UNCHANGED <<data, opterr, call, last>>
  <2>1. data' = data /\ opterr' = opterr /\ call' = call /\ last' = last
    BY <1>1
  <2>2. call' # NULL =>
          /\ last' = NULL /\ Reading(call') /\ opterr' = (call'.saved /\ ~call'.flags.silent)
          /\ \A i \in Entries : Says(call'.argv, call'.before[i], data'[i], i, call'.at)
    BY <2>1 DEF ParseInv
  <2>3. ErrorsAsAsked' /\ (SignedChar => ResultExact') /\ ValuesExact'
    BY <2>1 DEF ParseInv, ErrorsAsAsked, ResultExact, ValuesExact
  <2>4. data' \in [Entries -> EntryData] /\ opterr' \in BOOLEAN
    BY <2>1 DEF ParseInv
  <2> QED BY <2>2, <2>3, <2>4 DEF ParseInv
<1>2. CASE StartFails \/ UNCHANGED vars
  BY <1>1, <1>2 DEF StartFails, vars
<1> QED
  BY <1>2, StartKept, RefusedKept, ReadKept, DoneKept DEF Next

\* A call succeeds exactly for the command lines that are acceptable, where
\* char is signed (args.h:180-236).
THEOREM ResultsAreExact ==
    ASSUME SignedChar
    PROVE  Spec => []ResultExact
<1>1. ParseInv => ResultExact
  BY DEF ParseInv
<1> QED BY <1>1, ParseInitially, ParseKept, PTL DEF Spec

\* A call that succeeds leaves in the table what the command line says
\* (args.h:98-119, 195-212).
THEOREM ValuesAreExact == Spec => []ValuesExact
<1>1. ParseInv => ValuesExact
  BY DEF ParseInv
<1> QED BY <1>1, ParseInitially, ParseKept, PTL DEF Spec

\* A call restores opterr and complains when it was asked to
\* (args.h:67-77, 142-145, 225-236).
THEOREM ErrorsAreAsAsked == Spec => []ErrorsAsAsked
<1>1. ParseInv => ErrorsAsAsked
  BY DEF ParseInv
<1> QED BY <1>1, ParseInitially, ParseKept, PTL DEF Spec
=============================================================================
