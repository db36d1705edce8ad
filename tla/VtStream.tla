------------------------------ MODULE VtStream ------------------------------
(***************************************************************************)
(* Stream::feed (qwertty-term-vt/src/stream.rs): what the read pipeline    *)
(* gives the terminal is taken in bulk, with fast paths for text, for      *)
(* "ESC [", for the parameters of a control sequence and for APC strings.  *)
(* All of them must do what Stream::next does byte by byte (VtParser),     *)
(* however the output is cut into chunks.                                  *)
(***************************************************************************)
EXTENDS VtParser

CONSTANT Chunks   \* inputs of feed

ASSUME ChunkAssumption == Chunks \subseteq Seq(Bytes)

VARIABLE stream

Rest(input, n) == SubSeq(input, n + 1, Len(input))

\* How many bytes from the start are in a set.
Run(input, set) ==
    LET ends == { n \in 1 .. Len(input) : input[n] \notin set }
    IN  IF ends = {} THEN Len(input) ELSE (CHOOSE n \in ends : \A m \in ends : n <= m) - 1

-----------------------------------------------------------------------------
(* The fast paths inside a control sequence.  Each says how many bytes it   *)
(* took; none, when the byte is left to the parser.                         *)

Took(n, s, calls) == [n |-> n, s |-> s, calls |-> calls]
Grounded(r) == At(r, "ground")

\* csi_entry_byte
CsiEntryByte(s, b) ==
    LET done == Grounded(CsiDispatch(s, b))
        param == [s EXCEPT !.st = "csi_param"]
    IN  CASE b \in Digits -> Took(1, [param EXCEPT !.acc = b - 48, !.digits = 1], <<>>)
          [] b = Semicolon -> Took(1, [param EXCEPT !.params = <<0>>], <<>>)
          [] b \in Private -> Took(1, Collect(param, b), <<>>)
          [] b \in Finals -> Took(1, done.s, done.calls)
          [] OTHER -> Took(0, s, <<>>)

\* A digit in bulk: digits only says whether there was one.
BulkDigit(s, b) ==
    IF ParamsFull(s) THEN s ELSE [s EXCEPT !.acc = WithDigit(@, b), !.digits = IF @ = 0 THEN 1 ELSE @]
BulkParam(s, b) == IF b \in Digits THEN BulkDigit(s, b) ELSE Separated(s, b)

\* bulk_consume_csi_params
BulkParams(s, input) ==
    LET n == Run(input, Digits \union {Colon, Semicolon})
        t == FoldLeft(BulkParam, s, SubSeq(input, 1, n))
        done == Grounded(CsiDispatch(t, input[n + 1]))
    IN  IF n < Len(input) /\ input[n + 1] \in Finals
        THEN Took(n + 1, done.s, done.calls)
        ELSE Took(n, t, <<>>)

\* consume_apc_string
ApcRun(s, input) ==
    LET n == Run(input, (0 .. 127) \ {24, 26, ESC})
    IN  Took(n, s, [i \in 1 .. n |-> <<"apc_put", input[i]>>])

-----------------------------------------------------------------------------
(* The fast path for text.                                                  *)

Cont == 128 .. 191

\* decode_wellformed_multibyte: the code point and its length, if the input
\* starts with all of one (Unicode table 3-7).
Second(b) == CASE b = 224 -> 160 .. 191 [] b = 237 -> 128 .. 159
               [] b = 240 -> 144 .. 191 [] b = 244 -> 128 .. 143 [] OTHER -> Cont

WellFormed(input) ==
    LET b(i) == input[i]
        conts(n) == /\ Len(input) >= n
                    /\ b(2) \in Second(b(1))
                    /\ \A i \in 3 .. n : b(i) \in Cont
          low(i) == b(i) % 64
    IN  CASE b(1) \in 194 .. 223 /\ conts(2) ->
               [n |-> 2, cp |-> (b(1) % 32) * 64 + low(2)]
          [] b(1) \in 224 .. 239 /\ conts(3) ->
               [n |-> 3, cp |-> (b(1) % 16) * 4096 + low(2) * 64 + low(3)]
          [] b(1) \in 240 .. 244 /\ conts(4) ->
               [n |-> 4, cp |-> (b(1) % 8) * 262144 + low(2) * 4096 + low(3) * 64 + low(4)]
          [] OTHER -> [n |-> 0, cp |-> 0]

\* One round of decode_until_control_seq: the bytes taken, the code points and
\* the decoder.  In the middle of a sequence only the decoder is asked.
Scan(s, input) ==
    LET well == WellFormed(input)
        d == Decoded(s, input[1])
    IN  IF ~Partial(s) /\ input[1] < 128
        THEN LET n == Run(input, (0 .. 127) \ {ESC})
             IN  [n |-> n, s |-> s, cps |-> SubSeq(input, 1, n)]
        ELSE IF ~Partial(s) /\ well.n > 0 THEN [n |-> well.n, s |-> s, cps |-> <<well.cp>>]
        ELSE [n |-> IF d.taken THEN 1 ELSE 0, s |-> d.s, cps |-> d.cps]

\* decode_until_control_seq goes round until the text ends or an ESC is next.  A
\* byte is looked at twice when the decoder gives it back, never more often.
Scanned(d, found) ==
    [n |-> d.n + found.n, s |-> found.s, cps |-> d.cps \o found.cps,
     rest |-> Rest(d.rest, found.n)]
DecodeOn(d, round) ==
    IF d.rest = <<>> \/ d.rest[1] = ESC THEN d ELSE Scanned(d, Scan(d.s, d.rest))
DecodeUntilControl(s, input) ==
    FoldLeft(DecodeOn, [n |-> 0, s |-> s, cps |-> <<>>, rest |-> input], input \o input)

\* dispatch_ground_run: controls are executed, the others printed in runs.
GroundCall(cp) == IF cp <= 15 THEN Execute(cp) ELSE <<<<"print", cp>>>>

Grounding(calls, cp) == calls \o GroundCall(cp)
GroundRun(d) == Took(d.n, d.s, FoldLeft(Grounding, <<>>, d.cps))
TextRun(s, input) == GroundRun(DecodeUntilControl(s, input))

-----------------------------------------------------------------------------
(* feed                                                                     *)

\* One byte through next_utf8, next or next_non_utf8.
Single(r) == Took(1, r.s, r.calls)
OneByte(s, input) == Single(NextByte(s, input[1]))
OrOneByte(fast, s, input) == IF fast.n > 0 THEN fast ELSE OneByte(s, input)

(* Mutant of NonGround: after a dropped final the next byte goes to the parser. *)
FallThrough(bulk, s, input) ==
    IF /\ bulk.n \in 1 .. Len(input) - 1
       /\ bulk.s.st = "ground" /\ bulk.calls = <<>>
    THEN [Single(NextNonUtf8(bulk.s, input[bulk.n + 1])) EXCEPT !.n = bulk.n + 1]
    ELSE OrOneByte(bulk, s, input)
NonGroundFallsThrough(s, input) ==
    FallThrough(IF s.st = "csi_param" THEN BulkParams(s, input) ELSE Took(0, s, <<>>),
                s, input)

\* Not in ground state: what the loop does before the next byte.
NonGround(s, input) ==
    OrOneByte(
        CASE s.st = "escape" /\ input[1] = 91 -> Took(1, [s EXCEPT !.st = "csi_entry"], <<>>)
          [] s.st = "csi_entry" -> CsiEntryByte(s, input[1])
          [] s.st = "csi_param" -> BulkParams(s, input)
          [] s.st = "sos_pm_apc_string" -> ApcRun(s, input)
          [] OTHER -> Took(0, s, <<>>),
        s, input)

Ground(s, input) == OrOneByte(TextRun(s, input), s, input)

\* One turn of the loop.
Turn(s, input) ==
    IF Partial(s) THEN OneByte(s, input)
    ELSE IF s.st # "ground" THEN NonGround(s, input)
    ELSE Ground(s, input)

\* feed takes turns until nothing is left; each takes a byte at least, so there
\* are no more turns than bytes.
Fed(f, turn) ==
    [s |-> turn.s, calls |-> f.calls \o turn.calls, rest |-> Rest(f.rest, turn.n)]
FeedOn(f, byte) == IF f.rest = <<>> THEN f ELSE Fed(f, Turn(f.s, f.rest))
Feed(s, input) == FoldLeft(FeedOn, [s |-> s, calls |-> <<>>, rest |-> input], input)

StreamInit == stream = NewStream
StreamNext == \E input \in Chunks : stream' = Feed(stream, input).s
StreamSpec == StreamInit /\ [][StreamNext]_stream

-----------------------------------------------------------------------------
(* What must hold.                                                          *)

\* The registers keep their bounds (Parser::assert_bounded).
StreamTypeOK ==
    /\ stream.st \in States
    /\ Len(stream.inter) <= MaxIntermediate /\ Len(stream.params) <= MaxParams
    /\ stream.colons \subseteq 0 .. MaxParams - 1
    /\ stream.acc \in 0 .. MaxValue /\ stream.digits \in 0 .. DigitWrap - 1

\* Feeding a chunk is feeding its bytes one by one, unless a parameter gets as
\* many digits as the parser's count of them can hold (see FeedIsNext): the same
\* calls in the same order, and a stream that goes on the same way (of the digits'
\* count only whether there were any matters, and of a parameter too many nothing).
Alike(s) == [s EXCEPT !.acc = IF ParamsFull(s) THEN 0 ELSE @,
                      !.digits = IF @ = 0 \/ ParamsFull(s) THEN 0 ELSE 1]
Same(bulk, single) == bulk.calls = single.calls /\ Alike(bulk.s) = Alike(single.s)
ManyDigits(input) ==
    \E i \in 1 .. Len(input) : stream.digits + Run(Rest(input, i - 1), Digits) >= DigitWrap
FeedMatchesNext ==
    \A input \in Chunks :
        ManyDigits(input) \/ Same(Feed(stream, input), NextAll(stream, input))

\* "Behavior-equivalent to feeding the same bytes through Parser::next one at a
\* time", whatever the chunk: no call is different.
FeedIsNext == \A input \in Chunks : Feed(stream, input).calls = NextAll(stream, input).calls

\* Nothing of an earlier sequence is left when one begins, which is what lets
\* "ESC [" skip the clear; and the decoder is idle outside the ground state, so
\* that no bytes of a character are held over a control sequence.
FreshSequence ==
    /\ stream.st \in {"escape", "csi_entry", "dcs_entry"} => stream = Cleared(stream)
    /\ Partial(stream) => stream.st = "ground"

\* Both at once: the registers the next byte works with are sound.
RegistersSound == StreamTypeOK /\ FreshSequence

\* The DCS handler is active only while a string is passed through to it: "the
\* parser guarantees unhook precedes the next hook".
HookMatched == stream.dcs.state # "inactive" => stream.st = "dcs_passthrough"

\* Whatever came before, a reset is understood: after ESC c the last call is the
\* dispatch of c, alone, and the parser is back on the ground.
HeardReset(r) == r.s.st = "ground" /\ Last(r.calls) = <<"esc", <<>>, 99>>
ResetUnderstood == HeardReset(NextAll(stream, <<ESC, 99>>))

=============================================================================
