------------------------------ MODULE VtParser ------------------------------
(***************************************************************************)
(* The parser of the terminal's input, one byte at a time: the state       *)
(* machine of qwertty-term-vt/src/parser (mod.rs, table.rs), the UTF-8     *)
(* decoder (utf8_decoder.rs), the handler of DCS strings (dcs.rs) and the  *)
(* way Stream::next puts them together (stream.rs).  A step takes a stream *)
(* and a byte to the stream after it and the calls made on the handler.    *)
(*                                                                         *)
(* Bytes are numbers, as in the code.  The limits on intermediates, params *)
(* and on a parameter's value are constants, so that they can be reached;  *)
(* param_acc_idx is a byte in the code and wraps at DigitWrap here.        *)
(* What the handler does with a call, and the contents of OSC and APC      *)
(* strings and of tmux's lines, are left out.                              *)
(***************************************************************************)
EXTENDS Integers, Sequences, SequencesExt

CONSTANTS
    Bytes,            \* the bytes that occur
    MaxIntermediate,  \* MAX_INTERMEDIATE, 4 in the code
    MaxParams,        \* MAX_PARAMS, 24 in the code
    MaxValue,         \* u16::MAX
    DigitWrap,        \* 256
    TmuxParam         \* 1000

ASSUME ByteAssumption == Bytes \subseteq 0 .. 255
ASSUME LimitAssumption ==
    /\ MaxIntermediate \in Nat \ {0} /\ MaxParams \in Nat \ {0}
    /\ MaxValue \in Nat /\ MaxValue >= 9 /\ TmuxParam \in 0 .. MaxValue
    /\ DigitWrap \in Nat \ {0, 1}

ESC == 27
CAN == 24
Colon == 58
Semicolon == 59

-----------------------------------------------------------------------------
(* The transition table.  A rule is <<bytes, next state, action>>; a byte   *)
(* without a rule in a state goes by the rules that hold anywhere.          *)

C0 == (0 .. 23) \union {25} \union (28 .. 31)
Intermediates == 32 .. 47
Digits == 48 .. 57
Private == 60 .. 63
Finals == 64 .. 126

Anywhere(st) ==
    { <<{24, 26} \union (128 .. 143) \union (145 .. 151) \union {153, 154}, "ground", "execute">>,
      <<{156}, "ground", "none">>,
      <<{ESC}, "escape", "none">>,
      <<{152, 158, 159}, "sos_pm_apc_string", "none">>,
      <<{155}, "csi_entry", "none">>,
      <<{144}, "dcs_entry", "none">>,
      <<{157}, "osc_string", "none">> }

Rules ==
    [ground |->
        { <<C0, "ground", "execute">>, <<32 .. 127, "ground", "print">> },
     escape |->
        { <<C0, "escape", "execute">>,
          <<Intermediates, "escape_intermediate", "collect">>,
          <<(48 .. 126) \ {80, 88, 91, 93, 94, 95}, "ground", "esc_dispatch">>,
          <<{88, 94, 95}, "sos_pm_apc_string", "none">>,
          <<{80}, "dcs_entry", "none">>,
          <<{91}, "csi_entry", "none">>,
          <<{93}, "osc_string", "none">> },
     escape_intermediate |->
        { <<C0, "escape_intermediate", "execute">>,
          <<Intermediates, "escape_intermediate", "collect">>,
          <<48 .. 126, "ground", "esc_dispatch">> },
     csi_entry |->
        { <<C0, "csi_entry", "execute">>,
          <<Finals, "ground", "csi_dispatch">>,
          <<{Colon}, "csi_ignore", "none">>,
          <<Intermediates, "csi_intermediate", "collect">>,
          <<Digits \union {Semicolon}, "csi_param", "param">>,
          <<Private, "csi_param", "collect">> },
     csi_param |->
        { <<C0, "csi_param", "execute">>,
          <<Digits \union {Colon, Semicolon}, "csi_param", "param">>,
          <<Finals, "ground", "csi_dispatch">>,
          <<Private, "csi_ignore", "none">>,
          <<Intermediates, "csi_intermediate", "collect">> },
     csi_intermediate |->
        { <<C0, "csi_intermediate", "execute">>,
          <<Intermediates, "csi_intermediate", "collect">>,
          <<Finals, "ground", "csi_dispatch">>,
          <<48 .. 63, "csi_ignore", "none">> },
     csi_ignore |->
        { <<C0, "csi_ignore", "execute">>, <<Finals, "ground", "none">> },
     dcs_entry |->
        { <<Intermediates, "dcs_intermediate", "collect">>,
          <<{Colon}, "dcs_ignore", "none">>,
          <<Digits \union {Semicolon}, "dcs_param", "param">>,
          <<Private, "dcs_param", "collect">>,
          <<Finals, "dcs_passthrough", "none">> },
     dcs_param |->
        { <<Digits \union {Semicolon}, "dcs_param", "param">>,
          <<Private \union {Colon}, "dcs_ignore", "none">>,
          <<Intermediates, "dcs_intermediate", "collect">>,
          <<Finals, "dcs_passthrough", "none">> },
     dcs_intermediate |->
        { <<Intermediates, "dcs_intermediate", "collect">>,
          <<48 .. 63, "dcs_ignore", "none">>,
          <<Finals, "dcs_passthrough", "none">> },
     dcs_passthrough |->
        { <<C0 \union (32 .. 126) \union (128 .. 255), "dcs_passthrough", "put">> },
     dcs_ignore |-> {},
     osc_string |->
        { <<{7}, "ground", "none">>, <<32 .. 255, "osc_string", "osc_put">> },
     sos_pm_apc_string |->
        { <<C0 \union (32 .. 127), "sos_pm_apc_string", "apc_put">> }]

States == DOMAIN Rules

Table ==
    [b \in Bytes |-> [st \in States |->
        LET here == { r \in Rules[st] : b \in r[1] }
            any == { r \in Anywhere(st) : b \in r[1] }
            rule == IF here # {} THEN CHOOSE r \in here : TRUE
                    ELSE IF any # {} THEN CHOOSE r \in any : TRUE
                    ELSE <<{b}, st, "none">>
        IN  [to |-> rule[2], do |-> rule[3]]]]

-----------------------------------------------------------------------------
(* The stream: the parser's registers, the decoder and the DCS handler.     *)

Idle == [state |-> "inactive", data |-> <<>>]

NewStream ==
    [st |-> "ground", inter |-> <<>>, params |-> <<>>, colons |-> {},
     acc |-> 0, digits |-> 0,
     dfa |-> 0, cp |-> 0,
     dcs |-> Idle]

Cleared(s) == [s EXCEPT !.inter = <<>>, !.params = <<>>, !.colons = {}, !.acc = 0, !.digits = 0]

Collect(s, b) ==
    IF Len(s.inter) >= MaxIntermediate THEN s ELSE [s EXCEPT !.inter = Append(@, b)]

Saturated(n) == IF n > MaxValue THEN MaxValue ELSE n
WithDigit(acc, b) == Saturated(Saturated(acc * 10) + b - 48)

ParamsFull(s) == Len(s.params) >= MaxParams

(* Mutant of Separated: the number of parameters is not looked at. *)
SeparatedUnbounded(s, b) ==
    [s EXCEPT !.params = Append(@, s.acc),
              !.colons = IF b = Colon THEN @ \union {Len(s.params)} ELSE @,
              !.acc = 0, !.digits = 0]

\* A separator ends a parameter; a colon is remembered.
Separated(s, b) ==
    IF ParamsFull(s) THEN s
    ELSE [s EXCEPT !.params = Append(@, s.acc),
                   !.colons = IF b = Colon THEN @ \union {Len(s.params)} ELSE @,
                   !.acc = 0, !.digits = 0]

Param(s, b) ==
    IF b \in {Colon, Semicolon} THEN Separated(s, b)
    ELSE [s EXCEPT !.acc = WithDigit(@, b), !.digits = (@ + 1) % DigitWrap]

Finalized(s) ==
    IF s.digits > 0 THEN [s EXCEPT !.params = Append(@, s.acc)] ELSE s

\* A step's result: the stream and the calls made.
Result(s, calls) == [s |-> s, calls |-> calls]
Csi(s, b) == <<"csi", s.inter, s.params, s.colons, b>>

\* With too many parameters, or colons for another command than 'm', a CSI
\* sequence is dropped.
CsiDispatch(s, b) ==
    LET t == Finalized(s)
    IN  IF ParamsFull(s) THEN Result(s, <<>>)
        ELSE IF b # 109 /\ t.colons # {} THEN Result(t, <<>>)
        ELSE Result(t, <<Csi(t, b)>>)

Act(s, do, b) ==
    CASE do = "none" -> Result(s, <<>>)
      [] do = "print" -> Result(s, <<<<"print", b>>>>)
      [] do = "execute" -> Result(s, <<<<"execute", b>>>>)
      [] do = "collect" -> Result(Collect(s, b), <<>>)
      [] do = "param" -> Result(Param(s, b), <<>>)
      [] do = "csi_dispatch" -> CsiDispatch(s, b)
      [] do = "esc_dispatch" -> Result(s, <<<<"esc", s.inter, b>>>>)
      [] do = "put" -> Result(s, <<<<"dcs_put", b>>>>)
      [] do \in {"osc_put", "apc_put"} -> Result(s, <<<<do, b>>>>)

(* Mutant of Exit: only ESC ends a passed-through string, CAN does not. *)
ExitOnEscape(st, b) ==
    CASE st = "osc_string" -> <<<<"osc_end", b>>>>
      [] st = "dcs_passthrough" /\ b = ESC -> <<<<"dcs_unhook">>>>
      [] st = "sos_pm_apc_string" -> <<<<"apc_end">>>>
      [] OTHER -> <<>>

Exit(st, b) ==
    CASE st = "osc_string" -> <<<<"osc_end", b>>>>
      [] st = "dcs_passthrough" -> <<<<"dcs_unhook">>>>
      [] st = "sos_pm_apc_string" -> <<<<"apc_end">>>>
      [] OTHER -> <<>>

(* Mutant of Entry: ESC does not clear what was collected. *)
EntryKeepsCollected(s, to, b) ==
    CASE to \in {"dcs_entry", "csi_entry"} -> Result(Cleared(s), <<>>)
      [] to = "osc_string" -> Result(s, <<<<"osc_start">>>>)
      [] to = "sos_pm_apc_string" -> Result(s, <<<<"apc_start">>>>)
      [] to = "dcs_passthrough" ->
           LET t == Finalized(s)
           IN  IF ParamsFull(s) THEN Result(s, <<>>)
               ELSE Result(t, <<<<"dcs_hook", t.inter, t.params, b>>>>)
      [] OTHER -> Result(s, <<>>)

\* A DCS with too many parameters is passed through without a hook.
Entry(s, to, b) ==
    CASE to \in {"escape", "dcs_entry", "csi_entry"} -> Result(Cleared(s), <<>>)
      [] to = "osc_string" -> Result(s, <<<<"osc_start">>>>)
      [] to = "sos_pm_apc_string" -> Result(s, <<<<"apc_start">>>>)
      [] to = "dcs_passthrough" ->
           LET t == Finalized(s)
           IN  IF ParamsFull(s) THEN Result(s, <<>>)
               ELSE Result(t, <<<<"dcs_hook", t.inter, t.params, b>>>>)
      [] OTHER -> Result(s, <<>>)

\* Parser::next: what leaving a state ends, then the transition's action, then
\* what entering a state begins.
Also(r, n) == Result(n.s, r.calls \o n.calls)
Enter(r, to, b) == Also(r, Entry(r.s, to, b))
At(r, st) == [r EXCEPT !.s.st = st]

Transition(s, b, edge) ==
    IF edge.to = s.st THEN Act(s, edge.do, b)
    ELSE At(Enter(Also(Result(s, Exit(s.st, b)), Act(s, edge.do, b)), edge.to, b), edge.to)

ParserNext(s, b) == Transition(s, b, Table[b][s.st])

-----------------------------------------------------------------------------
(* The DCS handler.                                                         *)

\* try_hook: control mode, XTGETTCAP ("+q") and DECRQSS ("$q").
Hooked(inter, params, b) ==
    CASE inter = <<>> /\ b = 112 /\ params = <<TmuxParam>> -> "tmux"
      [] inter = <<43>> /\ b = 113 -> "xtgettcap"
      [] inter = <<36>> /\ b = 113 -> "decrqss"
      [] OTHER -> "ignore"

Hook(d, inter, params, b) == [state |-> Hooked(inter, params, b), data |-> <<>>]

\* The bytes that name a setting (m, r, s, space, q) are the ones told apart.
Told(b) == IF b \in {109, 114, 115, 32, 113} THEN b ELSE 0

\* More than two bytes are not a setting; what is asked by XTGETTCAP, up to a
\* megabyte, is left out.
Put(d, b) ==
    IF d.state # "decrqss" THEN d
    ELSE IF Len(d.data) >= 2 THEN [d EXCEPT !.state = "ignore", !.data = <<>>]
    ELSE [d EXCEPT !.data = Append(@, Told(b))]

Setting(data) ==
    CASE data \in {<<109>>, <<114>>, <<115>>, <<32, 113>>} -> data [] OTHER -> <<>>

Unhooked(d) ==
    CASE d.state = "tmux" -> <<<<"tmux_exit">>>>
      [] d.state = "xtgettcap" -> <<<<"xtgettcap">>>>
      [] d.state = "decrqss" -> <<<<"decrqss", Setting(d.data)>>>>
      [] OTHER -> <<>>

-----------------------------------------------------------------------------
(* next_non_utf8: what the parser's actions call.                           *)

\* execute: an 8-bit control is ESC and a final, and some of C0 do nothing.
Execute(b) ==
    IF b > 127 THEN <<<<"esc", <<>>, b - 64>>>>
    ELSE IF b = 5 \/ b \in 7 .. 15 THEN <<<<"execute", b>>>> ELSE <<>>

Call(r, a) ==
    LET d == r.s.dcs
        to(dcs, calls) == Result([r.s EXCEPT !.dcs = dcs], r.calls \o calls)
    IN  CASE a[1] = "execute" -> to(d, Execute(a[2]))
          [] a[1] = "dcs_hook" ->
               LET new == Hook(d, a[2], a[3], a[4])
               IN  to(new, IF new.state = "tmux" THEN <<<<"tmux_enter">>>> ELSE <<>>)
          [] a[1] = "dcs_put" ->
               to(Put(d, a[2]), IF d.state = "tmux" THEN <<<<"tmux_put", a[2]>>>> ELSE <<>>)
          [] a[1] = "dcs_unhook" -> to(Idle, Unhooked(d))
          [] OTHER -> to(d, <<a>>)

Handled(p) == FoldLeft(Call, Result(p.s, <<>>), p.calls)
NextNonUtf8(s, b) == Handled(ParserNext(s, b))

-----------------------------------------------------------------------------
(* The UTF-8 decoder: Hoehrmann's classes and transitions.                  *)

Class(b) ==
    CASE b < 128 -> 0
      [] b \in 128 .. 143 -> 1
      [] b \in 144 .. 159 -> 9
      [] b \in 160 .. 191 -> 7
      [] b \in 194 .. 223 -> 2
      [] b = 224 -> 10
      [] b = 237 -> 4
      [] b \in (225 .. 239) \ {237} -> 3
      [] b = 240 -> 11
      [] b \in 241 .. 243 -> 6
      [] b = 244 -> 5
      [] OTHER -> 8

Accept == 0
Reject == 12

\* From a state, the classes that go on and the state they go to.
Dfa(state, c) ==
    CASE state = 0 ->
           (CASE c = 0 -> 0 [] c = 2 -> 24 [] c = 3 -> 36 [] c = 4 -> 60 [] c = 5 -> 96
              [] c = 6 -> 84 [] c = 10 -> 48 [] c = 11 -> 72 [] OTHER -> Reject)
      [] state = 24 /\ c \in {1, 7, 9} -> Accept
      [] state = 36 /\ c \in {1, 7, 9} -> 24
      [] state = 48 /\ c = 7 -> 24
      [] state = 60 /\ c \in {1, 9} -> 24
      [] state = 72 /\ c \in {7, 9} -> 36
      [] state = 84 /\ c \in {1, 7, 9} -> 36
      [] state = 96 /\ c = 1 -> 36
      [] OTHER -> Reject

Replacement == 65533
Partial(s) == s.dfa # Accept

LeadBits(b) == IF Class(b) > 8 THEN 0 ELSE b % 2 ^ (8 - Class(b))

\* Utf8Decoder::next: the code points made and whether the byte was taken.
Decoded(s, b) ==
    LET acc == IF Partial(s) THEN s.cp * 64 + (b % 64) ELSE LeadBits(b)
        to == Dfa(s.dfa, Class(b))
        at(dfa, cp) == [s EXCEPT !.dfa = dfa, !.cp = cp]
    IN  CASE to = Accept -> [s |-> at(Accept, 0), cps |-> <<acc>>, taken |-> TRUE]
          [] to = Reject -> [s |-> at(Accept, 0), cps |-> <<Replacement>>,
                             taken |-> ~Partial(s)]
          [] OTHER -> [s |-> at(to, acc), cps |-> <<>>, taken |-> TRUE]

(* Mutant of Codepoint: ESC on the ground sets the state and clears nothing. *)
CodepointNotCleared(r, cp) ==
    CASE cp <= 15 -> Result(r.s, r.calls \o Execute(cp))
      [] cp = ESC -> Result([r.s EXCEPT !.st = "escape"], r.calls)
      [] OTHER -> Result(r.s, Append(r.calls, <<"print", cp>>))

\* handle_codepoint
Codepoint(r, cp) ==
    CASE cp <= 15 -> Result(r.s, r.calls \o Execute(cp))
      [] cp = ESC -> Result(Cleared([r.s EXCEPT !.st = "escape"]), r.calls)
      [] OTHER -> Result(r.s, Append(r.calls, <<"print", cp>>))

\* next_utf8: a byte that was not taken is given again.
Shown(d, calls) == FoldLeft(Codepoint, Result(d.s, calls), d.cps)
DecodedAgain(r, b) == Shown(Decoded(r.s, b), r.calls)
Given(d, b) == IF d.taken THEN Shown(d, <<>>) ELSE DecodedAgain(Shown(d, <<>>), b)
NextUtf8(s, b) == Given(Decoded(s, b), b)

\* Stream::next
NextByte(s, b) == IF s.st = "ground" THEN NextUtf8(s, b) ELSE NextNonUtf8(s, b)

Then(r, b) == Also(r, NextByte(r.s, b))
NextAll(s, input) == FoldLeft(Then, Result(s, <<>>), input)

=============================================================================
