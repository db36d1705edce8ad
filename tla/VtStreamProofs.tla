--------------------------- MODULE VtStreamProofs ---------------------------
(***************************************************************************)
(* Proofs about the parser (VtParser) and the stream (VtStream), for any   *)
(* limits and any chunks of input: a byte leaves the registers within      *)
(* their bounds, a sequence that begins finds nothing of an earlier one in *)
(* them, the DCS handler is active only in a string passed through to it,  *)
(* the decoder makes only scalar values, and feed keeps all of it.         *)
(***************************************************************************)
EXTENDS VtStream, SequenceTheorems, TLAPS

(* A stream, by the types of its fields.                                   *)
Handlers == {"inactive", "tmux", "xtgettcap", "decrqss", "ignore"}
DcsStates == [state : Handlers, data : Seq(Nat)]
DfaStates == {0, 24, 36, 48, 60, 72, 84, 96}
Streams ==
    [st : States, inter : Seq(Nat), params : Seq(0 .. MaxValue),
     colons : SUBSET (0 .. MaxParams - 1), acc : 0 .. MaxValue,
     digits : 0 .. DigitWrap - 1, dfa : DfaStates, cp : Nat,
     dcs : DcsStates]

(* Parser::assert_bounded, with the types it rests on.                     *)
Bounded(s) ==
    /\ s \in Streams
    /\ Len(s.inter) <= MaxIntermediate
    /\ Len(s.params) <= MaxParams

(* What the parser's registers are not: the state, the decoder, the handler. *)
Kept(s, t) == t.st = s.st /\ t.dfa = s.dfa /\ t.cp = s.cp /\ t.dcs = s.dcs

(* The states that begin a sequence; the registers are clear in them.      *)
Beginnings == {"escape", "csi_entry", "dcs_entry"}
Fresh(s) == s.st \in Beginnings => s = Cleared(s)

(* What an edge of the table may ask for.                                  *)
Acts == {"none", "print", "execute", "collect", "param", "csi_dispatch",
         "esc_dispatch", "put", "osc_put", "apc_put"}
StateNames ==
    {"ground", "escape", "escape_intermediate", "csi_entry", "csi_param",
     "csi_intermediate", "csi_ignore", "dcs_entry", "dcs_param",
     "dcs_intermediate", "dcs_passthrough", "dcs_ignore", "osc_string",
     "sos_pm_apc_string"}

-----------------------------------------------------------------------------
(* The table.                                                              *)

LEMMA StatesNamed == States = StateNames
  BY DEF States, Rules, StateNames

(* A rule of a state leads to a state and asks for an action; one that     *)
(* stays in a beginning collects nothing, and the bytes of a parameter are *)
(* digits and separators.                                                  *)
GoodRule(st, r) ==
    /\ r[2] \in StateNames
    /\ r[3] \in Acts
    /\ st \in Beginnings /\ r[2] = st => r[3] \in {"none", "execute"}
    /\ r[3] = "param" => r[1] \subseteq Digits \union {Colon, Semicolon}

LEMMA RulesGood ==
    ASSUME NEW st \in StateNames, NEW r \in Rules[st]
    PROVE  GoodRule(st, r)
  <1> USE DEF GoodRule, StateNames, Acts, Beginnings
  <1>1. CASE st = "ground"
    BY <1>1 DEF Rules
  <1>2. CASE st = "escape"
    BY <1>2 DEF Rules
  <1>3. CASE st = "escape_intermediate"
    BY <1>3 DEF Rules
  <1>4. CASE st = "csi_entry"
    BY <1>4 DEF Rules
  <1>5. CASE st = "csi_param"
    BY <1>5 DEF Rules
  <1>6. CASE st = "csi_intermediate"
    BY <1>6 DEF Rules
  <1>7. CASE st = "csi_ignore"
    BY <1>7 DEF Rules
  <1>8. CASE st = "dcs_entry"
    BY <1>8 DEF Rules
  <1>9. CASE st = "dcs_param"
    BY <1>9 DEF Rules
  <1>10. CASE st = "dcs_intermediate"
    BY <1>10 DEF Rules
  <1>11. CASE st = "dcs_passthrough"
    BY <1>11 DEF Rules
  <1>12. CASE st = "dcs_ignore"
    BY <1>12 DEF Rules
  <1>13. CASE st = "osc_string"
    BY <1>13 DEF Rules
  <1>14. CASE st = "sos_pm_apc_string"
    BY <1>14 DEF Rules
  <1> QED
    BY <1>1, <1>2, <1>3, <1>4, <1>5, <1>6, <1>7, <1>8, <1>9, <1>10, <1>11,
       <1>12, <1>13, <1>14

LEMMA AnywhereGood ==
    ASSUME NEW st \in StateNames, NEW r \in Anywhere(st)
    PROVE  GoodRule(st, r)
  BY DEF Anywhere, GoodRule, StateNames, Acts, Beginnings

(* So does every edge of the table.                                        *)
LEMMA EdgeGood ==
    ASSUME NEW b \in Bytes, NEW st \in States
    PROVE  /\ Table[b][st].to \in StateNames
           /\ Table[b][st].do \in Acts
           /\ st \in Beginnings /\ Table[b][st].to = st =>
                Table[b][st].do \in {"none", "execute"}
           /\ Table[b][st].do = "param" => b \in Digits \union {Colon, Semicolon}
  <1> DEFINE here == { r \in Rules[st] : b \in r[1] }
             any == { r \in Anywhere(st) : b \in r[1] }
             rule == IF here # {} THEN CHOOSE r \in here : TRUE
                     ELSE IF any # {} THEN CHOOSE r \in any : TRUE
                     ELSE <<{b}, st, "none">>
  <1>1. st \in StateNames
    BY StatesNamed
  <1>2. GoodRule(st, rule) /\ b \in rule[1]
    <2>1. CASE here # {}
      <3>1. rule \in here
        BY <2>1
      <3> QED BY <1>1, <3>1, RulesGood
    <2>2. CASE here = {} /\ any # {}
      <3>1. rule \in any
        BY <2>2
      <3> QED BY <1>1, <3>1, AnywhereGood
    <2>3. CASE here = {} /\ any = {}
      <3>1. rule = <<{b}, st, "none">>
        BY <2>3
      <3> QED BY <1>1, <3>1 DEF GoodRule, Acts
    <2> QED BY <2>1, <2>2, <2>3
  <1>3. Table[b][st] = [to |-> rule[2], do |-> rule[3]]
    BY DEF Table
  <1> HIDE DEF rule
  <1> QED BY <1>2, <1>3 DEF GoodRule

-----------------------------------------------------------------------------
(* The registers, helper by helper.                                        *)

LEMMA ClearedBounded ==
    ASSUME NEW s, Bounded(s)
    PROVE  /\ Bounded(Cleared(s))
           /\ Kept(s, Cleared(s))
           /\ Cleared(Cleared(s)) = Cleared(s)
  <1>1. <<>> \in Seq(Nat) /\ <<>> \in Seq(0 .. MaxValue) /\ Len(<<>>) = 0
    OBVIOUS
  <1>2. 0 \in 0 .. MaxValue /\ 0 \in 0 .. DigitWrap - 1 /\ 0 <= MaxIntermediate
        /\ 0 <= MaxParams /\ {} \in SUBSET (0 .. MaxParams - 1)
    BY LimitAssumption
  <1>3. s \in Streams
    BY DEF Bounded
  <1>4. Cleared(s) \in Streams /\ Kept(s, Cleared(s))
        /\ Cleared(s).inter = <<>> /\ Cleared(s).params = <<>>
    BY <1>1, <1>2, <1>3 DEF Streams, Cleared, Kept
  <1>5. Cleared(Cleared(s)) = Cleared(s)
    BY <1>3 DEF Streams, Cleared
  <1> QED BY <1>1, <1>2, <1>4, <1>5 DEF Bounded

LEMMA CollectBounded ==
    ASSUME NEW s, Bounded(s), NEW b \in Bytes
    PROVE  Bounded(Collect(s, b)) /\ Kept(s, Collect(s, b))
  <1>1. b \in Nat
    BY ByteAssumption
  <1>2. CASE Len(s.inter) >= MaxIntermediate
    BY <1>2 DEF Collect, Kept
  <1>3. CASE ~(Len(s.inter) >= MaxIntermediate)
    <2>1. Collect(s, b) = [s EXCEPT !.inter = Append(s.inter, b)]
      BY <1>3 DEF Collect
    <2>2. s.inter \in Seq(Nat) /\ Len(s.inter) < MaxIntermediate
      BY <1>3, LimitAssumption DEF Bounded, Streams
    <2>3. Append(s.inter, b) \in Seq(Nat) /\ Len(Append(s.inter, b)) = Len(s.inter) + 1
      BY <1>1, <2>2
    <2>4. Len(s.inter) + 1 <= MaxIntermediate
      BY <2>2, LimitAssumption
    <2> QED BY <2>1, <2>3, <2>4 DEF Bounded, Streams, Kept
  <1> QED BY <1>2, <1>3

(* A parameter saturates.                                                  *)
LEMMA WithDigitBounded ==
    ASSUME NEW acc \in 0 .. MaxValue, NEW b \in 48 .. 57
    PROVE  WithDigit(acc, b) \in 0 .. MaxValue
  <1>1. Saturated(acc * 10) \in 0 .. MaxValue
    BY LimitAssumption DEF Saturated
  <1> QED BY <1>1, LimitAssumption DEF Saturated, WithDigit

(* One more parameter is stored only when there is room.                   *)
LEMMA RoomForParam ==
    ASSUME NEW s, Bounded(s), ~ParamsFull(s)
    PROVE  /\ Append(s.params, s.acc) \in Seq(0 .. MaxValue)
           /\ Len(Append(s.params, s.acc)) <= MaxParams
           /\ Len(s.params) \in 0 .. MaxParams - 1
  <1>1. s.params \in Seq(0 .. MaxValue) /\ s.acc \in 0 .. MaxValue
    BY DEF Bounded, Streams
  <1>2. Len(s.params) \in Nat /\ Len(s.params) < MaxParams
    BY <1>1, LimitAssumption DEF ParamsFull
  <1> QED BY <1>1, <1>2, LimitAssumption

LEMMA SeparatedBounded ==
    ASSUME NEW s, Bounded(s), NEW b
    PROVE  Bounded(Separated(s, b)) /\ Kept(s, Separated(s, b))
  <1>1. CASE ParamsFull(s)
    BY <1>1 DEF Separated, Kept
  <1>2. CASE ~ParamsFull(s)
    <2> DEFINE marked == IF b = Colon THEN s.colons \union {Len(s.params)} ELSE s.colons
    <2>1. Separated(s, b) = [s EXCEPT !.params = Append(s.params, s.acc),
                                      !.colons = marked, !.acc = 0, !.digits = 0]
      BY <1>2 DEF Separated
    <2>2. marked \in SUBSET (0 .. MaxParams - 1)
      BY <1>2, RoomForParam DEF Bounded, Streams
    <2>3. 0 \in 0 .. MaxValue /\ 0 \in 0 .. DigitWrap - 1
      BY LimitAssumption
    <2>4. Append(s.params, s.acc) \in Seq(0 .. MaxValue)
          /\ Len(Append(s.params, s.acc)) <= MaxParams
      BY <1>2, RoomForParam
    <2>5. s \in Streams /\ Len(s.inter) <= MaxIntermediate
      BY DEF Bounded
    <2> HIDE DEF marked
    <2>6. Separated(s, b) \in Streams /\ Kept(s, Separated(s, b))
      BY <2>1, <2>2, <2>3, <2>4, <2>5 DEF Streams, Kept
    <2>7. Separated(s, b).inter = s.inter
          /\ Separated(s, b).params = Append(s.params, s.acc)
      BY <2>1, <2>5 DEF Streams
    <2> QED BY <2>4, <2>5, <2>6, <2>7 DEF Bounded
  <1> QED BY <1>1, <1>2

LEMMA ParamBounded ==
    ASSUME NEW s, Bounded(s), NEW b \in Digits \union {Colon, Semicolon}
    PROVE  Bounded(Param(s, b)) /\ Kept(s, Param(s, b))
  <1>1. CASE b \in {Colon, Semicolon}
    BY <1>1, SeparatedBounded DEF Param
  <1>2. CASE b \notin {Colon, Semicolon}
    <2>1. b \in 48 .. 57
      BY <1>2 DEF Digits
    <2>2. WithDigit(s.acc, b) \in 0 .. MaxValue
      BY <2>1, WithDigitBounded DEF Bounded, Streams
    <2>3. (s.digits + 1) % DigitWrap \in 0 .. DigitWrap - 1
      BY LimitAssumption DEF Bounded, Streams
    <2>4. Param(s, b) = [s EXCEPT !.acc = WithDigit(s.acc, b),
                                  !.digits = (s.digits + 1) % DigitWrap]
      BY <1>2 DEF Param
    <2> QED BY <2>2, <2>3, <2>4 DEF Bounded, Streams, Kept
  <1> QED BY <1>1, <1>2

LEMMA FinalizedBounded ==
    ASSUME NEW s, Bounded(s), ~ParamsFull(s)
    PROVE  Bounded(Finalized(s)) /\ Kept(s, Finalized(s))
  BY RoomForParam DEF Bounded, Streams, Finalized, Kept

-----------------------------------------------------------------------------
(* The parts of a transition.  Each leaves the state to Transition, which  *)
(* sets it.                                                                *)

LEMMA CsiDispatchBounded ==
    ASSUME NEW s, Bounded(s), NEW b
    PROVE  Bounded(CsiDispatch(s, b).s) /\ Kept(s, CsiDispatch(s, b).s)
  <1>1. CASE ParamsFull(s)
    BY <1>1 DEF CsiDispatch, Result, Kept
  <1>2. CASE ~ParamsFull(s)
    <2>1. CsiDispatch(s, b).s = Finalized(s)
      BY <1>2 DEF CsiDispatch, Result
    <2> QED BY <1>2, <2>1, FinalizedBounded
  <1> QED BY <1>1, <1>2

LEMMA ActBounded ==
    ASSUME NEW s, Bounded(s), NEW b \in Bytes, NEW do \in Acts,
           do = "param" => b \in Digits \union {Colon, Semicolon}
    PROVE  Bounded(Act(s, do, b).s) /\ Kept(s, Act(s, do, b).s)
  <1>1. CASE do = "collect"
    BY <1>1, CollectBounded DEF Act, Result
  <1>2. CASE do = "param"
    BY <1>2, ParamBounded DEF Act, Result
  <1>3. CASE do = "csi_dispatch"
    BY <1>3, CsiDispatchBounded DEF Act
  <1>4. CASE do \notin {"collect", "param", "csi_dispatch"}
    <2>1. Act(s, do, b).s = s
      BY <1>4 DEF Act, Result, Acts
    <2> QED BY <2>1 DEF Kept
  <1> QED BY <1>1, <1>2, <1>3, <1>4

(* An action that prints, executes or does nothing touches no register.    *)
LEMMA ActIdle ==
    ASSUME NEW s, NEW b, NEW do \in {"none", "execute"}
    PROVE  Act(s, do, b).s = s
  BY DEF Act, Result

LEMMA EntryBounded ==
    ASSUME NEW s, Bounded(s), NEW to \in StateNames, NEW b
    PROVE  /\ Bounded(Entry(s, to, b).s)
           /\ Kept(s, Entry(s, to, b).s)
           /\ to \in Beginnings => Entry(s, to, b).s = Cleared(s)
  <1>1. CASE to \in Beginnings
    <2>1. Entry(s, to, b).s = Cleared(s)
      BY <1>1 DEF Entry, Result, Beginnings
    <2> QED BY <2>1, ClearedBounded
  <1>2. CASE to = "dcs_passthrough"
    <2>1. to \notin Beginnings
      BY <1>2 DEF Beginnings
    <2>2. Entry(s, to, b).s = IF ParamsFull(s) THEN s ELSE Finalized(s)
      BY <1>2 DEF Entry, Result
    <2> QED BY <2>1, <2>2, FinalizedBounded DEF Kept
  <1>3. CASE to \notin Beginnings /\ to # "dcs_passthrough"
    <2>1. Entry(s, to, b).s = s
      BY <1>3 DEF Entry, Result, Beginnings
    <2> QED BY <1>3, <2>1 DEF Kept
  <1> QED BY <1>1, <1>2, <1>3

(* A transition to another state: the action, the entry, the new state.    *)
LEMMA TransitionLeaves ==
    ASSUME NEW s, NEW b, NEW edge, edge.to # s.st
    PROVE  Transition(s, b, edge).s =
             [Entry(Act(s, edge.do, b).s, edge.to, b).s EXCEPT !.st = edge.to]
  BY DEF Transition, At, Enter, Also, Result

(* The state of a stream may change without its registers.                 *)
LEMMA AtBounded ==
    ASSUME NEW s, Bounded(s), NEW st \in StateNames
    PROVE  /\ Bounded([s EXCEPT !.st = st])
           /\ [s EXCEPT !.st = st].st = st
           /\ s = Cleared(s) => [s EXCEPT !.st = st] = Cleared([s EXCEPT !.st = st])
  <1>1. st \in States /\ s \in Streams
    BY StatesNamed DEF Bounded
  <1>2. [s EXCEPT !.st = st] \in Streams /\ [s EXCEPT !.st = st].st = st
        /\ [s EXCEPT !.st = st].inter = s.inter /\ [s EXCEPT !.st = st].params = s.params
    BY <1>1 DEF Streams
  <1>3. ASSUME s = Cleared(s) PROVE [s EXCEPT !.st = st] = Cleared([s EXCEPT !.st = st])
    <2>1. s.inter = <<>> /\ s.params = <<>> /\ s.colons = {} /\ s.acc = 0 /\ s.digits = 0
      BY <1>1, <1>3 DEF Streams, Cleared
    <2> QED BY <1>1, <2>1 DEF Streams, Cleared
  <1> QED BY <1>2, <1>3 DEF Bounded

-----------------------------------------------------------------------------
(* A new stream is bounded, and no sequence has begun in it.               *)
LEMMA StartBounded == Bounded(NewStream) /\ Fresh(NewStream)
  <1>1. "ground" \in States
    BY StatesNamed DEF StateNames
  <1>2. 0 \in 0 .. MaxValue /\ 0 \in 0 .. DigitWrap - 1 /\ 0 <= MaxIntermediate
        /\ 0 <= MaxParams /\ {} \in SUBSET (0 .. MaxParams - 1)
    BY LimitAssumption
  <1>3. NewStream \in Streams /\ NewStream.inter = <<>> /\ NewStream.params = <<>>
    BY <1>1, <1>2 DEF NewStream, Streams, Idle, Handlers, DcsStates, DfaStates
  <1> QED BY <1>2, <1>3 DEF Bounded, Fresh, Beginnings, NewStream

(* Whatever the byte, the registers keep their bounds and types: what      *)
(* Parser::assert_bounded says, for any limits on them.                    *)
THEOREM NextBounded ==
    ASSUME NEW s, Bounded(s), NEW b \in Bytes
    PROVE  Bounded(ParserNext(s, b).s)
  <1> DEFINE edge == Table[b][s.st]
  <1>1. s.st \in States
    BY DEF Bounded, Streams
  <1>2. /\ edge.to \in StateNames /\ edge.do \in Acts
        /\ edge.do = "param" => b \in Digits \union {Colon, Semicolon}
    BY <1>1, EdgeGood
  <1> HIDE DEF edge
  <1>3. Bounded(Act(s, edge.do, b).s) /\ Kept(s, Act(s, edge.do, b).s)
    BY <1>2, ActBounded
  <1>4. CASE edge.to = s.st
    <2>1. Transition(s, b, edge).s = Act(s, edge.do, b).s
      BY <1>4 DEF Transition
    <2> QED BY <1>3, <2>1 DEF ParserNext, edge
  <1>5. CASE edge.to # s.st
    <2> DEFINE acted == Act(s, edge.do, b).s
               entered == Entry(acted, edge.to, b).s
    <2>1. Bounded(entered) /\ (edge.to \in Beginnings => entered = Cleared(acted))
      BY <1>2, <1>3, EntryBounded
    <2>2. Transition(s, b, edge).s = [entered EXCEPT !.st = edge.to]
      BY <1>5, TransitionLeaves
    <2> HIDE DEF entered, acted
    <2>3. Bounded([entered EXCEPT !.st = edge.to])
          /\ [entered EXCEPT !.st = edge.to].st = edge.to
      BY <1>2, <2>1, AtBounded
    <2> QED BY <2>2, <2>3 DEF ParserNext, edge
  <1> QED BY <1>4, <1>5

(* Nothing of an earlier sequence is left when one begins, and as long as  *)
(* nothing but controls comes: what the fast path for "ESC [" relies on.   *)
THEOREM NextFresh ==
    ASSUME NEW s, Bounded(s), Fresh(s), NEW b \in Bytes
    PROVE  Fresh(ParserNext(s, b).s)
  <1> DEFINE edge == Table[b][s.st]
  <1>1. s.st \in States
    BY DEF Bounded, Streams
  <1>2. /\ edge.to \in StateNames /\ edge.do \in Acts
        /\ edge.do = "param" => b \in Digits \union {Colon, Semicolon}
        /\ s.st \in Beginnings /\ edge.to = s.st => edge.do \in {"none", "execute"}
    BY <1>1, EdgeGood
  <1> HIDE DEF edge
  <1>3. Bounded(Act(s, edge.do, b).s) /\ Kept(s, Act(s, edge.do, b).s)
    BY <1>2, ActBounded
  <1>4. CASE edge.to = s.st
    <2>1. Transition(s, b, edge).s = Act(s, edge.do, b).s
      BY <1>4 DEF Transition
    <2>2. CASE s.st \in Beginnings
      <3>1. Transition(s, b, edge).s = s
        BY <1>2, <1>4, <2>1, <2>2, ActIdle
      <3> QED BY <3>1 DEF ParserNext, edge
    <2>3. CASE s.st \notin Beginnings
      BY <1>3, <2>1, <2>3 DEF Fresh, ParserNext, edge, Kept
    <2> QED BY <2>2, <2>3
  <1>5. CASE edge.to # s.st
    <2> DEFINE acted == Act(s, edge.do, b).s
               entered == Entry(acted, edge.to, b).s
    <2>1. Bounded(entered) /\ (edge.to \in Beginnings => entered = Cleared(acted))
      BY <1>2, <1>3, EntryBounded
    <2>2. Cleared(Cleared(acted)) = Cleared(acted)
      BY <1>3, ClearedBounded
    <2>3. Transition(s, b, edge).s = [entered EXCEPT !.st = edge.to]
      BY <1>5, TransitionLeaves
    <2> HIDE DEF entered, acted
    <2>4. [entered EXCEPT !.st = edge.to].st = edge.to
      BY <1>2, <2>1, AtBounded
    <2>5. edge.to \in Beginnings =>
            [entered EXCEPT !.st = edge.to] = Cleared([entered EXCEPT !.st = edge.to])
      BY <1>2, <2>1, <2>2, AtBounded
    <2>6. Fresh(Transition(s, b, edge).s)
      BY <2>3, <2>4, <2>5 DEF Fresh
    <2> QED BY <2>6 DEF ParserNext, edge
  <1> QED BY <1>4, <1>5

-----------------------------------------------------------------------------
(* The calls of a transition.  Only entering a passed-through string hooks *)
(* the DCS handler.                                                        *)
Plain ==
    ({"print", "execute", "dcs_put", "osc_put", "apc_put", "osc_end"} \X Nat)
    \union {<<op>> : op \in {"dcs_unhook", "apc_end", "osc_start", "apc_start"}}
    \union ({"esc"} \X Seq(Nat) \X Nat)
    \union ({"csi"} \X Seq(Nat) \X Seq(0 .. MaxValue)
            \X (SUBSET (0 .. MaxParams - 1)) \X Nat)
Hooks == {"dcs_hook"} \X Seq(Nat) \X Seq(0 .. MaxValue) \X Nat

LEMMA PlainIsNoHook == \A a \in Plain : a[1] # "dcs_hook"
  BY DEF Plain

LEMMA ExitPlain ==
    ASSUME NEW st, NEW b \in Bytes
    PROVE  Exit(st, b) \in Seq(Plain)
  <1>1. b \in Nat
    BY ByteAssumption
  <1>2. <<"osc_end", b>> \in Plain /\ <<"dcs_unhook">> \in Plain /\ <<"apc_end">> \in Plain
    BY <1>1 DEF Plain
  <1> HIDE DEF Plain
  <1> QED BY <1>2 DEF Exit

LEMMA CsiPlain ==
    ASSUME NEW s, Bounded(s), NEW b \in Bytes
    PROVE  CsiDispatch(s, b).calls \in Seq(Plain)
  <1>1. CASE ParamsFull(s)
    BY <1>1 DEF CsiDispatch, Result
  <1>2. CASE ~ParamsFull(s)
    <2> DEFINE t == Finalized(s)
    <2>1. Bounded(t)
      BY <1>2, FinalizedBounded
    <2>2. CsiDispatch(s, b).calls \in {<<>>, <<Csi(t, b)>>}
      BY <1>2 DEF CsiDispatch, Result
    <2> HIDE DEF t
    <2>3. Csi(t, b) \in Plain
      <3>1. /\ t.inter \in Seq(Nat) /\ t.params \in Seq(0 .. MaxValue)
            /\ t.colons \in SUBSET (0 .. MaxParams - 1) /\ b \in Nat
        BY <2>1, ByteAssumption DEF Bounded, Streams
      <3> QED BY <3>1 DEF Csi, Plain
    <2>4. <<Csi(t, b)>> \in Seq(Plain) /\ <<>> \in Seq(Plain)
      BY <2>3
    <2> QED BY <2>2, <2>4
  <1> QED BY <1>1, <1>2

LEMMA ActPlain ==
    ASSUME NEW s, Bounded(s), NEW b \in Bytes, NEW do \in Acts
    PROVE  Act(s, do, b).calls \in Seq(Plain)
  <1>1. b \in Nat /\ <<>> \in Seq(Plain)
    BY ByteAssumption
  <1>2. CASE do \in {"print", "execute"}
    <2>1. <<do, b>> \in Plain
      BY <1>1, <1>2 DEF Plain
    <2>2. Act(s, do, b).calls = <<<<do, b>>>>
      BY <1>2 DEF Act, Result
    <2> QED BY <2>1, <2>2
  <1>3. CASE do = "put"
    <2>1. <<"dcs_put", b>> \in Plain
      BY <1>1 DEF Plain
    <2>2. Act(s, do, b).calls = <<<<"dcs_put", b>>>>
      BY <1>3 DEF Act, Result
    <2> QED BY <2>1, <2>2
  <1>4. CASE do \in {"osc_put", "apc_put"}
    <2>1. <<do, b>> \in Plain
      BY <1>1, <1>4 DEF Plain
    <2>2. Act(s, do, b).calls = <<<<do, b>>>>
      BY <1>4 DEF Act, Result
    <2> QED BY <2>1, <2>2
  <1>5. CASE do = "esc_dispatch"
    <2>1. <<"esc", s.inter, b>> \in Plain
      BY <1>1 DEF Plain, Bounded, Streams
    <2>2. Act(s, do, b).calls = <<<<"esc", s.inter, b>>>>
      BY <1>5 DEF Act, Result
    <2> QED BY <2>1, <2>2
  <1>6. CASE do = "csi_dispatch"
    BY <1>6, CsiPlain DEF Act
  <1>7. CASE do \in {"none", "collect", "param"}
    BY <1>1, <1>7 DEF Act, Result
  <1> QED BY <1>2, <1>3, <1>4, <1>5, <1>6, <1>7 DEF Acts

LEMMA EntryCalls ==
    ASSUME NEW s, Bounded(s), NEW to, NEW b \in Bytes
    PROVE  /\ Entry(s, to, b).calls \in Seq(Plain \union Hooks)
           /\ to # "dcs_passthrough" => Entry(s, to, b).calls \in Seq(Plain)
  <1>1. b \in Nat /\ <<>> \in Seq(Plain) /\ <<>> \in Seq(Plain \union Hooks)
    BY ByteAssumption
  <1>2. <<"osc_start">> \in Plain /\ <<"apc_start">> \in Plain
    BY DEF Plain
  <1>3. CASE to = "dcs_passthrough"
    <2> DEFINE t == Finalized(s)
    <2>1. CASE ParamsFull(s)
      BY <1>1, <1>3, <2>1 DEF Entry, Result
    <2>2. CASE ~ParamsFull(s)
      <3>1. Bounded(t)
        BY <2>2, FinalizedBounded
      <3>2. Entry(s, to, b).calls = <<<<"dcs_hook", t.inter, t.params, b>>>>
        BY <1>3, <2>2 DEF Entry, Result
      <3> HIDE DEF t
      <3>3. t.inter \in Seq(Nat) /\ t.params \in Seq(0 .. MaxValue)
        BY <3>1 DEF Bounded, Streams
      <3>4. <<"dcs_hook", t.inter, t.params, b>> \in Plain \union Hooks
        BY <1>1, <3>3 DEF Hooks
      <3>5. <<<<"dcs_hook", t.inter, t.params, b>>>> \in Seq(Plain \union Hooks)
        BY <3>4
      <3> QED BY <1>3, <3>2, <3>5
    <2> QED BY <2>1, <2>2
  <1>4. CASE to # "dcs_passthrough"
    <2>1. Entry(s, to, b).calls \in {<<>>, <<<<"osc_start">>>>, <<<<"apc_start">>>>}
      BY <1>4 DEF Entry, Result
    <2>2. /\ <<<<"osc_start">>>> \in Seq(Plain) /\ <<<<"apc_start">>>> \in Seq(Plain)
          /\ <<<<"osc_start">>>> \in Seq(Plain \union Hooks)
          /\ <<<<"apc_start">>>> \in Seq(Plain \union Hooks)
      BY <1>2
    <2> QED BY <1>1, <2>1, <2>2
  <1> QED BY <1>3, <1>4

-----------------------------------------------------------------------------
(* Calls come in sequences.                                                *)
Listed(calls) == \E D : calls \in Seq(D)

LEMMA FewListed == Listed(<<>>) /\ \A a : Listed(<<a>>)
  <1>1. <<>> \in Seq({})
    OBVIOUS
  <1>2. \A a : <<a>> \in Seq({a})
    OBVIOUS
  <1> QED BY <1>1, <1>2 DEF Listed

LEMMA BothListed ==
    ASSUME NEW f, Listed(f), NEW g, Listed(g)
    PROVE  Listed(f \o g) /\ f \o <<>> = f /\ <<>> \o f = f
  <1>1. PICK D : f \in Seq(D)
    BY DEF Listed
  <1>2. PICK E : g \in Seq(E)
    BY DEF Listed
  <1>3. f \in Seq(D \union E) /\ g \in Seq(D \union E)
    BY <1>1, <1>2
  <1>4. f \o g \in Seq(D \union E)
    BY <1>3
  <1>5. f \o <<>> = f /\ <<>> \o f = f
    BY <1>1
  <1> QED BY <1>4, <1>5 DEF Listed

(* The calls change nothing of the stream but the DCS handler, and only a  *)
(* hook makes it active.                                                   *)
HandlerOnly(c, r) ==
    /\ Listed(r.calls)
    /\ r.s.dcs \in DcsStates
    /\ r.s = [c[1] EXCEPT !.dcs = r.s.dcs]
    /\ c[2] => r.s.dcs.state = "inactive"

Calls == INSTANCE FoldFacts WITH Step <- Call, Inv <- HandlerOnly

LEMMA HandledFolds == \A base, calls : FoldLeft(Call, base, calls) = Calls!Fold(base, calls)
  BY Zenon DEF FoldLeft, Calls!FoldLeft, MapThenFoldSet, Calls!MapThenFoldSet,
     Max, Calls!Max, Calls!Fold

LEMMA PutTyped ==
    ASSUME NEW d \in DcsStates, NEW b
    PROVE  Put(d, b) \in DcsStates /\ (d.state = "inactive" => Put(d, b) = d)
  <1>1. d.state \in Handlers /\ d.data \in Seq(Nat) /\ d = [state |-> d.state, data |-> d.data]
    BY DEF DcsStates
  <1>2. Told(b) \in Nat
    BY DEF Told
  <1>3. Append(d.data, Told(b)) \in Seq(Nat)
    BY <1>1, <1>2
  <1>4. "ignore" \in Handlers /\ <<>> \in Seq(Nat)
    BY DEF Handlers
  <1> QED BY <1>1, <1>3, <1>4 DEF Put, DcsStates

LEMMA CallListed ==
    ASSUME NEW r, Listed(r.calls), NEW a
    PROVE  Listed(Call(r, a).calls)
  <1> DEFINE calls == Call(r, a).calls
  <1>1. \A b : Listed(Execute(b))
    BY FewListed DEF Execute
  <1>2. \A d : Listed(Unhooked(d))
    BY FewListed DEF Unhooked
  <1>3. \E new : Listed(new) /\ calls = r.calls \o new
    <2>1. CASE a[1] = "execute"
      <3>1. calls = r.calls \o Execute(a[2])
        BY <2>1 DEF Call, Result
      <3> QED BY <1>1, <3>1
    <2>2. CASE a[1] = "dcs_unhook"
      <3>1. calls = r.calls \o Unhooked(r.s.dcs)
        BY <2>2 DEF Call, Result
      <3> QED BY <1>2, <3>1
    <2>3. CASE a[1] = "dcs_hook"
      <3>1. \/ calls = r.calls \o <<<<"tmux_enter">>>>
            \/ calls = r.calls \o <<>>
        BY <2>3 DEF Call, Result
      <3> QED BY <3>1, FewListed
    <2>4. CASE a[1] = "dcs_put"
      <3>1. \/ calls = r.calls \o <<<<"tmux_put", a[2]>>>>
            \/ calls = r.calls \o <<>>
        BY <2>4 DEF Call, Result
      <3> QED BY <3>1, FewListed
    <2>5. CASE a[1] \notin {"execute", "dcs_unhook", "dcs_hook", "dcs_put"}
      <3>1. calls = r.calls \o <<a>>
        BY <2>5 DEF Call, Result
      <3> QED BY <3>1, FewListed
    <2> QED BY <2>1, <2>2, <2>3, <2>4, <2>5
  <1> HIDE DEF calls
  <1>4. Listed(calls)
    BY <1>3, BothListed
  <1> QED BY <1>4 DEF calls

LEMMA CallHandlerOnly ==
    ASSUME NEW s \in Streams, NEW idle \in BOOLEAN, NEW r, HandlerOnly(<<s, idle>>, r),
           NEW a, idle => a[1] # "dcs_hook"
    PROVE  HandlerOnly(<<s, idle>>, Call(r, a))
  <1> DEFINE d == r.s.dcs
             t == Call(r, a).s
  <1>1. d \in DcsStates /\ r.s = [s EXCEPT !.dcs = d] /\ (idle => d.state = "inactive")
    BY DEF HandlerOnly
  <1>2. \A e : [r.s EXCEPT !.dcs = e] = [s EXCEPT !.dcs = e]
               /\ [s EXCEPT !.dcs = e].dcs = e
    BY <1>1 DEF Streams
  <1>3. \E e \in DcsStates : /\ t = [r.s EXCEPT !.dcs = e]
                             /\ idle => e.state = "inactive"
    <2>1. CASE a[1] = "dcs_hook"
      <3>1. Hook(d, a[2], a[3], a[4]) \in DcsStates
        BY DEF Hook, Hooked, DcsStates, Handlers
      <3>2. t = [r.s EXCEPT !.dcs = Hook(d, a[2], a[3], a[4])]
        BY <2>1 DEF Call, Result
      <3> QED BY <2>1, <3>1, <3>2
    <2>2. CASE a[1] = "dcs_put"
      <3>1. Put(d, a[2]) \in DcsStates /\ (d.state = "inactive" => Put(d, a[2]) = d)
        BY <1>1, PutTyped
      <3>2. t = [r.s EXCEPT !.dcs = Put(d, a[2])]
        BY <2>2 DEF Call, Result
      <3> QED BY <1>1, <3>1, <3>2
    <2>3. CASE a[1] = "dcs_unhook"
      <3>1. Idle \in DcsStates /\ Idle.state = "inactive"
        BY DEF Idle, DcsStates, Handlers
      <3>2. t = [r.s EXCEPT !.dcs = Idle]
        BY <2>3 DEF Call, Result
      <3> QED BY <3>1, <3>2
    <2>4. CASE a[1] \notin {"dcs_hook", "dcs_put", "dcs_unhook"}
      <3>1. t = [r.s EXCEPT !.dcs = d]
        BY <2>4 DEF Call, Result
      <3> QED BY <1>1, <3>1
    <2> QED BY <2>1, <2>2, <2>3, <2>4
  <1>4. Listed(Call(r, a).calls)
    BY CallListed DEF HandlerOnly
  <1> HIDE DEF t, d
  <1>5. HandlerOnly(<<s, idle>>, Call(r, a))
    BY <1>2, <1>3, <1>4 DEF HandlerOnly, t
  <1> QED BY <1>5

(* A call leaves the registers alone.                                      *)
LEMMA HandledOnly ==
    ASSUME NEW p, p.s \in Streams, NEW idle \in BOOLEAN, NEW base, HandlerOnly(<<p.s, idle>>, base),
           NEW D, NEW calls \in Seq(D), idle => \A a \in D : a[1] # "dcs_hook"
    PROVE  HandlerOnly(<<p.s, idle>>, FoldLeft(Call, base, calls))
  <1>1. \A r : \A a \in D :
          HandlerOnly(<<p.s, idle>>, r) => HandlerOnly(<<p.s, idle>>, Call(r, a))
    BY CallHandlerOnly
  <1>2. HandlerOnly(<<p.s, idle>>, Calls!Fold(base, calls))
    BY <1>1, Calls!FoldKeeps
  <1> QED BY <1>2, HandledFolds

LEMMA Associates ==
    ASSUME NEW D, NEW f \in Seq(D), NEW g \in Seq(D), NEW h \in Seq(D)
    PROVE  (f \o g) \o h = f \o (g \o h)
  OBVIOUS

(* What a transition makes of the rest of the stream, and its calls.       *)
LEMMA TransitionParts ==
    ASSUME NEW s, Bounded(s), NEW b \in Bytes, NEW p, p = ParserNext(s, b)
    PROVE  /\ p.s.dfa = s.dfa /\ p.s.cp = s.cp /\ p.s.dcs = s.dcs
           /\ p.calls \in Seq(Plain \union Hooks)
           /\ p.s.st = s.st \/ p.s.st # "dcs_passthrough" => p.calls \in Seq(Plain)
           /\ s.st = "dcs_passthrough" /\ p.s.st # s.st =>
                \E rest \in Seq(Plain) : p.calls = <<<<"dcs_unhook">>>> \o rest
  <1> DEFINE edge == Table[b][s.st]
  <1>1. s.st \in States
    BY DEF Bounded, Streams
  <1>2. /\ edge.to \in StateNames /\ edge.do \in Acts
        /\ edge.do = "param" => b \in Digits \union {Colon, Semicolon}
    BY <1>1, EdgeGood
  <1> HIDE DEF edge
  <1> DEFINE acted == Act(s, edge.do, b)
  <1>3. Bounded(acted.s) /\ Kept(s, acted.s) /\ acted.calls \in Seq(Plain)
    BY <1>2, ActBounded, ActPlain
  <1>4. p = Transition(s, b, edge)
    BY DEF ParserNext, edge
  <1>5. Seq(Plain) \subseteq Seq(Plain \union Hooks)
    OBVIOUS
  <1>6. CASE edge.to = s.st
    <2>1. p = acted
      BY <1>4, <1>6 DEF Transition
    <2> HIDE DEF acted
    <2> QED BY <1>3, <1>5, <2>1 DEF Kept
  <1>7. CASE edge.to # s.st
    <2> DEFINE entered == Entry(acted.s, edge.to, b)
               exit == Exit(s.st, b)
    <2>1. /\ entered.calls \in Seq(Plain \union Hooks)
          /\ edge.to # "dcs_passthrough" => entered.calls \in Seq(Plain)
      BY <1>3, EntryCalls
    <2>2. Bounded(entered.s) /\ Kept(acted.s, entered.s)
      BY <1>2, <1>3, EntryBounded
    <2>3. exit \in Seq(Plain) /\ (s.st = "dcs_passthrough" => exit = <<<<"dcs_unhook">>>>)
      BY ExitPlain DEF Exit
    <2>4. /\ p.s = [entered.s EXCEPT !.st = edge.to]
          /\ p.calls = (exit \o acted.calls) \o entered.calls
      BY <1>4, <1>7 DEF Transition, At, Enter, Also, Result
    <2> HIDE DEF acted, entered, exit
    <2>5. /\ p.s.st = edge.to /\ p.s.dfa = s.dfa /\ p.s.cp = s.cp /\ p.s.dcs = s.dcs
      <3> DEFINE e == entered.s
      <3>1. e \in Streams /\ e.dfa = s.dfa /\ e.cp = s.cp /\ e.dcs = s.dcs
        BY <1>3, <2>2 DEF Bounded, Kept
      <3>2. p.s = [e EXCEPT !.st = edge.to]
        BY <2>4
      <3> HIDE DEF e
      <3> QED BY <3>1, <3>2 DEF Streams
    <2>6. p.calls = exit \o (acted.calls \o entered.calls)
      <3>1. acted.calls \in Seq(Plain \union Hooks) /\ exit \in Seq(Plain \union Hooks)
        BY <1>3, <1>5, <2>3
      <3> DEFINE f == exit
                 g == acted.calls
                 h == entered.calls
      <3>2. f \in Seq(Plain \union Hooks) /\ g \in Seq(Plain \union Hooks)
            /\ h \in Seq(Plain \union Hooks) /\ p.calls = (f \o g) \o h
        BY <2>1, <2>4, <3>1
      <3> HIDE DEF f, g, h
      <3>3. p.calls = f \o (g \o h)
        BY <3>2, Associates
      <3> QED BY <3>3 DEF f, g, h
    <2>7. p.calls \in Seq(Plain \union Hooks)
      BY <1>3, <1>5, <2>1, <2>3, <2>4
    <2>8. edge.to # "dcs_passthrough" =>
            acted.calls \o entered.calls \in Seq(Plain) /\ p.calls \in Seq(Plain)
      BY <1>3, <2>1, <2>3, <2>6
    <2> QED BY <1>7, <2>3, <2>5, <2>6, <2>7, <2>8
  <1> QED BY <1>6, <1>7

-----------------------------------------------------------------------------
(* The stream.  What the decoder holds in each of its states, and what the *)
(* next byte may rely on.                                                  *)
Holds(dfa, cp) ==
    \/ dfa \in {0, 48, 72} /\ cp = 0
    \/ dfa = 24 /\ 2 <= cp /\ cp < 272 * 64 /\ (cp < 864 \/ cp > 895)
    \/ dfa = 36 /\ 1 <= cp /\ cp < 272 /\ cp # 13
    \/ dfa = 60 /\ cp = 13
    \/ dfa = 84 /\ 1 <= cp /\ cp < 4
    \/ dfa = 96 /\ cp = 4

Sound(s) ==
    /\ Bounded(s) /\ Fresh(s)
    /\ Partial(s) => s.st = "ground"
    /\ s.dcs.state # "inactive" => s.st = "dcs_passthrough"
    /\ Holds(s.dfa, s.cp)

(* The handler's state is not one of the registers.                        *)
LEMMA DcsBounded ==
    ASSUME NEW s, Bounded(s), Fresh(s), NEW d \in DcsStates
    PROVE  /\ Bounded([s EXCEPT !.dcs = d]) /\ Fresh([s EXCEPT !.dcs = d])
           /\ [s EXCEPT !.dcs = d].st = s.st /\ [s EXCEPT !.dcs = d].dfa = s.dfa
           /\ [s EXCEPT !.dcs = d].cp = s.cp
  <1> DEFINE t == [s EXCEPT !.dcs = d]
  <1>1. s \in Streams
    BY DEF Bounded
  <1>2. t \in Streams /\ t.st = s.st /\ t.dfa = s.dfa /\ t.cp = s.cp
        /\ t.inter = s.inter /\ t.params = s.params
    BY <1>1 DEF Streams
  <1>3. s = Cleared(s) => t = Cleared(t)
    <2>1. SUFFICES ASSUME s = Cleared(s) PROVE t = Cleared(t)
      OBVIOUS
    <2>2. s.inter = <<>> /\ s.params = <<>> /\ s.colons = {} /\ s.acc = 0 /\ s.digits = 0
      BY <1>1, <2>1 DEF Streams, Cleared
    <2> QED BY <1>1, <2>2 DEF Streams, Cleared
  <1> HIDE DEF t
  <1>4. Bounded(t) /\ Fresh(t)
    BY <1>2, <1>3 DEF Bounded, Fresh
  <1> QED BY <1>2, <1>4 DEF t

(* A byte outside the ground state goes by the parser.                     *)
LEMMA NextNonUtf8Sound ==
    ASSUME NEW s, Sound(s), s.st # "ground", NEW b \in Bytes
    PROVE  /\ Sound(NextNonUtf8(s, b).s)
           /\ NextNonUtf8(s, b).s.st = ParserNext(s, b).s.st
           /\ Listed(NextNonUtf8(s, b).calls)
  <1> DEFINE p == ParserNext(s, b)
             base == Result(p.s, <<>>)
             r == NextNonUtf8(s, b)
  <1>1. Bounded(s) /\ Fresh(s) /\ ~Partial(s) /\ Holds(s.dfa, s.cp)
        /\ (s.dcs.state # "inactive" => s.st = "dcs_passthrough")
    BY DEF Sound
  <1>2. Bounded(p.s) /\ Fresh(p.s)
    BY <1>1, NextBounded, NextFresh
  <1>3. /\ p.s.dfa = s.dfa /\ p.s.cp = s.cp /\ p.s.dcs = s.dcs
        /\ p.calls \in Seq(Plain \union Hooks)
        /\ p.s.st = s.st \/ p.s.st # "dcs_passthrough" => p.calls \in Seq(Plain)
        /\ s.st = "dcs_passthrough" /\ p.s.st # s.st =>
             \E rest \in Seq(Plain) : p.calls = <<<<"dcs_unhook">>>> \o rest
    <2> HIDE DEF p
    <2>1. p = ParserNext(s, b)
      BY DEF p
    <2> QED BY <1>1, <2>1, TransitionParts
  <1>4. r = FoldLeft(Call, base, p.calls) /\ base.s = p.s
    BY DEF NextNonUtf8, Handled, Result
  <1> HIDE DEF p, r, base
  <1>5. p.s \in Streams /\ p.s.dcs \in DcsStates /\ p.s = [p.s EXCEPT !.dcs = p.s.dcs]
    BY <1>2 DEF Bounded, Streams
  <1>0. Listed(base.calls)
    BY FewListed DEF base, Result
  <1>6. HandlerOnly(<<p.s, FALSE>>, base)
        /\ (s.dcs.state = "inactive" => HandlerOnly(<<p.s, TRUE>>, base))
    BY <1>0, <1>3, <1>4, <1>5 DEF HandlerOnly
  <1>7. HandlerOnly(<<p.s, FALSE>>, r)
    BY <1>3, <1>4, <1>5, <1>6, HandledOnly
  <1>8. r.s.dcs.state # "inactive" => p.s.st = "dcs_passthrough"
    <2>1. CASE s.dcs.state = "inactive" /\ p.s.st # "dcs_passthrough"
      <3>1. HandlerOnly(<<p.s, TRUE>>, r)
        BY <1>3, <1>4, <1>5, <1>6, <2>1, HandledOnly, PlainIsNoHook
      <3> QED BY <3>1 DEF HandlerOnly
    <2>2. CASE s.dcs.state # "inactive" /\ p.s.st # "dcs_passthrough"
      <3>1. PICK rest \in Seq(Plain) : p.calls = <<<<"dcs_unhook">>>> \o rest
        BY <1>1, <1>3, <2>2
      <3> DEFINE unhook == <<"dcs_unhook">>
                 idle == Call(base, unhook)
      <3>2. HandlerOnly(<<p.s, TRUE>>, idle)
        <4>1. idle.s = [p.s EXCEPT !.dcs = Idle]
          BY <1>4 DEF Call, Result
        <4>2. Idle \in DcsStates /\ Idle.state = "inactive"
          BY DEF Idle, DcsStates, Handlers
        <4>3. [p.s EXCEPT !.dcs = Idle].dcs = Idle
          BY <1>5 DEF Streams
        <4>4. Listed(idle.calls)
          BY <1>0, CallListed
        <4> HIDE DEF idle
        <4> QED BY <4>1, <4>2, <4>3, <4>4 DEF HandlerOnly
      <3>3. unhook \in Plain
        BY DEF Plain
      <3> HIDE DEF unhook
      <3>4. p.calls = <<unhook>> \o rest
        BY <3>1 DEF unhook
      <3>5. <<unhook>> \in Seq(Plain)
        BY <3>3
      <3>6. Calls!Fold(base, <<unhook>>) = idle
        BY Calls!FoldOne
      <3> HIDE DEF idle
      <3>7. Calls!Fold(base, <<unhook>> \o rest) = Calls!Fold(Calls!Fold(base, <<unhook>>), rest)
        BY <3>1, <3>5, Calls!FoldConcat
      <3>8. r = FoldLeft(Call, idle, rest)
        BY <1>4, <3>4, <3>6, <3>7, HandledFolds
      <3>9. HandlerOnly(<<p.s, TRUE>>, r)
        BY <1>5, <3>1, <3>2, <3>8, HandledOnly, PlainIsNoHook
      <3> QED BY <3>9 DEF HandlerOnly
    <2> QED BY <2>1, <2>2
  <1>9. /\ r.s.dcs \in DcsStates /\ r.s = [p.s EXCEPT !.dcs = r.s.dcs]
    BY <1>7 DEF HandlerOnly
  <1>10. /\ Bounded(r.s) /\ Fresh(r.s) /\ r.s.st = p.s.st /\ r.s.dfa = p.s.dfa
         /\ r.s.cp = p.s.cp
    <2> DEFINE d == r.s.dcs
    <2>1. d \in DcsStates /\ r.s = [p.s EXCEPT !.dcs = d]
      BY <1>9
    <2> HIDE DEF d
    <2>2. /\ Bounded([p.s EXCEPT !.dcs = d]) /\ Fresh([p.s EXCEPT !.dcs = d])
          /\ [p.s EXCEPT !.dcs = d].st = p.s.st /\ [p.s EXCEPT !.dcs = d].dfa = p.s.dfa
          /\ [p.s EXCEPT !.dcs = d].cp = p.s.cp
      BY <1>2, <2>1, DcsBounded
    <2> QED BY <2>1, <2>2
  <1>11. Sound(r.s)
    BY <1>1, <1>3, <1>8, <1>10 DEF Sound, Partial
  <1>12. Listed(r.calls)
    BY <1>7 DEF HandlerOnly
  <1> QED BY <1>10, <1>11, <1>12 DEF r, p

-----------------------------------------------------------------------------
(* The decoder.                                                            *)

(* The code points that are characters: 17 planes of 256 rows, less the    *)
(* rows of the surrogates.                                                 *)
Scalars == { cp \in Nat : cp < 17 * 256 * 256 /\ ~(216 * 256 <= cp /\ cp < 224 * 256) }

LEMMA ClassOf ==
    ASSUME NEW b \in 0 .. 255
    PROVE  /\ Class(b) \in 0 .. 11
           /\ Class(b) = 0 => b \in 0 .. 127
           /\ Class(b) = 1 => b \in 128 .. 143
           /\ Class(b) = 2 => b \in 194 .. 223
           /\ Class(b) = 3 => b \in (225 .. 239) \ {237}
           /\ Class(b) = 4 => b = 237
           /\ Class(b) = 5 => b = 244
           /\ Class(b) = 6 => b \in 241 .. 243
           /\ Class(b) = 7 => b \in 160 .. 191
           /\ Class(b) = 9 => b \in 144 .. 159
  <1>1. CASE b \in 0 .. 127
    <2>1. Class(b) = 0
      BY <1>1 DEF Class
    <2> QED BY <1>1, <2>1
  <1>2. CASE b \in 128 .. 143
    <2>1. Class(b) = 1
      BY <1>2 DEF Class
    <2> QED BY <1>2, <2>1
  <1>3. CASE b \in 144 .. 159
    <2>1. Class(b) = 9
      BY <1>3 DEF Class
    <2> QED BY <1>3, <2>1
  <1>4. CASE b \in 160 .. 191
    <2>1. Class(b) = 7
      BY <1>4 DEF Class
    <2> QED BY <1>4, <2>1
  <1>5. CASE b \in {192, 193}
    <2>1. Class(b) = 8
      BY <1>5 DEF Class
    <2> QED BY <1>5, <2>1
  <1>6. CASE b \in 194 .. 223
    <2>1. Class(b) = 2
      BY <1>6 DEF Class
    <2> QED BY <1>6, <2>1
  <1>7. CASE b \in {224}
    <2>1. Class(b) = 10
      BY <1>7 DEF Class
    <2> QED BY <1>7, <2>1
  <1>8. CASE b \in (225 .. 239) \ {237}
    <2>1. Class(b) = 3
      BY <1>8 DEF Class
    <2> QED BY <1>8, <2>1
  <1>9. CASE b \in {237}
    <2>1. Class(b) = 4
      BY <1>9 DEF Class
    <2> QED BY <1>9, <2>1
  <1>10. CASE b \in {240}
    <2>1. Class(b) = 11
      BY <1>10 DEF Class
    <2> QED BY <1>10, <2>1
  <1>11. CASE b \in 241 .. 243
    <2>1. Class(b) = 6
      BY <1>11 DEF Class
    <2> QED BY <1>11, <2>1
  <1>12. CASE b \in {244}
    <2>1. Class(b) = 5
      BY <1>12 DEF Class
    <2> QED BY <1>12, <2>1
  <1>13. CASE b \in 245 .. 255
    <2>1. Class(b) = 8
      BY <1>13 DEF Class
    <2> QED BY <1>13, <2>1
  <1> QED BY <1>1, <1>2, <1>3, <1>4, <1>5, <1>6, <1>7, <1>8, <1>9, <1>10, <1>11,
       <1>12, <1>13

LEMMA LeadBitsOf ==
    ASSUME NEW b \in 0 .. 255
    PROVE  /\ Class(b) = 0 => LeadBits(b) = b
           /\ Class(b) = 2 => LeadBits(b) \in 2 .. 31
           /\ Class(b) = 3 => LeadBits(b) \in (1 .. 15) \ {13}
           /\ Class(b) = 4 => LeadBits(b) = 13
           /\ Class(b) = 5 => LeadBits(b) = 4
           /\ Class(b) = 6 => LeadBits(b) \in 1 .. 3
           /\ Class(b) \in {10, 11} => LeadBits(b) = 0
  <1>1. 2 ^ 8 = 256 /\ 2 ^ 6 = 64 /\ 2 ^ 5 = 32 /\ 2 ^ 4 = 16 /\ 2 ^ 3 = 8 /\ 2 ^ 2 = 4
    OBVIOUS
  <1>2. /\ 8 - 0 = 8 /\ 8 - 2 = 6 /\ 8 - 3 = 5 /\ 8 - 4 = 4 /\ 8 - 5 = 3 /\ 8 - 6 = 2
    OBVIOUS
  <1>3. CASE Class(b) = 0
    <2>1. LeadBits(b) = b % 256
      BY <1>1, <1>2, <1>3 DEF LeadBits
    <2> QED BY <1>3, <2>1
  <1>4. CASE Class(b) = 2
    <2>1. LeadBits(b) = b % 64
      BY <1>1, <1>2, <1>4 DEF LeadBits
    <2> QED BY <1>4, <2>1, ClassOf
  <1>5. CASE Class(b) = 3
    <2>1. LeadBits(b) = b % 32
      BY <1>1, <1>2, <1>5 DEF LeadBits
    <2> QED BY <1>5, <2>1, ClassOf
  <1>6. CASE Class(b) = 4
    <2>1. LeadBits(b) = b % 16
      BY <1>1, <1>2, <1>6 DEF LeadBits
    <2> QED BY <1>6, <2>1, ClassOf
  <1>7. CASE Class(b) = 5
    <2>1. LeadBits(b) = b % 8
      BY <1>1, <1>2, <1>7 DEF LeadBits
    <2> QED BY <1>7, <2>1, ClassOf
  <1>8. CASE Class(b) = 6
    <2>1. LeadBits(b) = b % 4
      BY <1>1, <1>2, <1>8 DEF LeadBits
    <2> QED BY <1>8, <2>1, ClassOf
  <1>9. CASE Class(b) \in {10, 11}
    BY <1>9 DEF LeadBits
  <1> QED BY <1>3, <1>4, <1>5, <1>6, <1>7, <1>8, <1>9, ClassOf

(* A continuation byte that the decoder's state accepts.                   *)
LEMMA LowBits ==
    ASSUME NEW b \in 0 .. 255, Class(b) \in {1, 7, 9}
    PROVE  /\ b \in 128 .. 191 /\ b % 64 = b - 128
           /\ Class(b) = 1 => b % 64 \in 0 .. 15
           /\ Class(b) = 9 => b % 64 \in 16 .. 31
           /\ Class(b) = 7 => b % 64 \in 32 .. 63
  <1>1. b \in 128 .. 191
    BY ClassOf
  <1>2. b % 64 = b - 128
    BY <1>1
  <1> QED BY <1>1, <1>2, ClassOf

(* A step of the decoder: what it makes is a scalar value, what it keeps   *)
(* suits its state, and only a byte in the middle of a character comes     *)
(* back.                                                                   *)
LEMMA StepTo ==
    ASSUME NEW dfa \in DfaStates, NEW cp \in Nat, Holds(dfa, cp), NEW b \in 0 .. 255,
           Dfa(dfa, Class(b)) # Reject
    PROVE  LET to == Dfa(dfa, Class(b))
               acc == IF dfa # Accept THEN cp * 64 + (b % 64) ELSE LeadBits(b)
           IN  /\ to \in DfaStates /\ acc \in Nat
               /\ to = Accept => acc \in Scalars
               /\ to # Accept => Holds(to, acc)
  <1> DEFINE to == Dfa(dfa, Class(b))
             acc == IF dfa # Accept THEN cp * 64 + (b % 64) ELSE LeadBits(b)
  <1> SUFFICES /\ to \in DfaStates /\ acc \in Nat
               /\ to = Accept => acc \in Scalars
               /\ to # Accept => Holds(to, acc)
    OBVIOUS
  <1>0. to = Dfa(dfa, Class(b)) /\ to # Reject
        /\ acc = IF dfa # Accept THEN cp * 64 + (b % 64) ELSE LeadBits(b)
    OBVIOUS
  <1> HIDE DEF to, acc
  <1>1. Class(b) \in 0 .. 11
    BY ClassOf
  <1>2. CASE dfa = 0
    <2>1. \/ Class(b) = 0 /\ to = 0
          \/ Class(b) = 2 /\ to = 24
          \/ Class(b) = 3 /\ to = 36
          \/ Class(b) = 4 /\ to = 60
          \/ Class(b) = 5 /\ to = 96
          \/ Class(b) = 6 /\ to = 84
          \/ Class(b) = 10 /\ to = 48
          \/ Class(b) = 11 /\ to = 72
      BY <1>0, <1>1, <1>2 DEF Dfa, Reject
    <2>2. acc = LeadBits(b)
      BY <1>0, <1>2 DEF Accept
    <2>3. CASE Class(b) = 0
      BY <2>1, <2>2, <2>3, LeadBitsOf, ClassOf DEF Scalars, Accept, DfaStates
    <2>4. CASE Class(b) # 0
      <3>1. /\ to = 24 => acc \in 2 .. 31
            /\ to = 36 => acc \in (1 .. 15) \ {13}
            /\ to = 60 => acc = 13
            /\ to = 96 => acc = 4
            /\ to = 84 => acc \in 1 .. 3
            /\ to \in {48, 72} => acc = 0
            /\ to \in {24, 36, 48, 60, 72, 84, 96}
        BY <2>1, <2>2, <2>4, LeadBitsOf
      <3> QED BY <3>1 DEF Accept, DfaStates, Holds
    <2> QED BY <2>3, <2>4
  <1>3. CASE dfa # 0
    <2>1. \/ dfa = 24 /\ Class(b) \in {1, 7, 9} /\ to = 0
          \/ dfa = 36 /\ Class(b) \in {1, 7, 9} /\ to = 24
          \/ dfa = 48 /\ Class(b) = 7 /\ to = 24
          \/ dfa = 60 /\ Class(b) \in {1, 9} /\ to = 24
          \/ dfa = 72 /\ Class(b) \in {7, 9} /\ to = 36
          \/ dfa = 84 /\ Class(b) \in {1, 7, 9} /\ to = 36
          \/ dfa = 96 /\ Class(b) = 1 /\ to = 36
      BY <1>0, <1>1, <1>3 DEF Dfa, Reject, Accept, DfaStates
    <2> DEFINE low == b % 64
    <2>2. /\ low \in 0 .. 63
          /\ Class(b) = 1 => low \in 0 .. 15
          /\ Class(b) = 9 => low \in 16 .. 31
          /\ Class(b) = 7 => low \in 32 .. 63
      BY <2>1, LowBits
    <2>3. acc = cp * 64 + low
      BY <1>0, <1>3 DEF Accept
    <2> HIDE DEF low
    <2>4. CASE dfa = 24
      <3>1. 2 <= cp /\ cp < 272 * 64 /\ (cp < 864 \/ cp > 895)
        BY <2>4 DEF Holds
      <3>2. acc \in Nat /\ acc < 17 * 256 * 256 /\ (acc < 216 * 256 \/ acc >= 224 * 256)
        BY <2>2, <2>3, <3>1
      <3> QED BY <2>1, <2>4, <3>2 DEF Scalars, Accept, DfaStates
    <2>5. CASE dfa = 36
      <3>1. 1 <= cp /\ cp < 272 /\ (cp < 13 \/ cp > 13)
        BY <2>5 DEF Holds
      <3>2. acc \in Nat /\ 2 <= acc /\ acc < 272 * 64 /\ (acc < 864 \/ acc > 895)
        BY <2>2, <2>3, <3>1
      <3> QED BY <2>1, <2>5, <3>2 DEF Accept, DfaStates, Holds
    <2>6. CASE dfa = 48
      BY <2>1, <2>2, <2>3, <2>6 DEF Accept, DfaStates, Holds
    <2>7. CASE dfa = 60
      <3>1. cp = 13 /\ low <= 31
        BY <2>1, <2>2, <2>7 DEF Holds
      <3>2. acc \in Nat /\ 2 <= acc /\ acc < 272 * 64 /\ acc < 864
        BY <2>2, <2>3, <3>1
      <3> QED BY <2>1, <2>7, <3>2 DEF Accept, DfaStates, Holds
    <2>8. CASE dfa = 72
      BY <2>1, <2>2, <2>3, <2>8 DEF Accept, DfaStates, Holds
    <2>9. CASE dfa = 84
      <3>1. 1 <= cp /\ cp < 4
        BY <2>9 DEF Holds
      <3>2. acc \in Nat /\ acc > 13 /\ acc <= 271
        BY <2>2, <2>3, <3>1
      <3> QED BY <2>1, <2>9, <3>2 DEF Accept, DfaStates, Holds
    <2>10. CASE dfa = 96
      BY <2>1, <2>2, <2>3, <2>10 DEF Accept, DfaStates, Holds
    <2> QED BY <1>3, <2>4, <2>5, <2>6, <2>7, <2>8, <2>9, <2>10 DEF DfaStates
  <1> QED BY <1>2, <1>3

(* A byte of a character: what is made of it is a scalar value (the        *)
(* debug_assert of Utf8Decoder::next), and only a byte that breaks off a   *)
(* character comes back, to a decoder that waits for nothing.              *)
THEOREM DecodedSound ==
    ASSUME NEW s, Sound(s), s.st = "ground", NEW b \in 0 .. 255
    PROVE  /\ Sound(Decoded(s, b).s) /\ Decoded(s, b).s.st = "ground"
           /\ \/ Decoded(s, b).cps = <<>>
              \/ /\ \E cp \in Scalars : Decoded(s, b).cps = <<cp>>
                 /\ ~Partial(Decoded(s, b).s)
           /\ Decoded(s, b).taken \in BOOLEAN
           /\ ~Decoded(s, b).taken =>
                Partial(s) /\ ~Partial(Decoded(s, b).s) /\ Decoded(s, b).cps = <<Replacement>>
  <1> DEFINE to == Dfa(s.dfa, Class(b))
             acc == IF Partial(s) THEN s.cp * 64 + (b % 64) ELSE LeadBits(b)
             d == Decoded(s, b)
  <1>1. /\ s \in Streams /\ s.dfa \in DfaStates /\ s.cp \in Nat /\ Holds(s.dfa, s.cp)
        /\ Len(s.inter) <= MaxIntermediate /\ Len(s.params) <= MaxParams
        /\ s.dcs.state = "inactive"
    BY DEF Sound, Bounded, Streams
  <1>2. to # Reject => /\ to \in DfaStates
                       /\ acc \in Nat
                       /\ to = Accept => acc \in Scalars
                       /\ to # Accept => Holds(to, acc)
    <2> DEFINE dfa == s.dfa
               cp == s.cp
    <2>1. dfa \in DfaStates /\ cp \in Nat /\ Holds(dfa, cp)
      BY <1>1
    <2>2. /\ to = Dfa(dfa, Class(b))
          /\ acc = IF dfa # Accept THEN cp * 64 + (b % 64) ELSE LeadBits(b)
      BY DEF Partial
    <2> HIDE DEF dfa, cp, to, acc
    <2>3. Dfa(dfa, Class(b)) # Reject =>
            /\ Dfa(dfa, Class(b)) \in DfaStates
            /\ acc \in Nat
            /\ Dfa(dfa, Class(b)) = Accept => acc \in Scalars
            /\ Dfa(dfa, Class(b)) # Accept => Holds(Dfa(dfa, Class(b)), acc)
      <3>1. SUFFICES ASSUME Dfa(dfa, Class(b)) # Reject
                     PROVE  /\ Dfa(dfa, Class(b)) \in DfaStates
                            /\ acc \in Nat
                            /\ Dfa(dfa, Class(b)) = Accept => acc \in Scalars
                            /\ Dfa(dfa, Class(b)) # Accept => Holds(Dfa(dfa, Class(b)), acc)
        OBVIOUS
      <3> DEFINE new == IF dfa # Accept THEN cp * 64 + (b % 64) ELSE LeadBits(b)
      <3>2. /\ Dfa(dfa, Class(b)) \in DfaStates /\ new \in Nat
            /\ Dfa(dfa, Class(b)) = Accept => new \in Scalars
            /\ Dfa(dfa, Class(b)) # Accept => Holds(Dfa(dfa, Class(b)), new)
        BY <2>1, <3>1, StepTo
      <3>3. new = acc
        BY <2>2
      <3> HIDE DEF new
      <3> QED BY <3>2, <3>3
    <2> QED BY <2>2, <2>3
  <1>4. \A f \in DfaStates : \A cp \in Nat : Holds(f, cp) =>
          Sound([s EXCEPT !.dfa = f, !.cp = cp])
          /\ [s EXCEPT !.dfa = f, !.cp = cp].st = "ground"
          /\ [s EXCEPT !.dfa = f, !.cp = cp].dfa = f
    <2> TAKE f \in DfaStates
    <2> TAKE cp \in Nat
    <2> HAVE Holds(f, cp)
    <2> DEFINE t == [s EXCEPT !.dfa = f, !.cp = cp]
    <2>1. /\ t \in Streams /\ t.st = "ground" /\ t.dfa = f /\ t.cp = cp
          /\ t.inter = s.inter /\ t.params = s.params /\ t.dcs = s.dcs
      BY <1>1 DEF Streams
    <2> HIDE DEF t
    <2>2. Bounded(t) /\ Fresh(t)
      BY <1>1, <2>1 DEF Bounded, Fresh, Beginnings
    <2>3. Sound(t)
      BY <1>1, <2>1, <2>2 DEF Sound
    <2> QED BY <2>1, <2>3 DEF t
  <1>5. Accept \in DfaStates /\ Holds(Accept, 0) /\ Replacement \in Scalars
        /\ Accept # Reject
    BY SMT DEF Scalars, Accept, Reject, DfaStates, Replacement, Holds
  <1> DEFINE at(f, cp) == [s EXCEPT !.dfa = f, !.cp = cp]
  <1>6. d = CASE to = Accept -> [s |-> at(Accept, 0), cps |-> <<acc>>, taken |-> TRUE]
              [] to = Reject -> [s |-> at(Accept, 0), cps |-> <<Replacement>>,
                                 taken |-> ~Partial(s)]
              [] OTHER -> [s |-> at(to, acc), cps |-> <<>>, taken |-> TRUE]
    BY DEF Decoded
  <1> HIDE DEF to, acc, d
  <1>7. CASE to = Accept
    <2>1. d = [s |-> at(Accept, 0), cps |-> <<acc>>, taken |-> TRUE]
      BY <1>5, <1>6, <1>7
    <2>2. acc \in Scalars
      BY <1>2, <1>5, <1>7
    <2>3. Sound(d.s) /\ d.s.st = "ground" /\ ~Partial(d.s)
      BY <1>4, <1>5, <2>1 DEF Partial
    <2> QED BY <2>1, <2>2, <2>3 DEF d
  <1>8. CASE to = Reject
    <2>1. d = [s |-> at(Accept, 0), cps |-> <<Replacement>>, taken |-> ~Partial(s)]
      BY <1>5, <1>6, <1>8
    <2>2. Sound(d.s) /\ d.s.st = "ground" /\ ~Partial(d.s)
      BY <1>4, <1>5, <2>1 DEF Partial
    <2>3. d.cps = <<Replacement>> /\ d.taken = ~Partial(s)
      BY <2>1
    <2>4. d.taken \in BOOLEAN /\ (~d.taken => Partial(s))
      BY <2>3 DEF Partial
    <2> QED BY <1>5, <2>2, <2>3, <2>4 DEF d
  <1>9. CASE to # Accept /\ to # Reject
    <2>1. d = [s |-> at(to, acc), cps |-> <<>>, taken |-> TRUE]
      BY <1>6, <1>9
    <2>2. Sound(d.s) /\ d.s.st = "ground"
      BY <1>2, <1>4, <1>9, <2>1
    <2> QED BY <2>1, <2>2 DEF d
  <1> QED BY <1>7, <1>8, <1>9

-----------------------------------------------------------------------------
(* One byte: Stream::next.                                                 *)

(* A character on the ground, or the ESC that leaves it.                   *)
LEMMA CodepointSound ==
    ASSUME NEW r, Sound(r.s), r.s.st = "ground", ~Partial(r.s), NEW cp
    PROVE  /\ Sound(Codepoint(r, cp).s)
           /\ cp # ESC => Codepoint(r, cp).s = r.s
  <1>1. CASE cp <= 15
    BY <1>1 DEF Codepoint, Result, ESC
  <1>2. CASE ~(cp <= 15) /\ cp = ESC
    <2> DEFINE e == [r.s EXCEPT !.st = "escape"]
    <2>1. Codepoint(r, cp).s = Cleared(e)
      BY <1>2 DEF Codepoint, Result
    <2>2. /\ r.s \in Streams /\ r.s.dcs.state = "inactive" /\ Holds(r.s.dfa, r.s.cp)
          /\ "escape" \in StateNames
      BY DEF Sound, Bounded, StateNames
    <2>3. Bounded(e) /\ e.st = "escape"
      BY <2>2, AtBounded DEF Sound
    <2>4. e.dfa = r.s.dfa /\ e.cp = r.s.cp /\ e.dcs = r.s.dcs
      BY <2>2 DEF Streams
    <2> HIDE DEF e
    <2>5. Bounded(Cleared(e)) /\ Kept(e, Cleared(e)) /\ Cleared(Cleared(e)) = Cleared(e)
      BY <2>3, ClearedBounded
    <2>6. Sound(Cleared(e))
      BY <2>2, <2>3, <2>4, <2>5 DEF Sound, Fresh, Kept, Partial
    <2> QED BY <1>2, <2>1, <2>6
  <1>3. CASE ~(cp <= 15) /\ cp # ESC
    BY <1>3 DEF Codepoint, Result
  <1> QED BY <1>1, <1>2, <1>3

SoundResult(c, r) == Sound(r.s)

Codepoints == INSTANCE FoldFacts WITH Step <- Codepoint, Inv <- SoundResult

LEMMA CodepointFolds ==
    \A base, cps : FoldLeft(Codepoint, base, cps) = Codepoints!Fold(base, cps)
  BY Zenon DEF FoldLeft, Codepoints!FoldLeft, MapThenFoldSet, Codepoints!MapThenFoldSet,
     Max, Codepoints!Max, Codepoints!Fold

LEMMA ShownSound ==
    ASSUME NEW d, Sound(d.s), d.s.st = "ground", NEW calls,
           \/ d.cps = <<>>
           \/ (\E cp \in Scalars : d.cps = <<cp>>) /\ ~Partial(d.s)
    PROVE  /\ Sound(Shown(d, calls).s)
           /\ d.cps = <<Replacement>> => Shown(d, calls).s = d.s
  <1> DEFINE base == Result(d.s, calls)
  <1>1. base.s = d.s /\ Shown(d, calls) = Codepoints!Fold(base, d.cps)
    BY CodepointFolds DEF Shown, Result
  <1> HIDE DEF base
  <1>2. CASE d.cps = <<>>
    <2>1. Shown(d, calls) = base
      BY <1>1, <1>2, Codepoints!FoldEmpty
    <2>2. <<>> # <<Replacement>>
      OBVIOUS
    <2> QED BY <1>1, <1>2, <2>1, <2>2
  <1>3. CASE (\E cp \in Scalars : d.cps = <<cp>>) /\ ~Partial(d.s)
    <2>1. PICK cp \in Scalars : d.cps = <<cp>>
      BY <1>3
    <2>2. Codepoints!Fold(base, <<cp>>) = Codepoint(base, cp)
      BY Codepoints!FoldOne
    <2>3. Shown(d, calls) = Codepoint(base, cp)
      BY <1>1, <2>1, <2>2
    <2>4. Sound(Codepoint(base, cp).s) /\ (cp # ESC => Codepoint(base, cp).s = base.s)
      BY <1>1, <1>3, CodepointSound
    <2>5. <<cp>> = <<Replacement>> => cp # ESC
      BY SMT DEF Replacement, ESC
    <2> QED BY <1>1, <2>1, <2>3, <2>4, <2>5
  <1> QED BY <1>2, <1>3

LEMMA NextUtf8Sound ==
    ASSUME NEW s, Sound(s), s.st = "ground", NEW b \in Bytes
    PROVE  Sound(NextUtf8(s, b).s)
  <1> DEFINE d == Decoded(s, b)
  <1>1. b \in 0 .. 255
    BY ByteAssumption
  <1>2. /\ Sound(d.s) /\ d.s.st = "ground"
        /\ \/ d.cps = <<>>
           \/ /\ \E cp \in Scalars : d.cps = <<cp>>
              /\ ~Partial(d.s)
        /\ d.taken \in BOOLEAN
        /\ ~d.taken => Partial(s) /\ ~Partial(d.s) /\ d.cps = <<Replacement>>
    BY <1>1, DecodedSound
  <1>3. NextUtf8(s, b) = Given(d, b)
    BY DEF NextUtf8
  <1> HIDE DEF d
  <1>4. Sound(Shown(d, <<>>).s) /\ (~d.taken => Shown(d, <<>>).s = d.s)
    BY <1>2, ShownSound
  <1>5. CASE d.taken
    BY <1>3, <1>4, <1>5 DEF Given
  <1>6. CASE ~d.taken
    <2> DEFINE r == Shown(d, <<>>)
               e == Decoded(r.s, b)
    <2>1. NextUtf8(s, b) = Shown(e, r.calls)
      BY <1>3, <1>6 DEF Given, DecodedAgain
    <2>2. Sound(r.s) /\ r.s.st = "ground"
      BY <1>2, <1>4, <1>6
    <2> HIDE DEF r
    <2> DEFINE q == r.s
    <2>3. /\ Sound(e.s) /\ e.s.st = "ground"
          /\ \/ e.cps = <<>>
             \/ /\ \E cp \in Scalars : e.cps = <<cp>>
                /\ ~Partial(e.s)
          /\ e.taken \in BOOLEAN
          /\ ~e.taken => Partial(q) /\ ~Partial(e.s) /\ e.cps = <<Replacement>>
      <3>1. Sound(q) /\ q.st = "ground"
        BY <2>2
      <3> HIDE DEF q
      <3>2. /\ Sound(Decoded(q, b).s) /\ Decoded(q, b).s.st = "ground"
            /\ \/ Decoded(q, b).cps = <<>>
               \/ /\ \E cp \in Scalars : Decoded(q, b).cps = <<cp>>
                  /\ ~Partial(Decoded(q, b).s)
            /\ Decoded(q, b).taken \in BOOLEAN
            /\ ~Decoded(q, b).taken =>
                 /\ Partial(q) /\ ~Partial(Decoded(q, b).s)
                 /\ Decoded(q, b).cps = <<Replacement>>
        BY <1>1, <3>1, DecodedSound
      <3> QED BY <3>2 DEF q
    <2> HIDE DEF e
    <2>4. Sound(Shown(e, r.calls).s)
      BY <2>3, ShownSound
    <2> QED BY <2>1, <2>4
  <1> QED BY <1>5, <1>6

(* Whatever the byte, the next one finds a sound stream.                   *)
THEOREM NextByteSound ==
    ASSUME NEW s, Sound(s), NEW b \in Bytes
    PROVE  Sound(NextByte(s, b).s)
  BY NextUtf8Sound, NextNonUtf8Sound DEF NextByte

Bytewise == INSTANCE FoldFacts WITH Step <- Then, Inv <- SoundResult

LEMMA ThenFolds == \A base, input : FoldLeft(Then, base, input) = Bytewise!Fold(base, input)
  BY Zenon DEF FoldLeft, Bytewise!FoldLeft, MapThenFoldSet, Bytewise!MapThenFoldSet,
     Max, Bytewise!Max, Bytewise!Fold

(* And so after any input.                                                 *)
THEOREM NextAllSound ==
    ASSUME NEW s, Sound(s), NEW input \in Seq(Bytes)
    PROVE  Sound(NextAll(s, input).s)
  <1> DEFINE base == Result(s, <<>>)
  <1>1. SoundResult({}, base)
    BY DEF SoundResult, Result
  <1>2. \A r : \A b \in Bytes : SoundResult({}, r) => SoundResult({}, Then(r, b))
    BY NextByteSound DEF SoundResult, Then, Also, Result
  <1> HIDE DEF base
  <1>3. SoundResult({}, Bytewise!Fold(base, input))
    BY <1>1, <1>2, Bytewise!FoldKeeps
  <1> QED BY <1>3, ThenFolds DEF NextAll, SoundResult, base

-----------------------------------------------------------------------------
(* The fast paths.  A run of bytes ends at the first that is not in it.    *)

LEMMA RunEnds ==
    ASSUME NEW input \in Seq(Bytes), NEW set
    PROVE  LET n == Run(input, set)
           IN  /\ n \in 0 .. Len(input)
               /\ \A i \in 1 .. n : input[i] \in set
               /\ n < Len(input) => input[n + 1] \notin set
  <1> DEFINE ends == { n \in 1 .. Len(input) : input[n] \notin set }
             n == Run(input, set)
  <1> SUFFICES /\ n \in 0 .. Len(input)
               /\ \A i \in 1 .. n : input[i] \in set
               /\ n < Len(input) => input[n + 1] \notin set
    OBVIOUS
  <1>1. n = IF ends = {} THEN Len(input)
            ELSE (CHOOSE k \in ends : \A m \in ends : k <= m) - 1
    BY DEF Run
  <1>2. ends \subseteq Nat /\ Len(input) \in Nat
    OBVIOUS
  <1>3. CASE ends = {}
    <2>1. n = Len(input)
      BY <1>1, <1>3
    <2> HIDE DEF n
    <2> QED BY <1>2, <1>3, <2>1
  <1>4. CASE ends # {}
    <2> DEFINE first == CHOOSE k \in ends : \A m \in ends : k <= m
    <2>1. first \in ends /\ \A m \in ends : first <= m
      <3> HIDE DEF ends
      <3>1. \E k \in ends : \A m \in ends : k <= m
        BY <1>2, <1>4, Bytewise!LeastExists
      <3> QED BY <3>1
    <2>2. n = first - 1
      BY <1>1, <1>4
    <2> HIDE DEF first, n
    <2>3. first \in 1 .. Len(input) /\ input[first] \notin set
      BY <2>1
    <2>4. n + 1 = first /\ n \in 0 .. Len(input)
      BY <1>2, <2>2, <2>3
    <2>5. ASSUME NEW i \in 1 .. n PROVE input[i] \in set
      BY <1>2, <2>1, <2>2, <2>3
    <2> QED BY <2>3, <2>4, <2>5
  <1> QED BY <1>3, <1>4

LEMMA RestTyped ==
    ASSUME NEW D, NEW input \in Seq(D), NEW n \in 0 .. Len(input)
    PROVE  /\ Rest(input, n) \in Seq(D)
           /\ Len(Rest(input, n)) = Len(input) - n
           /\ \A i \in 1 .. Len(input) - n : Rest(input, n)[i] = input[n + i]
  <1>1. Len(input) \in Nat /\ n \in Int /\ n + 1 \in Int
    OBVIOUS
  <1>2. \A i \in n + 1 .. Len(input) : input[i] \in D
    BY <1>1
  <1>3. /\ SubSeq(input, n + 1, Len(input)) \in Seq(D)
        /\ Len(SubSeq(input, n + 1, Len(input))) =
             IF n + 1 <= Len(input) THEN Len(input) - (n + 1) + 1 ELSE 0
        /\ \A i \in 1 .. Len(input) - (n + 1) + 1 :
             SubSeq(input, n + 1, Len(input))[i] = input[(n + 1) + i - 1]
    BY <1>1, <1>2, SubSeqProperties
  <1>4. Len(input) - (n + 1) + 1 = Len(input) - n
        /\ (n + 1 <= Len(input) \/ Len(input) - n = 0)
        /\ \A i \in Int : (n + 1) + i - 1 = n + i
    BY <1>1
  <1>5. Rest(input, n) = SubSeq(input, n + 1, Len(input))
    BY DEF Rest
  <1>6. Rest(input, n) \in Seq(D) /\ Len(Rest(input, n)) = Len(input) - n
    BY <1>3, <1>4, <1>5
  <1>7. ASSUME NEW i \in 1 .. Len(input) - n PROVE Rest(input, n)[i] = input[n + i]
    <2>1. i \in Int /\ 1 <= i /\ i <= Len(input) - n
      BY <1>1
    <2>2. i \in 1 .. Len(input) - (n + 1) + 1
      BY <1>1, <2>1
    <2> QED BY <1>3, <1>4, <1>5, <2>1, <2>2
  <1> QED BY <1>6, <1>7

LEMMA PrefixTyped ==
    ASSUME NEW D, NEW input \in Seq(D), NEW n \in 0 .. Len(input), NEW set,
           \A i \in 1 .. n : input[i] \in set
    PROVE  /\ SubSeq(input, 1, n) \in Seq(set)
           /\ Len(SubSeq(input, 1, n)) = n
           /\ \A i \in 1 .. n : SubSeq(input, 1, n)[i] = input[i]
  <1>1. 1 \in Int /\ n \in Int /\ n \in Nat
    OBVIOUS
  <1>2. /\ SubSeq(input, 1, n) \in Seq(set)
        /\ Len(SubSeq(input, 1, n)) = IF 1 <= n THEN n - 1 + 1 ELSE 0
        /\ \A i \in 1 .. n - 1 + 1 : SubSeq(input, 1, n)[i] = input[1 + i - 1]
    BY <1>1, SubSeqProperties
  <1>3. n - 1 + 1 = n /\ \A i \in Int : 1 + i - 1 = i
    BY <1>1
  <1> QED BY <1>1, <1>2, <1>3

(* Within a sequence, where the decoder and the handler are idle, the      *)
(* registers are all there is to look at.                                  *)
LEMMA InSequence ==
    ASSUME NEW s, Sound(s), s.st \notin {"ground", "dcs_passthrough"},
           NEW t, Bounded(t), t.dfa = s.dfa, t.cp = s.cp, t.dcs = s.dcs,
           t.st \notin Beginnings \/ t = Cleared(t)
    PROVE  Sound(t)
  BY DEF Sound, Fresh, Partial

(* What every path through the loop must do: take some bytes, but no more  *)
(* than there are, and leave a sound stream.                               *)
Takes(turn, from, input) == turn.n \in from .. Len(input) /\ Sound(turn.s)

LEMMA DispatchSound ==
    ASSUME NEW s, Sound(s), s.st \notin {"ground", "dcs_passthrough"},
           NEW t, Bounded(t), t.dfa = s.dfa, t.cp = s.cp, t.dcs = s.dcs, NEW b
    PROVE  Sound(Grounded(CsiDispatch(t, b)).s)
  <1> DEFINE e == CsiDispatch(t, b).s
             g == [e EXCEPT !.st = "ground"]
  <1>1. Bounded(e) /\ Kept(t, e)
    BY CsiDispatchBounded
  <1>2. Grounded(CsiDispatch(t, b)).s = g
    BY DEF Grounded, At, CsiDispatch, Result
  <1>3. "ground" \in StateNames
    BY DEF StateNames
  <1> HIDE DEF e
  <1>4. Bounded(g) /\ g.st = "ground"
    BY <1>1, <1>3, AtBounded
  <1>5. g.dfa = s.dfa /\ g.cp = s.cp /\ g.dcs = s.dcs
    BY <1>1 DEF Bounded, Streams, Kept
  <1> HIDE DEF g
  <1>6. Sound(g)
    BY <1>4, <1>5, InSequence DEF Beginnings
  <1> QED BY <1>2, <1>6

LEMMA CsiEntryByteSound ==
    ASSUME NEW s, Sound(s), s.st = "csi_entry", NEW b \in Bytes
    PROVE  CsiEntryByte(s, b).n \in 0 .. 1 /\ Sound(CsiEntryByte(s, b).s)
  <1> DEFINE param == [s EXCEPT !.st = "csi_param"]
             done == Grounded(CsiDispatch(s, b))
  <1>1. s \in Streams /\ s.st \notin {"ground", "dcs_passthrough"} /\ Bounded(s)
    BY DEF Sound, Bounded
  <1>2. "csi_param" \in StateNames /\ "csi_param" \notin Beginnings
    BY DEF StateNames, Beginnings
  <1>3. /\ Bounded(param) /\ param.st = "csi_param" /\ param.dfa = s.dfa /\ param.cp = s.cp
        /\ param.dcs = s.dcs
    BY <1>1, <1>2, AtBounded DEF Streams
  <1>0. /\ b \in Digits => b # Semicolon /\ b \notin Private /\ b \notin Finals
        /\ b \in Private => b \notin Digits /\ b # Semicolon /\ b \notin Finals
    BY DEF Digits, Semicolon, Private, Finals
  <1>4. CASE b \in Digits
    <2> DEFINE t == [param EXCEPT !.acc = b - 48, !.digits = 1]
    <2>1. b - 48 \in 0 .. MaxValue /\ 1 \in 0 .. DigitWrap - 1
      BY <1>4, LimitAssumption DEF Digits
    <2>2. CsiEntryByte(s, b) = Took(1, t, <<>>)
      BY <1>0, <1>4 DEF CsiEntryByte
    <2> HIDE DEF param
    <2>3. /\ Bounded(t) /\ t.st = "csi_param" /\ t.dfa = s.dfa /\ t.cp = s.cp
          /\ t.dcs = s.dcs
      BY <1>3, <2>1 DEF Bounded, Streams
    <2> HIDE DEF t
    <2>4. Sound(t)
      BY <1>1, <1>2, <2>3, InSequence
    <2> QED BY <2>2, <2>4 DEF Took
  <1>5. CASE b = Semicolon
    <2> DEFINE t == [param EXCEPT !.params = <<0>>]
    <2>1. 0 \in 0 .. MaxValue /\ 1 <= MaxParams
      BY LimitAssumption
    <2>2. <<0>> \in Seq(0 .. MaxValue) /\ Len(<<0>>) = 1
      BY <2>1
    <2>3. CsiEntryByte(s, b) = Took(1, t, <<>>)
      BY <1>5 DEF CsiEntryByte, Digits, Semicolon, Private, Finals
    <2> HIDE DEF param
    <2>4. /\ t \in Streams /\ t.st = "csi_param" /\ t.dfa = s.dfa /\ t.cp = s.cp
          /\ t.dcs = s.dcs /\ t.params = <<0>> /\ t.inter = param.inter
      BY <1>3, <2>2 DEF Bounded, Streams
    <2>5. Bounded(t)
      BY <1>3, <2>1, <2>2, <2>4 DEF Bounded
    <2> HIDE DEF t
    <2>6. Sound(t)
      BY <1>1, <1>2, <2>4, <2>5, InSequence
    <2> QED BY <2>3, <2>6 DEF Took
  <1>6. CASE b \in Private
    <2>1. CsiEntryByte(s, b) = Took(1, Collect(param, b), <<>>)
      BY <1>0, <1>6 DEF CsiEntryByte
    <2> HIDE DEF param
    <2>2. Bounded(Collect(param, b)) /\ Kept(param, Collect(param, b))
      BY <1>3, CollectBounded
    <2>3. Sound(Collect(param, b))
      BY <1>1, <1>2, <1>3, <2>2, InSequence DEF Kept
    <2> QED BY <2>1, <2>3 DEF Took
  <1>7. CASE b \in Finals
    <2>1. CsiEntryByte(s, b) = Took(1, done.s, done.calls)
      BY <1>7 DEF CsiEntryByte, Digits, Semicolon, Private, Finals
    <2>2. Sound(done.s)
      BY <1>1, DispatchSound
    <2> HIDE DEF done
    <2> QED BY <2>1, <2>2 DEF Took
  <1>8. CASE b \notin Digits \union {Semicolon} \union Private \union Finals
    BY <1>8 DEF CsiEntryByte, Took
  <1> QED BY <1>4, <1>5, <1>6, <1>7, <1>8

(* The parameters in bulk.                                                 *)
KeptBounded(s, t) == Bounded(t) /\ Kept(s, t)

Bulk == INSTANCE FoldFacts WITH Step <- BulkParam, Inv <- KeptBounded

LEMMA BulkFolds == \A base, bytes : FoldLeft(BulkParam, base, bytes) = Bulk!Fold(base, bytes)
  BY Zenon DEF FoldLeft, Bulk!FoldLeft, MapThenFoldSet, Bulk!MapThenFoldSet,
     Max, Bulk!Max, Bulk!Fold

Numeric == Digits \union {Colon, Semicolon}

LEMMA BulkParamBounded ==
    ASSUME NEW s, NEW t, KeptBounded(s, t), NEW b \in Numeric
    PROVE  KeptBounded(s, BulkParam(t, b))
  <1>1. CASE b \in Digits
    <2>1. b \in 48 .. 57
      BY <1>1 DEF Digits
    <2>2. CASE ParamsFull(t)
      BY <1>1, <2>2 DEF BulkParam, BulkDigit
    <2>3. CASE ~ParamsFull(t)
      <3> DEFINE digits == IF t.digits = 0 THEN 1 ELSE t.digits
      <3>1. WithDigit(t.acc, b) \in 0 .. MaxValue
        BY <2>1, WithDigitBounded DEF KeptBounded, Bounded, Streams
      <3>2. digits \in 0 .. DigitWrap - 1
        BY LimitAssumption DEF KeptBounded, Bounded, Streams
      <3>3. BulkParam(t, b) = [t EXCEPT !.acc = WithDigit(t.acc, b), !.digits = digits]
        BY <1>1, <2>3 DEF BulkParam, BulkDigit
      <3> HIDE DEF digits
      <3> QED BY <3>1, <3>2, <3>3 DEF KeptBounded, Bounded, Streams, Kept
    <2> QED BY <2>2, <2>3
  <1>2. CASE b \notin Digits
    <2>1. BulkParam(t, b) = Separated(t, b)
      BY <1>2 DEF BulkParam
    <2>2. Bounded(Separated(t, b)) /\ Kept(t, Separated(t, b))
      BY SeparatedBounded DEF KeptBounded
    <2> QED BY <2>1, <2>2 DEF KeptBounded, Kept
  <1> QED BY <1>1, <1>2

LEMMA BulkParamsSound ==
    ASSUME NEW s, Sound(s), s.st = "csi_param", NEW input \in Seq(Bytes)
    PROVE  Takes(BulkParams(s, input), 0, input)
  <1> DEFINE n == Run(input, Numeric)
             t == FoldLeft(BulkParam, s, SubSeq(input, 1, n))
             done == Grounded(CsiDispatch(t, input[n + 1]))
  <1>1. n \in 0 .. Len(input) /\ \A i \in 1 .. n : input[i] \in Numeric
    BY RunEnds
  <1>2. BulkParams(s, input) =
          IF n < Len(input) /\ input[n + 1] \in Finals
          THEN Took(n + 1, done.s, done.calls) ELSE Took(n, t, <<>>)
    BY DEF BulkParams, Numeric
  <1>3. Bounded(s) /\ s.st \notin {"ground", "dcs_passthrough"} /\ s.st \notin Beginnings
    BY DEF Sound, Beginnings
  <1>4. KeptBounded(s, t)
    <2> DEFINE bytes == SubSeq(input, 1, n)
    <2>1. bytes \in Seq(Numeric)
      <3> HIDE DEF n
      <3> QED BY <1>1, PrefixTyped
    <2>2. \A u : \A b \in Numeric : KeptBounded(s, u) => KeptBounded(s, BulkParam(u, b))
      BY BulkParamBounded
    <2>3. KeptBounded(s, s)
      BY <1>3 DEF KeptBounded, Kept
    <2> HIDE DEF bytes
    <2>4. KeptBounded(s, Bulk!Fold(s, bytes))
      BY <2>1, <2>2, <2>3, Bulk!FoldKeeps
    <2>5. KeptBounded(s, FoldLeft(BulkParam, s, bytes))
      BY <2>4, BulkFolds
    <2> QED BY <2>5 DEF bytes
  <1> HIDE DEF t
  <1>5. Sound(done.s)
    BY <1>3, <1>4, DispatchSound DEF KeptBounded, Kept
  <1>6. Sound(t)
    BY <1>3, <1>4, InSequence DEF KeptBounded, Kept
  <1> HIDE DEF n, done
  <1>7. CASE n < Len(input) /\ input[n + 1] \in Finals
    <2>1. n + 1 \in 0 .. Len(input)
      BY <1>1, <1>7
    <2> QED BY <1>2, <1>5, <1>7, <2>1 DEF Takes, Took
  <1>8. CASE ~(n < Len(input) /\ input[n + 1] \in Finals)
    BY <1>1, <1>2, <1>6, <1>8 DEF Takes, Took
  <1> QED BY <1>7, <1>8

LEMMA ApcRunSound ==
    ASSUME NEW s, Sound(s), NEW input \in Seq(Bytes)
    PROVE  Takes(ApcRun(s, input), 0, input)
  <1> DEFINE set == (0 .. 127) \ {24, 26, ESC}
             n == Run(input, set)
  <1>1. n \in 0 .. Len(input)
    <2> HIDE DEF set
    <2> QED BY RunEnds
  <1>2. ApcRun(s, input).n = n /\ ApcRun(s, input).s = s
    BY DEF ApcRun, Took
  <1> HIDE DEF n
  <1> QED BY <1>1, <1>2 DEF Takes

-----------------------------------------------------------------------------
(* Text.  What decode_wellformed_multibyte takes is there, and is a        *)
(* character.                                                              *)
Follows(input, n) ==
    /\ Len(input) >= n
    /\ input[2] \in Second(input[1])
    /\ \A i \in 3 .. n : input[i] \in Cont

Two(input) == [n |-> 2, cp |-> (input[1] % 32) * 64 + (input[2] % 64)]
Three(input) ==
    [n |-> 3, cp |-> (input[1] % 16) * 4096 + (input[2] % 64) * 64 + (input[3] % 64)]
Four(input) ==
    [n |-> 4, cp |-> (input[1] % 8) * 262144 + (input[2] % 64) * 4096 + (input[3] % 64) * 64
                     + (input[4] % 64)]
None == [n |-> 0, cp |-> 0]

LEMMA WellFormedIs ==
    ASSUME NEW input
    PROVE  \/ /\ input[1] \in 194 .. 223 /\ Follows(input, 2)
              /\ WellFormed(input) = Two(input)
           \/ /\ input[1] \in 224 .. 239 /\ Follows(input, 3)
              /\ WellFormed(input) = Three(input)
           \/ /\ input[1] \in 240 .. 244 /\ Follows(input, 4)
              /\ WellFormed(input) = Four(input)
           \/ WellFormed(input) = None
  <1> DEFINE lead2 == input[1] \in 194 .. 223
             lead3 == input[1] \in 224 .. 239
             lead4 == input[1] \in 240 .. 244
  <1>1. WellFormed(input) = CASE lead2 /\ Follows(input, 2) -> Two(input)
                              [] lead3 /\ Follows(input, 3) -> Three(input)
                              [] lead4 /\ Follows(input, 4) -> Four(input)
                              [] OTHER -> None
    BY DEF WellFormed, Follows, Two, Three, Four, None
  <1>2. ~(lead2 /\ lead3) /\ ~(lead2 /\ lead4) /\ ~(lead3 /\ lead4)
    OBVIOUS
  <1> HIDE DEF lead2, lead3, lead4
  <1>3. \/ lead2 /\ Follows(input, 2) /\ WellFormed(input) = Two(input)
        \/ lead3 /\ Follows(input, 3) /\ WellFormed(input) = Three(input)
        \/ lead4 /\ Follows(input, 4) /\ WellFormed(input) = Four(input)
        \/ WellFormed(input) = None
    BY <1>1, <1>2
  <1> QED BY <1>3 DEF lead2, lead3, lead4

(* What the bits of a byte say, by its range.                              *)
LEMMA BitsOf ==
    ASSUME NEW b \in 0 .. 255
    PROVE  /\ b % 64 \in 0 .. 63
           /\ b \in 128 .. 191 => b % 64 = b - 128
           /\ b \in 194 .. 223 => b % 32 = b - 192
           /\ b \in 224 .. 239 => b % 16 = b - 224
           /\ b \in 240 .. 244 => b % 8 = b - 240
  OBVIOUS

THEOREM WellFormedSound ==
    ASSUME NEW D, D \subseteq 0 .. 255, NEW input \in Seq(D), input # <<>>
    PROVE  /\ WellFormed(input).n \in 0 .. Len(input)
           /\ WellFormed(input).n > 0 => WellFormed(input).cp \in Scalars
  <1>1. Len(input) \in Nat /\ Len(input) >= 1
        /\ \A i \in 1 .. Len(input) : input[i] \in 0 .. 255
    <2>1. Len(input) \in Nat \ {0}
      BY EmptySeq
    <2>2. ASSUME NEW i \in 1 .. Len(input) PROVE input[i] \in 0 .. 255
      BY ElementOfSeq
    <2> QED BY <2>1, <2>2
  <1> DEFINE low(i) == input[i] % 64
  <1>3. CASE input[1] \in 194 .. 223 /\ Follows(input, 2) /\ WellFormed(input) = Two(input)
    <2>1. Len(input) >= 2 /\ input[2] \in 0 .. 255
      BY <1>1, <1>3 DEF Follows
    <2> DEFINE h == input[1] % 32
               m == low(2)
    <2>3. WellFormed(input) = [n |-> 2, cp |-> h * 64 + m]
      BY <1>3 DEF Two
    <2>4. h \in 2 .. 31 /\ m \in 0 .. 63
      <3> DEFINE b1 == input[1]
                 b2 == input[2]
      <3>1. b1 \in 194 .. 223 /\ b1 \in 0 .. 255 /\ b2 \in 0 .. 255
        BY <1>3, <2>1
      <3> HIDE DEF b1, b2
      <3>2. b1 % 32 \in 2 .. 31 /\ b2 % 64 \in 0 .. 63
        BY <3>1, BitsOf
      <3> QED BY <3>2 DEF b1, b2
    <2> HIDE DEF h, m
    <2>5. h * 64 + m \in Nat /\ h * 64 + m < 2048
      BY <2>4
    <2> QED BY <1>1, <2>1, <2>3, <2>5 DEF Scalars
  <1>4. CASE input[1] \in 224 .. 239 /\ Follows(input, 3) /\ WellFormed(input) = Three(input)
    <2>1. Len(input) >= 3 /\ input[2] \in 0 .. 255 /\ input[3] \in 0 .. 255
      BY <1>1, <1>4 DEF Follows
    <2>2. input[1] = 237 => input[2] \in 128 .. 159
      BY <1>4 DEF Follows, Second
    <2> DEFINE h == input[1] % 16
               m == low(2)
               l == low(3)
    <2>3. WellFormed(input) = [n |-> 3, cp |-> h * 4096 + m * 64 + l]
      BY <1>4 DEF Three
    <2>4. /\ h \in 0 .. 15 /\ m \in 0 .. 63 /\ l \in 0 .. 63
          /\ h = 13 => m \in 0 .. 31
      <3> DEFINE b1 == input[1]
                 b2 == input[2]
                 b3 == input[3]
      <3>1. /\ b1 \in 224 .. 239 /\ b1 \in 0 .. 255 /\ b2 \in 0 .. 255 /\ b3 \in 0 .. 255
            /\ b1 = 237 => b2 \in 128 .. 159
        BY <1>4, <2>1, <2>2
      <3> HIDE DEF b1, b2, b3
      <3>2. /\ b1 % 16 \in 0 .. 15 /\ b2 % 64 \in 0 .. 63 /\ b3 % 64 \in 0 .. 63
            /\ b1 % 16 = 13 => b2 % 64 \in 0 .. 31
        BY <3>1, BitsOf
      <3> QED BY <3>2 DEF b1, b2, b3
    <2> HIDE DEF h, m, l
    <2>6. /\ h * 4096 + m * 64 + l \in Nat /\ h * 4096 + m * 64 + l < 17 * 256 * 256
          /\ h * 4096 + m * 64 + l < 216 * 256 \/ h * 4096 + m * 64 + l >= 224 * 256
      BY <2>4
    <2> QED BY <1>1, <2>1, <2>3, <2>6 DEF Scalars
  <1>5. CASE input[1] \in 240 .. 244 /\ Follows(input, 4) /\ WellFormed(input) = Four(input)
    <2>1. /\ Len(input) >= 4 /\ input[2] \in 0 .. 255 /\ input[3] \in 0 .. 255
          /\ input[4] \in 0 .. 255
      BY <1>1, <1>5 DEF Follows
    <2>2. /\ input[1] = 240 => input[2] \in 144 .. 191
          /\ input[1] = 244 => input[2] \in 128 .. 143
      BY <1>5 DEF Follows, Second
    <2> DEFINE h == input[1] % 8
               k == low(2)
               m == low(3)
               l == low(4)
    <2>3. /\ WellFormed(input).n = 4
          /\ WellFormed(input).cp = h * 64 * 64 * 64 + k * 4096 + m * 64 + l
      <3>1. 262144 = 64 * 64 * 64
        BY SMT
      <3> QED BY SMT, <1>5, <3>1 DEF Four
    <2>4. /\ h \in 0 .. 4 /\ k \in 0 .. 63 /\ m \in 0 .. 63 /\ l \in 0 .. 63
          /\ h = 0 => k \in 16 .. 63
          /\ h = 4 => k \in 0 .. 15
      <3> DEFINE b1 == input[1]
                 b2 == input[2]
                 b3 == input[3]
                 b4 == input[4]
      <3>1. /\ b1 \in 240 .. 244 /\ b1 \in 0 .. 255 /\ b2 \in 0 .. 255 /\ b3 \in 0 .. 255
            /\ b4 \in 0 .. 255
            /\ b1 = 240 => b2 \in 144 .. 191
            /\ b1 = 244 => b2 \in 128 .. 143
        BY <1>5, <2>1, <2>2
      <3> HIDE DEF b1, b2, b3, b4
      <3>2. /\ b1 % 8 \in 0 .. 4 /\ b2 % 64 \in 0 .. 63 /\ b3 % 64 \in 0 .. 63
            /\ b4 % 64 \in 0 .. 63
            /\ b1 % 8 = 0 => b2 % 64 \in 16 .. 63
            /\ b1 % 8 = 4 => b2 % 64 \in 0 .. 15
        BY <3>1, BitsOf
      <3> QED BY <3>2 DEF b1, b2, b3, b4
    <2> HIDE DEF h, k, m, l
    <2> DEFINE cp == h * 64 * 64 * 64 + k * 4096 + m * 64 + l
    <2>6. cp \in Nat /\ cp < 17 * 256 * 256 /\ cp >= 224 * 256
      BY <2>4
    <2>7. WellFormed(input).cp = cp
      BY <2>3
    <2> HIDE DEF cp
    <2>8. cp \in Scalars
      BY <2>6 DEF Scalars
    <2> QED BY <1>1, <2>1, <2>3, <2>7, <2>8
  <1>6. CASE WellFormed(input) = None
    BY <1>1, <1>6 DEF None
  <1> QED BY <1>3, <1>4, <1>5, <1>6, WellFormedIs

LEMMA FirstByte ==
    ASSUME NEW input \in Seq(Bytes), input # <<>>
    PROVE  Len(input) \in Nat \ {0} /\ input[1] \in Bytes /\ input[1] \in 0 .. 255
  <1>1. Len(input) \in Nat \ {0}
    BY EmptySeq
  <1>2. input[1] \in Bytes
    BY <1>1, ElementOfSeq
  <1> QED BY <1>1, <1>2, ByteAssumption

LEMMA ScanSound ==
    ASSUME NEW s, Sound(s), s.st = "ground", NEW input \in Seq(Bytes), input # <<>>
    PROVE  Takes(Scan(s, input), 0, input) /\ Scan(s, input).s.st = "ground"
  <1> DEFINE well == WellFormed(input)
             d == Decoded(s, input[1])
             n == Run(input, (0 .. 127) \ {ESC})
             r == Scan(s, input)
  <1>1. Len(input) \in Nat \ {0} /\ input[1] \in 0 .. 255
    BY FirstByte
  <1>2. r = IF ~Partial(s) /\ input[1] < 128
            THEN [n |-> n, s |-> s, cps |-> SubSeq(input, 1, n)]
            ELSE IF ~Partial(s) /\ well.n > 0 THEN [n |-> well.n, s |-> s, cps |-> <<well.cp>>]
            ELSE [n |-> IF d.taken THEN 1 ELSE 0, s |-> d.s, cps |-> d.cps]
    BY DEF Scan
  <1>3. n \in 0 .. Len(input)
    BY RunEnds
  <1>4. well.n \in 0 .. Len(input)
    BY WellFormedSound, ByteAssumption
  <1>5. Sound(d.s) /\ d.s.st = "ground"
    <2> DEFINE b == input[1]
    <2>1. b \in 0 .. 255
      BY <1>1
    <2> HIDE DEF b
    <2>2. Sound(Decoded(s, b).s) /\ Decoded(s, b).s.st = "ground"
      BY <2>1, DecodedSound
    <2> QED BY <2>2 DEF b
  <1> HIDE DEF well, d, n, r
  <1>6. /\ r.n \in {n, well.n, 0, 1}
        /\ r.s = s \/ r.s = d.s
    BY <1>2
  <1>7. r.n \in 0 .. Len(input)
    BY <1>1, <1>3, <1>4, <1>6
  <1>8. Sound(r.s) /\ r.s.st = "ground"
    BY <1>5, <1>6
  <1> QED BY <1>7, <1>8 DEF Takes, r

(* What goes round in decode_until_control_seq.                            *)
GoingRound(length, d) ==
    /\ d.n \in Nat /\ d.rest \in Seq(Bytes)
    /\ d.n + Len(d.rest) = length
    /\ Sound(d.s) /\ d.s.st = "ground"

Rounds == INSTANCE FoldFacts WITH Step <- DecodeOn, Inv <- GoingRound

LEMMA RoundFolds == \A base, input : FoldLeft(DecodeOn, base, input) = Rounds!Fold(base, input)
  BY Zenon DEF FoldLeft, Rounds!FoldLeft, MapThenFoldSet, Rounds!MapThenFoldSet,
     Max, Rounds!Max, Rounds!Fold

LEMMA DecodeOnGoes ==
    ASSUME NEW length, NEW d, GoingRound(length, d), NEW round
    PROVE  GoingRound(length, DecodeOn(d, round))
  <1>1. CASE d.rest = <<>> \/ d.rest[1] = ESC
    BY <1>1 DEF DecodeOn
  <1>2. CASE ~(d.rest = <<>> \/ d.rest[1] = ESC)
    <2> DEFINE found == Scan(d.s, d.rest)
               rest == d.rest
               e == DecodeOn(d, round)
    <2>1. rest \in Seq(Bytes) /\ rest # <<>> /\ Sound(d.s) /\ d.s.st = "ground"
      BY <1>2 DEF GoingRound
    <2>2. found.n \in 0 .. Len(rest) /\ Sound(found.s) /\ found.s.st = "ground"
      <3> HIDE DEF rest
      <3>1. Takes(Scan(d.s, rest), 0, rest) /\ Scan(d.s, rest).s.st = "ground"
        BY <2>1, ScanSound
      <3> QED BY <3>1 DEF Takes, rest
    <2>3. e.n = d.n + found.n /\ e.s = found.s /\ e.rest = Rest(rest, found.n)
      BY <1>2 DEF DecodeOn, Scanned
    <2>4. d.n \in Nat /\ d.n + Len(rest) = length
      BY DEF GoingRound
    <2> HIDE DEF found, rest, e
    <2>5. e.rest \in Seq(Bytes) /\ Len(e.rest) = Len(rest) - found.n
      BY <2>1, <2>2, <2>3, RestTyped
    <2>6. Len(rest) \in Nat
      BY <2>1
    <2>7. e.n \in Nat /\ e.n + Len(e.rest) = length
      BY <2>2, <2>3, <2>4, <2>5, <2>6
    <2> QED BY <2>2, <2>3, <2>5, <2>7 DEF GoingRound, e
  <1> QED BY <1>1, <1>2

LEMMA TextRunSound ==
    ASSUME NEW s, Sound(s), s.st = "ground", NEW input \in Seq(Bytes)
    PROVE  Takes(TextRun(s, input), 0, input)
  <1> DEFINE base == [n |-> 0, s |-> s, cps |-> <<>>, rest |-> input]
             twice == input \o input
             d == DecodeUntilControl(s, input)
             length == Len(input)
  <1>1. GoingRound(length, base)
    BY DEF GoingRound
  <1>2. twice \in Seq(Bytes)
    OBVIOUS
  <1>3. \A e : \A b \in Bytes : GoingRound(length, e) => GoingRound(length, DecodeOn(e, b))
    BY DecodeOnGoes
  <1>4. d = Rounds!Fold(base, twice)
    BY RoundFolds DEF DecodeUntilControl
  <1>5. length \in Nat
    OBVIOUS
  <1> HIDE DEF base, twice, d, length
  <1>6. GoingRound(length, Rounds!Fold(base, twice))
    BY <1>1, <1>2, <1>3, Rounds!FoldKeeps
  <1>7. d.n \in Nat /\ Len(d.rest) \in Nat /\ d.n + Len(d.rest) = length /\ Sound(d.s)
    BY <1>4, <1>6 DEF GoingRound
  <1>8. d.n \in 0 .. length
    BY <1>5, <1>7
  <1>9. TextRun(s, input).n = d.n /\ TextRun(s, input).s = d.s
    BY DEF TextRun, GroundRun, Took, d
  <1> QED BY <1>7, <1>8, <1>9 DEF Takes, length

-----------------------------------------------------------------------------
(* feed.  Every turn takes a byte at least and leaves a sound stream.      *)
LEMMA OneByteSound ==
    ASSUME NEW s, Sound(s), NEW input \in Seq(Bytes), input # <<>>
    PROVE  Takes(OneByte(s, input), 1, input)
  <1> DEFINE b == input[1]
  <1>1. Len(input) \in Nat \ {0} /\ b \in Bytes
    BY FirstByte
  <1>2. OneByte(s, input).n = 1 /\ OneByte(s, input).s = NextByte(s, b).s
    BY DEF OneByte, Single, Took
  <1> HIDE DEF b
  <1>3. Sound(NextByte(s, b).s)
    BY <1>1, NextByteSound
  <1>4. 1 \in 1 .. Len(input)
    BY <1>1
  <1> QED BY <1>2, <1>3, <1>4 DEF Takes

LEMMA OrOneByteSound ==
    ASSUME NEW s, Sound(s), NEW input \in Seq(Bytes), input # <<>>,
           NEW fast, Takes(fast, 0, input)
    PROVE  Takes(OrOneByte(fast, s, input), 1, input)
  <1>1. CASE fast.n > 0
    <2>1. OrOneByte(fast, s, input) = fast
      BY <1>1 DEF OrOneByte
    <2>2. fast.n \in 1 .. Len(input)
      BY <1>1 DEF Takes
    <2> QED BY <2>1, <2>2 DEF Takes
  <1>2. CASE ~(fast.n > 0)
    BY <1>2, OneByteSound DEF OrOneByte
  <1> QED BY <1>1, <1>2

LEMMA TurnSound ==
    ASSUME NEW s, Sound(s), NEW input \in Seq(Bytes), input # <<>>
    PROVE  Takes(Turn(s, input), 1, input)
  <1> DEFINE none == Took(0, s, <<>>)
  <1>1. CASE Partial(s)
    BY <1>1, OneByteSound DEF Turn
  <1>2. CASE ~Partial(s) /\ s.st = "ground"
    BY <1>2, TextRunSound, OrOneByteSound DEF Turn, Ground
  <1>3. CASE ~Partial(s) /\ s.st # "ground"
    <2>0. Len(input) \in Nat \ {0} /\ input[1] \in Bytes
      BY FirstByte
    <2>1. Takes(none, 0, input)
      BY <2>0 DEF Took, Takes
    <2> DEFINE entry == Took(1, [s EXCEPT !.st = "csi_entry"], <<>>)
    <2>2. ASSUME s.st = "escape" PROVE Takes(entry, 0, input)
      <3> DEFINE t == [s EXCEPT !.st = "csi_entry"]
      <3>1. s \in Streams /\ Bounded(s) /\ s = Cleared(s)
        BY <2>2 DEF Sound, Bounded, Fresh, Beginnings
      <3>2. "csi_entry" \in StateNames
        BY DEF StateNames
      <3>3. Bounded(t) /\ t.st = "csi_entry" /\ t = Cleared(t)
        BY <3>1, <3>2, AtBounded
      <3>4. t.dfa = s.dfa /\ t.cp = s.cp /\ t.dcs = s.dcs
        BY <3>1 DEF Streams
      <3> HIDE DEF t
      <3>5. Sound(t)
        BY <2>2, <3>3, <3>4, InSequence
      <3>6. entry.s = t /\ entry.n = 1
        BY DEF Took, t
      <3> HIDE DEF entry
      <3> QED BY <2>0, <3>5, <3>6 DEF Takes
    <2>3. ASSUME s.st = "csi_entry" PROVE Takes(CsiEntryByte(s, input[1]), 0, input)
      <3> DEFINE b == input[1]
      <3>1. b \in Bytes
        BY <2>0
      <3> HIDE DEF b
      <3>2. CsiEntryByte(s, b).n \in 0 .. 1 /\ Sound(CsiEntryByte(s, b).s)
        BY <2>3, <3>1, CsiEntryByteSound
      <3>3. CsiEntryByte(s, b).n \in 0 .. Len(input)
        BY <2>0, <3>2
      <3> QED BY <3>2, <3>3 DEF Takes, b
    <2>4. ASSUME s.st = "csi_param" PROVE Takes(BulkParams(s, input), 0, input)
      BY <2>4, BulkParamsSound
    <2>5. Takes(ApcRun(s, input), 0, input)
      BY ApcRunSound
    <2> DEFINE fast ==
          CASE s.st = "escape" /\ input[1] = 91 -> entry
            [] s.st = "csi_entry" -> CsiEntryByte(s, input[1])
            [] s.st = "csi_param" -> BulkParams(s, input)
            [] s.st = "sos_pm_apc_string" -> ApcRun(s, input)
            [] OTHER -> none
    <2>6. Turn(s, input) = OrOneByte(fast, s, input)
      BY <1>3 DEF Turn, NonGround
    <2> HIDE DEF entry, none
    <2>7. Takes(fast, 0, input)
      BY <2>1, <2>2, <2>3, <2>4, <2>5
    <2> HIDE DEF fast
    <2> QED BY <2>6, <2>7, OrOneByteSound
  <1> QED BY <1>1, <1>2, <1>3

(* What is left to feed.                                                   *)
Feeding(c, f) == Sound(f.s) /\ f.rest \in Seq(Bytes)

Turns == INSTANCE FoldFacts WITH Step <- FeedOn, Inv <- Feeding

LEMMA TurnFolds == \A base, input : FoldLeft(FeedOn, base, input) = Turns!Fold(base, input)
  BY Zenon DEF FoldLeft, Turns!FoldLeft, MapThenFoldSet, Turns!MapThenFoldSet,
     Max, Turns!Max, Turns!Fold

LEMMA FeedOnFeeds ==
    ASSUME NEW f, Feeding({}, f), NEW byte
    PROVE  /\ Feeding({}, FeedOn(f, byte))
           /\ f.rest # <<>> => Len(FeedOn(f, byte).rest) < Len(f.rest)
  <1>1. CASE f.rest = <<>>
    BY <1>1 DEF FeedOn
  <1>2. CASE f.rest # <<>>
    <2> DEFINE turn == Turn(f.s, f.rest)
               rest == f.rest
               g == FeedOn(f, byte)
    <2>1. rest \in Seq(Bytes) /\ rest # <<>> /\ Sound(f.s)
      BY <1>2 DEF Feeding
    <2>2. turn.n \in 1 .. Len(rest) /\ Sound(turn.s)
      <3> HIDE DEF rest
      <3>1. Takes(Turn(f.s, rest), 1, rest)
        BY <2>1, TurnSound
      <3> QED BY <3>1 DEF Takes, rest
    <2>3. g.s = turn.s /\ g.rest = Rest(rest, turn.n)
      BY <1>2 DEF FeedOn, Fed
    <2> HIDE DEF turn, rest, g
    <2>4. Len(rest) \in Nat /\ turn.n \in 0 .. Len(rest)
      BY <2>1, <2>2
    <2>5. g.rest \in Seq(Bytes) /\ Len(g.rest) = Len(rest) - turn.n
      BY <2>1, <2>3, <2>4, RestTyped
    <2>6. Len(g.rest) < Len(rest)
      BY <2>2, <2>4, <2>5
    <2> QED BY <2>2, <2>3, <2>5, <2>6 DEF Feeding, g, rest
  <1> QED BY <1>1, <1>2

(* Whatever is fed, and however it is cut, the stream is sound after it.   *)
THEOREM FeedSound ==
    ASSUME NEW s, Sound(s), NEW input \in Seq(Bytes)
    PROVE  Sound(Feed(s, input).s)
  <1> DEFINE base == [s |-> s, calls |-> <<>>, rest |-> input]
  <1>1. Feeding({}, base)
    BY DEF Feeding
  <1>2. \A f : \A b \in Bytes : Feeding({}, f) => Feeding({}, FeedOn(f, b))
    BY FeedOnFeeds
  <1>3. Feed(s, input) = Turns!Fold(base, input)
    BY TurnFolds DEF Feed
  <1> HIDE DEF base
  <1>4. Feeding({}, Turns!Fold(base, input))
    BY <1>1, <1>2, Turns!FoldKeeps
  <1> QED BY <1>3, <1>4 DEF Feeding

(* feed's loop ends with nothing left: there are as many turns as bytes,   *)
(* and each takes one at least.                                            *)
THEOREM FeedEnds ==
    ASSUME NEW s, Sound(s), NEW input \in Seq(Bytes)
    PROVE  Feed(s, input).rest = <<>>
  <1> DEFINE base == [s |-> s, calls |-> <<>>, rest |-> input]
  <1>1. Feeding({}, base) /\ base.rest = input
    BY DEF Feeding
  <1>2. Feed(s, input) = Turns!Fold(base, input)
    BY TurnFolds DEF Feed
  <1> HIDE DEF base
  <1>3. PICK acc : /\ DOMAIN acc = 0 .. Len(input)
                   /\ acc[0] = base
                   /\ \A k \in 1 .. Len(input) : acc[k] = FeedOn(acc[k - 1], input[k])
                   /\ Turns!Fold(base, input) = acc[Len(input)]
    BY Turns!Folded
  <1> DEFINE left(k) == Len(acc[k].rest)
             done == { k \in Nat : k <= Len(input) =>
                         Feeding({}, acc[k]) /\ left(k) <= Len(input) - k }
  <1>4. Len(input) \in Nat
    OBVIOUS
  <1>5. 0 \in done
    BY <1>1, <1>3, <1>4
  <1>6. ASSUME NEW k \in done PROVE k + 1 \in done
    <2>1. CASE k + 1 <= Len(input)
      <3>1. /\ k \in Nat /\ k <= Len(input) /\ k + 1 \in 1 .. Len(input) /\ (k + 1) - 1 = k
        BY <1>4, <2>1
      <3>2. Feeding({}, acc[k]) /\ left(k) <= Len(input) - k
        BY <3>1
      <3>3. acc[k + 1] = FeedOn(acc[k], input[k + 1])
        BY <1>3, <3>1
      <3>4. /\ Feeding({}, acc[k + 1])
            /\ acc[k].rest # <<>> => left(k + 1) < left(k)
        BY <3>2, <3>3, FeedOnFeeds
      <3>5. left(k) \in Nat /\ left(k + 1) \in Nat
        BY <3>2, <3>4 DEF Feeding
      <3>6. left(k + 1) <= Len(input) - (k + 1)
        <4>1. CASE acc[k].rest = <<>>
          <5>1. acc[k + 1] = acc[k]
            BY <3>3, <4>1 DEF FeedOn
          <5>2. left(k + 1) = 0
            BY <4>1, <5>1
          <5> HIDE DEF left
          <5> QED BY <1>4, <2>1, <3>1, <5>2
        <4>2. CASE acc[k].rest # <<>>
          <5>1. left(k + 1) < left(k)
            BY <3>4, <4>2
          <5> HIDE DEF left
          <5> QED BY <1>4, <3>1, <3>2, <3>5, <5>1
        <4> QED BY <4>1, <4>2
      <3> QED BY <3>1, <3>4, <3>6
    <2>2. CASE ~(k + 1 <= Len(input))
      BY <2>2
    <2> QED BY <2>1, <2>2
  <1>7. Len(input) \in done
    <2>1. done \subseteq Nat
      OBVIOUS
    <2> HIDE DEF done
    <2> QED BY <1>4, <1>5, <1>6, <2>1, Turns!NatSetInduction
  <1>8. Feeding({}, acc[Len(input)]) /\ left(Len(input)) <= 0
    BY <1>4, <1>7
  <1>9. acc[Len(input)].rest = <<>>
    BY <1>8, EmptySeq DEF Feeding
  <1> QED BY <1>2, <1>3, <1>9

-----------------------------------------------------------------------------
(* ESC, from anywhere.                                                     *)

LEMMA EscapeEdge ==
    ASSUME NEW st \in States, ESC \in Bytes
    PROVE  Table[ESC][st] = [to |-> "escape", do |-> "none"]
  <1> DEFINE here == { r \in Rules[st] : ESC \in r[1] }
             any == { r \in Anywhere(st) : ESC \in r[1] }
             rule == IF here # {} THEN CHOOSE r \in here : TRUE
                     ELSE IF any # {} THEN CHOOSE r \in any : TRUE
                     ELSE <<{ESC}, st, "none">>
  <1>1. \A r \in Rules[st] : ESC \notin r[1]
    <2> USE DEF ESC, C0, Intermediates, Digits, Private, Finals, Colon, Semicolon
    <2>1. CASE st = "ground"
      BY <2>1 DEF Rules
    <2>2. CASE st = "escape"
      BY <2>2 DEF Rules
    <2>3. CASE st = "escape_intermediate"
      BY <2>3 DEF Rules
    <2>4. CASE st = "csi_entry"
      BY <2>4 DEF Rules
    <2>5. CASE st = "csi_param"
      BY <2>5 DEF Rules
    <2>6. CASE st = "csi_intermediate"
      BY <2>6 DEF Rules
    <2>7. CASE st = "csi_ignore"
      BY <2>7 DEF Rules
    <2>8. CASE st = "dcs_entry"
      BY <2>8 DEF Rules
    <2>9. CASE st = "dcs_param"
      BY <2>9 DEF Rules
    <2>10. CASE st = "dcs_intermediate"
      BY <2>10 DEF Rules
    <2>11. CASE st = "dcs_passthrough"
      BY <2>11 DEF Rules
    <2>12. CASE st = "dcs_ignore"
      BY <2>12 DEF Rules
    <2>13. CASE st = "osc_string"
      BY <2>13 DEF Rules
    <2>14. CASE st = "sos_pm_apc_string"
      BY <2>14 DEF Rules
    <2> QED BY <2>1, <2>2, <2>3, <2>4, <2>5, <2>6, <2>7, <2>8, <2>9, <2>10, <2>11,
         <2>12, <2>13, <2>14, StatesNamed DEF StateNames
  <1>2. any = {<<{ESC}, "escape", "none">>}
    BY DEF Anywhere, ESC
  <1>3. rule = <<{ESC}, "escape", "none">>
    BY <1>1, <1>2
  <1>4. Table[ESC][st] = [to |-> rule[2], do |-> rule[3]]
    BY DEF Table
  <1> HIDE DEF rule
  <1> QED BY <1>3, <1>4

(* ESC leaves whatever was going on, and nothing collected.                *)
LEMMA EscapeLeaves ==
    ASSUME NEW s, Sound(s), ESC \in Bytes
    PROVE  /\ NextByte(s, ESC).s.st = "escape" /\ NextByte(s, ESC).s.inter = <<>>
           /\ Sound(NextByte(s, ESC).s) /\ Listed(NextByte(s, ESC).calls)
  <1> DEFINE t == NextByte(s, ESC)
  <1>1. Sound(t.s)
    BY NextByteSound
  <1>2. t.s.st = "escape" /\ Listed(t.calls)
    <2>1. CASE s.st # "ground"
      <3>1. Table[ESC][s.st] = [to |-> "escape", do |-> "none"]
        BY EscapeEdge DEF Sound, Bounded, Streams
      <3>2. ParserNext(s, ESC).s.st = "escape"
        <4>1. ParserNext(s, ESC) = Transition(s, ESC, [to |-> "escape", do |-> "none"])
          BY <3>1 DEF ParserNext
        <4>2. CASE s.st = "escape"
          BY <4>1, <4>2 DEF Transition, Act, Result
        <4>3. CASE s.st # "escape"
          <5> DEFINE e == Entry(Act(s, "none", ESC).s, "escape", ESC).s
          <5>1. ParserNext(s, ESC).s = [e EXCEPT !.st = "escape"]
            BY <4>1, <4>3, TransitionLeaves
          <5>2. e = Cleared(s)
            BY DEF Entry, Act, Result
          <5>3. Bounded(Cleared(s)) /\ "escape" \in StateNames
            BY ClearedBounded DEF Sound, StateNames
          <5> HIDE DEF e
          <5>4. [e EXCEPT !.st = "escape"].st = "escape"
            BY <5>2, <5>3, AtBounded
          <5> QED BY <5>1, <5>4
        <4> QED BY <4>2, <4>3
      <3>3. NextNonUtf8(s, ESC).s.st = "escape" /\ Listed(NextNonUtf8(s, ESC).calls)
        BY <2>1, <3>2, NextNonUtf8Sound
      <3> QED BY <2>1, <3>3 DEF NextByte
    <2>2. CASE s.st = "ground"
      <3>1. ASSUME NEW u, Sound(u), u.st = "ground", ~Partial(u), NEW calls, Listed(calls)
            PROVE  /\ Decoded(u, ESC).taken
                   /\ Shown(Decoded(u, ESC), calls).s.st = "escape"
                   /\ Listed(Shown(Decoded(u, ESC), calls).calls)
        <4>1. Class(ESC) = 0
          BY DEF Class, ESC
        <4>2. u.dfa = 0 /\ Dfa(u.dfa, Class(ESC)) = 0
          BY <3>1, <4>1 DEF Partial, Accept, Dfa
        <4>3. ESC \in 0 .. 255
          BY ByteAssumption
        <4>4. LeadBits(ESC) = ESC
          BY <4>1, <4>3, LeadBitsOf
        <4> DEFINE v == [u EXCEPT !.dfa = Accept, !.cp = 0]
                   d == Decoded(u, ESC)
        <4>5. d = [s |-> v, cps |-> <<ESC>>, taken |-> TRUE]
          BY <3>1, <4>2, <4>4 DEF Decoded, Accept, Reject, Partial
        <4>6. v \in Streams /\ v.st = "ground"
          BY <3>1 DEF Sound, Bounded, Streams, DfaStates, Accept
        <4> DEFINE base == Result(v, calls)
        <4>7. Shown(d, calls) = Codepoint(base, ESC)
          <5>1. Shown(d, calls) = Codepoints!Fold(base, <<ESC>>)
            BY <4>5, CodepointFolds DEF Shown
          <5> HIDE DEF base
          <5> QED BY <5>1, Codepoints!FoldOne
        <4>8. Codepoint(base, ESC) = Result(Cleared([v EXCEPT !.st = "escape"]), calls)
          BY DEF Codepoint, ESC, Result
        <4> HIDE DEF v
        <4>9. Cleared([v EXCEPT !.st = "escape"]).st = "escape"
          BY <4>6 DEF Cleared, Streams
        <4> QED BY <3>1, <4>5, <4>7, <4>8, <4>9 DEF Result
      <3>2. NextByte(s, ESC) = Given(Decoded(s, ESC), ESC)
        BY <2>2 DEF NextByte, NextUtf8
      <3>3. CASE ~Partial(s)
        BY <2>2, <3>1, <3>2, <3>3, FewListed DEF Given
      <3>4. CASE Partial(s)
        <4>1. s.dfa \in DfaStates /\ s.dfa # 0 /\ Class(ESC) = 0
          BY <3>4 DEF Sound, Bounded, Streams, Partial, Accept, Class, ESC
        <4>2. Dfa(s.dfa, 0) = Reject
          BY <4>1 DEF Dfa, DfaStates
        <4> DEFINE v == [s EXCEPT !.dfa = Accept, !.cp = 0]
                   d == Decoded(s, ESC)
        <4>3. d.s = v /\ d.cps = <<Replacement>> /\ d.taken = FALSE
          <5>1. Dfa(s.dfa, Class(ESC)) = Reject
            BY <4>1, <4>2
          <5>2. d = [s |-> v, cps |-> <<Replacement>>, taken |-> ~Partial(s)]
            BY <5>1 DEF Decoded, Accept, Reject
          <5> HIDE DEF d, v
          <5>3. d.s = v /\ d.cps = <<Replacement>> /\ d.taken = ~Partial(s)
            BY <5>2
          <5> QED BY <3>4, <5>3
        <4>4. v.dfa = Accept
          BY DEF Sound, Bounded, Streams
        <4>5. ESC \in 0 .. 255
          BY ByteAssumption
        <4>6. Sound(d.s) /\ d.s.st = "ground"
          BY <2>2, <4>5, DecodedSound
        <4> HIDE DEF d, v
        <4>7. ~Partial(d.s)
          BY <4>3, <4>4 DEF Partial
        <4> DEFINE r == Shown(d, <<>>)
                   base == Result(v, <<>>)
        <4>8. r = Codepoint(base, Replacement)
          <5>1. r = Codepoints!Fold(base, <<Replacement>>)
            BY <4>3, CodepointFolds DEF Shown
          <5> HIDE DEF base, r
          <5> QED BY <5>1, Codepoints!FoldOne
        <4>9. r.s = d.s /\ r.calls = <<>> \o <<<<"print", Replacement>>>>
          <5>1. Codepoint(base, Replacement) =
                  Result(base.s, Append(base.calls, <<"print", Replacement>>))
            BY SMT DEF Codepoint, Replacement, ESC
          <5>2. base.s = v /\ base.calls = <<>>
            BY DEF Result
          <5>3. Append(<<>>, <<"print", Replacement>>) = <<>> \o <<<<"print", Replacement>>>>
            OBVIOUS
          <5> HIDE DEF base
          <5>4. Result(base.s, Append(base.calls, <<"print", Replacement>>)) =
                  Result(v, <<>> \o <<<<"print", Replacement>>>>)
            BY <5>2, <5>3
          <5> QED BY <4>3, <4>8, <5>1, <5>4 DEF Result
        <4>10. NextByte(s, ESC) = Shown(Decoded(r.s, ESC), r.calls)
          BY <3>2, <4>3 DEF Given, DecodedAgain, d
        <4> HIDE DEF d, r
        <4>11. Listed(r.calls)
          BY <4>9, FewListed, BothListed
        <4> QED BY <3>1, <4>6, <4>7, <4>9, <4>10, <4>11
      <3> QED BY <3>3, <3>4
    <2> QED BY <2>1, <2>2
  <1> HIDE DEF t
  <1>3. t.s = Cleared(t.s) /\ t.s \in Streams
    BY <1>1, <1>2 DEF Sound, Bounded, Fresh, Beginnings
  <1>4. t.s.inter = <<>>
    BY <1>3 DEF Cleared, Streams
  <1> QED BY <1>1, <1>2, <1>4 DEF t

(* 'c' after ESC is dispatched, and nothing else is in "escape".           *)
LEMMA ResetEdge ==
    ASSUME 99 \in Bytes
    PROVE  Table[99]["escape"] = [to |-> "ground", do |-> "esc_dispatch"]
  <1> DEFINE here == { r \in Rules["escape"] : 99 \in r[1] }
             any == { r \in Anywhere("escape") : 99 \in r[1] }
             rule == IF here # {} THEN CHOOSE r \in here : TRUE
                     ELSE IF any # {} THEN CHOOSE r \in any : TRUE
                     ELSE <<{99}, "escape", "none">>
             finals == (48 .. 126) \ {80, 88, 91, 93, 94, 95}
  <1>1. here = {<<finals, "ground", "esc_dispatch">>}
    <2>1. /\ 99 \notin C0 /\ 99 \notin Intermediates /\ 99 \in finals
          /\ 99 \notin {88, 94, 95} /\ 99 \notin {80} /\ 99 \notin {91} /\ 99 \notin {93}
      BY DEF C0, Intermediates
    <2>2. Rules["escape"] =
            { <<C0, "escape", "execute">>,
              <<Intermediates, "escape_intermediate", "collect">>,
              <<finals, "ground", "esc_dispatch">>,
              <<{88, 94, 95}, "sos_pm_apc_string", "none">>,
              <<{80}, "dcs_entry", "none">>,
              <<{91}, "csi_entry", "none">>,
              <<{93}, "osc_string", "none">> }
      BY DEF Rules
    <2> HIDE DEF finals
    <2> QED BY <2>1, <2>2
  <1>2. rule = <<finals, "ground", "esc_dispatch">>
    BY <1>1
  <1>3. Table[99]["escape"] = [to |-> rule[2], do |-> rule[3]]
    BY StatesNamed DEF Table, StateNames
  <1> HIDE DEF rule
  <1> QED BY <1>2, <1>3

LEMMA ResetDispatched ==
    ASSUME NEW s, Sound(s), s.st = "escape", s.inter = <<>>, 99 \in Bytes
    PROVE  /\ NextByte(s, 99).s.st = "ground"
           /\ NextByte(s, 99).calls = <<<<"esc", <<>>, 99>>>>
  <1> DEFINE call == <<"esc", <<>>, 99>>
             p == ParserNext(s, 99)
  <1>1. Bounded(s) /\ s \in Streams
    BY DEF Sound, Bounded
  <1>2. p = Transition(s, 99, [to |-> "ground", do |-> "esc_dispatch"])
    BY ResetEdge DEF ParserNext
  <1>3. Act(s, "esc_dispatch", 99) = Result(s, <<call>>)
    BY DEF Act
  <1>4. Exit("escape", 99) = <<>>
    BY DEF Exit
  <1>5. \A r : Entry(r, "ground", 99) = Result(r, <<>>)
    BY DEF Entry
  <1>6. p = At(Enter(Also(Result(s, <<>>), Result(s, <<call>>)), "ground", 99), "ground")
    BY <1>2, <1>3, <1>4 DEF Transition
  <1>7. (<<>> \o <<call>>) \o <<>> = <<call>>
    OBVIOUS
  <1>8. p = At(Result(s, <<call>>), "ground")
    BY <1>5, <1>6, <1>7 DEF Enter, Also, Result
  <1>9. p.calls = <<call>> /\ p.s = [s EXCEPT !.st = "ground"]
    BY <1>8 DEF At, Result
  <1> DEFINE base == Result(p.s, <<>>)
  <1>10. NextByte(s, 99) = Call(base, call)
    <2>1. NextByte(s, 99) = Calls!Fold(base, <<call>>)
      BY <1>9, HandledFolds DEF NextByte, NextNonUtf8, Handled
    <2> HIDE DEF base
    <2> QED BY <2>1, Calls!FoldOne
  <1> HIDE DEF p
  <1>11. Call(base, call) = Result([p.s EXCEPT !.dcs = p.s.dcs], <<>> \o <<call>>)
    BY DEF Call, Result
  <1>12. p.s.st = "ground" /\ p.s \in Streams
    <2>1. "ground" \in States
      BY StatesNamed DEF StateNames
    <2> QED BY <1>1, <1>9, <2>1 DEF Streams
  <1>13. [p.s EXCEPT !.dcs = p.s.dcs].st = "ground"
    BY <1>12 DEF Streams
  <1>14. <<>> \o <<call>> = <<call>>
    OBVIOUS
  <1> DEFINE q == [p.s EXCEPT !.dcs = p.s.dcs]
  <1> HIDE DEF base, q
  <1>15. NextByte(s, 99) = Result(q, <<call>>)
    BY <1>10, <1>11, <1>14 DEF q
  <1>16. q.st = "ground"
    BY <1>13 DEF q
  <1> HIDE DEF call
  <1>17. NextByte(s, 99).s = q /\ NextByte(s, 99).calls = <<call>>
    BY <1>15 DEF Result
  <1> QED BY <1>16, <1>17 DEF call

(* From any sound stream ESC c ends in the dispatch of c.                  *)
LEMMA ResetHeardFrom ==
    ASSUME NEW s, Sound(s), {ESC, 99} \subseteq Bytes
    PROVE  HeardReset(NextAll(s, <<ESC, 99>>))
  <1> DEFINE call == <<"esc", <<>>, 99>>
             base == Result(s, <<>>)
             first == Then(base, ESC)
             both == Then(first, 99)
  <1>1. NextAll(s, <<ESC, 99>>) = both
    <2>1. <<ESC>> \in Seq(Bytes) /\ <<99>> \in Seq(Bytes) /\ <<ESC>> \o <<99>> = <<ESC, 99>>
      <3>1. ESC \in Bytes /\ 99 \in Bytes
        OBVIOUS
      <3>2. <<ESC>> \in Seq(Bytes) /\ <<99>> \in Seq(Bytes)
        BY <3>1
      <3>3. <<ESC>> \o <<99>> = <<ESC, 99>>
        <4> DEFINE u == <<ESC>> \o <<99>>
                   v == <<ESC, 99>>
        <4>1. u \in Seq(Bytes) /\ Len(u) = 2 /\ u[1] = ESC /\ u[2] = 99
          BY <3>2
        <4>2. v \in Seq(Bytes) /\ Len(v) = 2 /\ v[1] = ESC /\ v[2] = 99
          BY <3>1
        <4> HIDE DEF u, v
        <4>3. \A i \in 1 .. Len(u) : u[i] = v[i]
          BY <4>1, <4>2
        <4> QED BY <4>1, <4>2, <4>3, SeqEqual DEF u, v
      <3> QED BY <3>2, <3>3
    <2>2. NextAll(s, <<ESC, 99>>) = Bytewise!Fold(base, <<ESC, 99>>)
      BY ThenFolds DEF NextAll
    <2> HIDE DEF base
    <2>3. Bytewise!Fold(base, <<ESC>>) = first
      BY Bytewise!FoldOne
    <2>4. Bytewise!Fold(base, <<ESC>> \o <<99>>) = Bytewise!Fold(Bytewise!Fold(base, <<ESC>>), <<99>>)
      BY <2>1, Bytewise!FoldConcat
    <2> HIDE DEF first
    <2>5. Bytewise!Fold(first, <<99>>) = both
      BY Bytewise!FoldOne
    <2> QED BY <2>1, <2>2, <2>3, <2>4, <2>5
  <1> DEFINE n == NextByte(s, ESC)
  <1>2. n.s.st = "escape" /\ n.s.inter = <<>> /\ Sound(n.s) /\ Listed(n.calls)
    BY EscapeLeaves
  <1>3. first.s = n.s /\ first.calls = n.calls
    <2>1. first = Result(n.s, <<>> \o n.calls)
      BY DEF Then, Also, Result
    <2>2. <<>> \o n.calls = n.calls
      BY <1>2, BothListed
    <2> HIDE DEF first, n
    <2> QED BY <2>1, <2>2 DEF Result
  <1> HIDE DEF n
  <1>4. NextByte(n.s, 99).s.st = "ground" /\ NextByte(n.s, 99).calls = <<call>>
    BY <1>2, ResetDispatched
  <1> HIDE DEF first
  <1>5. both.s.st = "ground" /\ both.calls = n.calls \o <<call>>
    BY <1>3, <1>4 DEF Then, Also, Result
  <1>6. Last(n.calls \o <<call>>) = call
    <2>1. PICK D : n.calls \in Seq(D)
      BY <1>2 DEF Listed
    <2> HIDE DEF call
    <2> QED BY <2>1 DEF Last
  <1> HIDE DEF both
  <1> QED BY <1>1, <1>5, <1>6 DEF HeardReset

-----------------------------------------------------------------------------
(* The specification.                                                      *)

(* Between two chunks the stream is sound: its registers are typed and     *)
(* bounded, no character is half decoded outside the ground state, and     *)
(* only a string passed through has a handler.                             *)
THEOREM StreamSound == StreamSpec => []Sound(stream)
  <1>1. StreamInit => Sound(stream)
    <2>1. /\ NewStream.dfa = 0 /\ NewStream.cp = 0 /\ NewStream.st = "ground"
          /\ NewStream.dcs.state = "inactive"
      BY DEF NewStream, Idle
    <2>2. Holds(0, 0) /\ ~Partial(NewStream)
      BY <2>1 DEF Holds, Partial, Accept
    <2> QED BY <2>1, <2>2, StartBounded DEF StreamInit, Sound
  <1>2. Sound(stream) /\ [StreamNext]_stream => Sound(stream)'
    BY ChunkAssumption, FeedSound DEF StreamNext
  <1> QED BY <1>1, <1>2, PTL DEF StreamSpec

(* Parser::assert_bounded, and what the fast path for "ESC [" relies on:   *)
(* after any chunks the registers keep their limits, and a sequence that   *)
(* begins finds them clear and the decoder idle.                           *)
THEOREM RegistersKept == StreamSpec => []RegistersSound
  <1>1. Sound(stream) => RegistersSound
    <2>1. SUFFICES ASSUME Sound(stream) PROVE RegistersSound
      OBVIOUS
    <2>2. Bounded(stream) /\ Fresh(stream) /\ stream \in Streams
      BY <2>1 DEF Sound, Bounded
    <2>3. StreamTypeOK
      BY <2>2 DEF StreamTypeOK, Bounded, Streams
    <2>4. FreshSequence
      BY <2>1, <2>2 DEF FreshSequence, Fresh, Beginnings, Sound
    <2> QED BY <2>3, <2>4 DEF RegistersSound
  <1> QED BY <1>1, StreamSound, PTL

(* dcs.rs's "the parser guarantees unhook precedes the next hook": a       *)
(* handler is active only in a string that is passed through to it.        *)
THEOREM HooksMatched == StreamSpec => []HookMatched
  <1>1. Sound(stream) => HookMatched
    BY DEF Sound, HookMatched
  <1> QED BY <1>1, StreamSound, PTL

(* Whatever was fed before, and wherever it was cut, ESC c is dispatched   *)
(* last and alone and leaves the parser on the ground.                     *)
THEOREM ResetHeard ==
    ASSUME {ESC, 99} \subseteq Bytes
    PROVE  StreamSpec => []ResetUnderstood
  <1>1. Sound(stream) => ResetUnderstood
    BY ResetHeardFrom DEF ResetUnderstood
  <1> QED BY <1>1, StreamSound, PTL

=============================================================================
