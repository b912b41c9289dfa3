---------------------------- MODULE ClientParser ----------------------------
(***************************************************************************)
(* The escape-sequence parser of the terminal, crates/term_core/src/parser:*)
(* what a byte does in each state.  Bytes are abstracted to the classes    *)
(* the parser tells apart:                                                 *)
(*   E  ESC            [ ] P (  the introducers of CSI, OSC, DCS/APC and   *)
(*   T  `\`, ends ST            of a charset designation                   *)
(*   B  BEL (a C0)     ?  a private marker       6  a digit                *)
(*   n  final byte of the device query CSI 6 n, which term_core answers    *)
(*   m  first body byte of a string that launches a viewer or an image     *)
(*   x  any other printable byte       D  DEL        C  CAN                *)
(***************************************************************************)
EXTENDS Integers, Sequences

Bytes == {"E", "[", "]", "P", "(", "T", "B", "?", "6", "n", "m", "x", "D", "C"}

C0 == {"B", "C"}                                    \* 0x00-0x1f but ESC
CsiFinals == {"[", "]", "P", "T", "n", "m", "x"}   \* 0x40-0x7e

\* at: the parser's state; body: the parameter bytes of a CSI, or a string's
\* body; kind: "]" or "P" inside a string.
At(state, kind, body) == [at |-> state, kind |-> kind, body |-> body]
Ground == At("ground", "", <<>>)
Escape == At("escape", "", <<>>)

\* One effect on the terminal: what is done, with which bytes.
Does(what, bytes) == <<[do |-> what, arg |-> bytes]>>

\* The device queries term_core answers (handled by csi_device.rs): here CSI 6 n.
IsQuery(params, final) == params = <<"6">> /\ final = "n"

\* Viewer launches and images; a DCS may have parameters before the `q`.
IsTarget(kind, body) ==
    \/ body # <<>> /\ body[1] = "m"
    \/ kind = "P" /\ Len(body) > 1 /\ body[1] = "6" /\ body[2] = "m"

InGround(b) ==
    IF b = "E" THEN [to |-> Escape, did |-> <<>>]
    ELSE [to |-> Ground,
          did |-> IF b \in {"D", "C"} THEN <<>>      \* ignored
                  ELSE Does(IF b \in C0 THEN "run" ELSE "print", <<b>>)]

\* escape: `x` stands for the final bytes that mean something.
InEscape(b) ==
    CASE b = "[" -> [to |-> At("csi", "", <<>>), did |-> <<>>]
      [] b \in {"]", "P"} -> [to |-> At("string", b, <<>>), did |-> <<>>]
      [] b = "(" -> [to |-> At("charset", "", <<>>), did |-> <<>>]
      [] b = "E" -> [to |-> Escape, did |-> <<>>]
      [] OTHER -> [to |-> Ground, did |-> IF b = "x" THEN Does("esc", <<b>>) ELSE <<>>]

\* csi_entry (no parameter yet) and csi_param.
InCsi(st, b) ==
    CASE b = "E" -> [to |-> Escape, did |-> <<>>]
      [] b \in C0 -> [to |-> st, did |-> IF b = "B" THEN Does("run", <<b>>) ELSE <<>>]
      [] b \in CsiFinals ->
           [to |-> Ground,
            did |-> Does(IF IsQuery(st.body, b) THEN "answer" ELSE "csi",
                         Append(st.body, b))]
      [] \/ b = "6"
         \/ b = "?" /\ st.body = <<>>
         \/ b = "(" /\ st.body # <<>> ->
           [to |-> [st EXCEPT !.body = Append(@, b)], did |-> <<>>]
      [] OTHER -> [to |-> Ground, did |-> <<>>]      \* cancelled

Dispatched(st) ==
    Does(IF IsTarget(st.kind, st.body) THEN "launch" ELSE "string", st.body)

InString(st, b) ==
    CASE b = "B" /\ st.kind = "]" -> [to |-> Ground, did |-> Dispatched(st)]
      [] b = "E" -> [to |-> [st EXCEPT !.at = "stringEscape"], did |-> <<>>]
      [] OTHER -> [to |-> [st EXCEPT !.body = Append(@, b)], did |-> <<>>]

\* osc_escape, dcs_escape, apc_escape.  A string that is cut short is dispatched
\* as Unterminated, which is not counted as an effect here: the ring drops it on
\* purpose.
InStringEscape(st, b) ==
    IF b = "T" THEN [to |-> Ground, did |-> Dispatched(st)] ELSE InEscape(b)

Step(st, b) ==
    CASE st.at = "ground" -> InGround(b)
      [] st.at = "escape" -> InEscape(b)
      [] st.at = "charset" -> [to |-> Ground, did |-> Does("charset", <<b>>)]
      [] st.at = "csi" -> InCsi(st, b)
      [] st.at = "string" -> InString(st, b)
      [] st.at = "stringEscape" -> InStringEscape(st, b)

RECURSIVE Parse(_, _, _)
\* Parse(st, bytes, did): the state after the bytes, and all they did.
Parse(st, bytes, did) ==
    IF bytes = <<>> THEN [to |-> st, did |-> did]
    ELSE LET r == Step(st, bytes[1])
         IN  Parse(r.to, Tail(bytes), did \o r.did)
=============================================================================
