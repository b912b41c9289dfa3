---------------------------- MODULE StdinParser ----------------------------
(***************************************************************************)
(* StdinApcParser (src/src-tauri/src/mux/bridge/stdin_parser.rs): splits   *)
(* what the bridge reads from its stdin into mux messages, in three        *)
(* encodings, and bytes to pass through.  Bytes are classes:               *)
(*   ESC, us "_", rb "]", bs the backslash, BEL, CR, LF, semi ";",         *)
(*   "E" "X" the bytes of PLAINTEXT_PREFIX, m APC_PREFIX as one byte,      *)
(*   b a byte of valid base64, x any other ASCII byte, and the digits.      *)
(* (String::from_utf8_lossy leaves ASCII bodies as they are.)              *)
(***************************************************************************)
EXTENDS Naturals, Sequences, SequencesExt, TLC

CONSTANTS
    Bytes,      \* the classes that occur
    MaxInput,   \* bound on the bytes read
    MaxBody,    \* MAX_APC_PAYLOAD
    OscParam,   \* MUX_OSC_PARAM
    Start       \* bytes the input begins with

Digits == {ToString(n) : n \in 0 .. 9}
Value(d) == CHOOSE n \in 0 .. 9 : ToString(n) = d
U16 == 65536
Prefix == <<"E", "X">>

ParserAssumption ==
    /\ Bytes \subseteq Digits \cup {"ESC", "us", "rb", "bs", "BEL", "CR", "LF", "semi",
                                    "E", "X", "m", "b", "x"}
    /\ {MaxInput, MaxBody, OscParam} \subseteq Nat /\ Start \in Seq(Bytes)

VARIABLES
    state,    \* ParserState
    body,     \* apc_buf
    text,     \* passthrough_buf
    digits,   \* osc_param_digits
    accum,    \* osc_param_accum
    isOsc, matched, swallow,
    input,    \* history: the bytes read
    out,      \* history: the bytes read, in runs that were passed on, decoded or dropped
    msgs,     \* history: the messages, with the end of each in the input
    ground    \* history: positions before which the parser was in Ground

vars == <<state, body, text, digits, accum, isOsc, matched, swallow, input, out, msgs,
          ground>>
seqs == <<body, digits, accum, isOsc, matched>>

Init ==
    /\ state = "Ground" /\ body = <<>> /\ text = <<>> /\ digits = <<>> /\ accum = 0
    /\ isOsc = FALSE /\ matched = 0 /\ swallow = FALSE
    /\ input = <<>> /\ out = <<>> /\ msgs = <<>> /\ ground = {}
-----------------------------------------------------------------------------
\* The bytes of the sequence under way, rebuilt from what the parser kept of them.
Introducer == IF isOsc THEN <<"ESC", "rb">> \o digits \o <<"semi">> ELSE <<"ESC", "us">>

Under ==
    CASE state = "Ground" -> <<>>
      [] state = "EscSeen" -> <<"ESC">>
      [] state = "InOscParam" -> <<"ESC", "rb">> \o digits
      [] state = "InApc" -> Introducer \o body
      [] state = "InApcEsc" -> Introducer \o body \o <<"ESC">>
      [] state = "InPlaintextPrefix" -> SubSeq(Prefix, 1, matched)
      [] OTHER -> Prefix \o body

IsBase64(s) == s # <<>> /\ \A i \in DOMAIN s : s[i] = "b"
HasPrefix(s) == s # <<>> /\ Head(s) = "m"

\* What became of a run of bytes.  Runs that are passed on follow each other on the
\* wire without a border.
Run(h, bytes) == [how |-> h, bytes |-> bytes]
PassedOn(bytes) ==
    IF bytes = <<>> THEN out
    ELSE IF out # <<>> /\ Last(out).how = "passed"
    THEN [out EXCEPT ![Len(out)].bytes = @ \o bytes]
    ELSE Append(out, Run("passed", bytes))

Flush == text' = <<>> /\ out' = PassedOn(text)
Keep == UNCHANGED <<text, out>>
Pass(bytes) == text' = text \o bytes /\ UNCHANGED out
Discard(bytes) == out' = Append(out, Run("dropped", bytes)) /\ UNCHANGED text
Decode(bytes) == out' = Append(out, Run("decoded", bytes)) /\ UNCHANGED text
Message(t) == msgs' = Append(msgs, [end |-> Len(input) + 1, t |-> t])

ToGround == state' = "Ground"
-----------------------------------------------------------------------------

Ground(c) ==
    /\ state = "Ground" /\ swallow' = FALSE
    /\ IF swallow /\ c \in {"CR", "LF"} THEN Discard(<<c>>) /\ UNCHANGED <<state, matched>>
       ELSE IF c = "ESC" THEN state' = "EscSeen" /\ Keep /\ UNCHANGED matched
       ELSE IF c = Prefix[1] THEN state' = "InPlaintextPrefix" /\ matched' = 1 /\ Flush
       ELSE Pass(<<c>>) /\ UNCHANGED <<state, matched>>
    /\ UNCHANGED <<body, digits, accum, isOsc, msgs>>

EscSeen(c) ==
    /\ state = "EscSeen"
    /\ CASE c = "us" -> /\ state' = "InApc" /\ body' = <<>> /\ isOsc' = FALSE /\ Flush
                        /\ UNCHANGED <<digits, accum>>
         [] c = "rb" -> /\ state' = "InOscParam" /\ digits' = <<>> /\ accum' = 0 /\ Flush
                        /\ UNCHANGED <<body, isOsc>>
         [] OTHER -> /\ ToGround /\ Pass(<<"ESC", c>>)
                     /\ UNCHANGED <<body, digits, accum, isOsc>>
    /\ UNCHANGED <<matched, swallow, msgs>>

\* saturating_mul(10), then an addition that wraps in a release build.
Accumulate(a, d) == ((IF a * 10 < U16 THEN a * 10 ELSE U16 - 1) + d) % U16

InOscParam(c) ==
    /\ state = "InOscParam"
    /\ IF c \in Digits THEN
          /\ digits' = Append(digits, c) /\ accum' = Accumulate(accum, Value(c)) /\ Keep
          /\ UNCHANGED <<state, body, isOsc>>
       ELSE IF c = "semi" /\ accum = OscParam THEN
          state' = "InApc" /\ body' = <<>> /\ isOsc' = TRUE /\ Keep /\ UNCHANGED <<digits, accum>>
       ELSE
          /\ ToGround /\ Pass(<<"ESC", "rb">> \o Append(digits, c)) /\ digits' = <<>>
          /\ UNCHANGED <<body, accum, isOsc>>
    /\ UNCHANGED <<matched, swallow, msgs>>

\* complete_mux_sequence: a message or its decode error; a foreign APC, which is
\* passed on at once; an OSC with the number of the bridge but no prefix, which is
\* dropped.
CompleteMux(c) ==
    LET sequence == Append(Under, c)
        Decoded == HasPrefix(body) /\ IsBase64(Tail(body))
        Foreign == ~HasPrefix(body) /\ ~isOsc
    IN  /\ ToGround /\ body' = <<>>
        /\ \/ Decoded /\ Message(IF isOsc THEN "osc" ELSE "apc") /\ Decode(sequence)
           \/ Foreign /\ out' = PassedOn(sequence) /\ UNCHANGED <<text, msgs>>
           \/ ~Decoded /\ ~Foreign /\ Discard(sequence) /\ UNCHANGED msgs

TooLong(c) == Len(body) >= MaxBody /\ ToGround /\ body' = <<>> /\ Discard(Append(Under, c))

InApc(c) ==
    /\ state = "InApc"
    /\ IF c = "ESC" THEN state' = "InApcEsc" /\ Keep /\ UNCHANGED <<body, msgs>>
       ELSE IF isOsc /\ c = "BEL" THEN CompleteMux(c)
       ELSE \/ /\ Len(body) < MaxBody /\ body' = Append(body, c) /\ Keep
               /\ UNCHANGED <<state, msgs>>
            \/ TooLong(c) /\ UNCHANGED msgs
    /\ UNCHANGED <<digits, accum, isOsc, matched, swallow>>

\* A plausible slip: an ESC inside a body is forgotten.
InApcEscForgets(c) ==
    /\ state = "InApcEsc"
    /\ IF c = "bs" THEN CompleteMux(c)
       ELSE state' = "InApc" /\ body' = Append(body, c) /\ Keep /\ UNCHANGED msgs
    /\ UNCHANGED <<digits, accum, isOsc, matched, swallow>>

InApcEsc(c) ==
    /\ state = "InApcEsc"
    /\ IF c = "bs" THEN CompleteMux(c)
       ELSE state' = "InApc" /\ body' = body \o <<"ESC", c>> /\ Keep /\ UNCHANGED msgs
    /\ UNCHANGED <<digits, accum, isOsc, matched, swallow>>

InPlaintextPrefix(c) ==
    /\ state = "InPlaintextPrefix"
    /\ IF c = Prefix[matched + 1] THEN
          /\ Keep
          /\ IF matched + 1 = Len(Prefix) THEN state' = "InPlaintext" /\ body' = <<>>
                                          ELSE UNCHANGED <<state, body>>
          /\ matched' = matched + 1
       ELSE
          /\ ToGround /\ Pass(Append(SubSeq(Prefix, 1, matched), c)) /\ matched' = 0
          /\ UNCHANGED body
    /\ UNCHANGED <<digits, accum, isOsc, swallow, msgs>>

InPlaintext(c) ==
    /\ state = "InPlaintext"
    /\ IF c \in {"CR", "LF"} THEN
          /\ ToGround /\ body' = <<>> /\ swallow' = TRUE
          /\ IF IsBase64(body) THEN Message("plaintext") /\ Decode(Append(Under, c))
             ELSE Discard(Append(Under, c)) /\ UNCHANGED msgs
       ELSE /\ UNCHANGED <<swallow, msgs>>
            /\ \/ Len(body) < MaxBody /\ body' = Append(body, c) /\ Keep /\ UNCHANGED state
               \/ TooLong(c)
    /\ UNCHANGED <<digits, accum, isOsc, matched>>
-----------------------------------------------------------------------------
Byte(c) ==
    /\ Len(input) < MaxInput /\ (Len(input) < Len(Start) => c = Start[Len(input) + 1])
    /\ input' = Append(input, c)
    /\ ground' = IF state = "Ground" /\ ~swallow THEN ground \cup {Len(input) + 1} ELSE ground
    /\ \/ Ground(c) \/ EscSeen(c) \/ InOscParam(c) \/ InApc(c) \/ InApcEsc(c)
       \/ InPlaintextPrefix(c) \/ InPlaintext(c)

\* The end of a read: what waits in Ground is passed on.
FeedEnds ==
    /\ state = "Ground" /\ text # <<>> /\ Flush
    /\ UNCHANGED <<state, seqs, swallow, input, msgs, ground>>

Next == (\E c \in Bytes : Byte(c)) \/ FeedEnds

Spec == Init /\ [][Next]_vars
-----------------------------------------------------------------------------
(* The state is well formed. *)
TypeOK ==
    /\ state \in {"Ground", "EscSeen", "InOscParam", "InApc", "InApcEsc",
                  "InPlaintextPrefix", "InPlaintext"}
    /\ accum \in 0 .. U16 - 1 /\ matched \in 0 .. Len(Prefix)
    /\ ground \subseteq 1 .. MaxInput

(* MAX_APC_PAYLOAD, "Maximum APC payload size": no body grows past it.               *)
BodyBounded == Len(body) <= MaxBody

(* feed: every byte read is passed on, decoded, dropped, or of a sequence that is      *)
(* under way, exactly once and in order, wherever reads end; what a rejected sequence  *)
(* had consumed is given back byte for byte.                                            *)
NothingVanishes == FlattenSeq([k \in DOMAIN out |-> out[k].bytes]) \o text \o Under = input

\* The three encodings of a message.
Payloads == {[i \in 1 .. n |-> "b"] : n \in 1 .. MaxBody}
OscIntro == <<"ESC", "rb">> \o (IF OscParam = 9 THEN <<"9">> ELSE <<"9", "9", "9", "9">>) \o <<"semi", "m">>
Encoded ==
    {[t |-> "apc", bytes |-> <<"ESC", "us", "m">> \o p \o <<"ESC", "bs">>] : p \in Payloads}
    \cup {[t |-> "osc", bytes |-> OscIntro \o p \o e] :
            p \in Payloads, e \in {<<"BEL">>, <<"ESC", "bs">>}}
    \cup {[t |-> "plaintext", bytes |-> Prefix \o p \o <<e>>] :
            p \in Payloads, e \in {"CR", "LF"}}

Occurs(e, i) ==
    i + Len(e.bytes) - 1 <= Len(input) /\ SubSeq(input, i, i + Len(e.bytes) - 1) = e.bytes
Found(e, i) ==
    \E k \in DOMAIN msgs : msgs[k] = [end |-> i + Len(e.bytes) - 1, t |-> e.t]

(* feed, complete_mux_sequence: only the bridge's own is taken out of what is typed.    *)
(* A run that is dropped begins as a message does and does not decode, or is too long,   *)
(* or is the second half of a line end; a foreign sequence is passed on.                 *)
OwnIntros == {<<"ESC", "us", "m">>, Front(OscIntro), Prefix}
OnlyOwnDropped ==
    \A k \in {j \in DOMAIN out : out[j].how = "dropped"} :
       LET run == out[k].bytes
       IN  \/ /\ \E intro \in OwnIntros : IsPrefix(intro, run)
              /\ run \notin {e.bytes : e \in Encoded}
           \/ Len(run) > MaxBody
           \/ /\ run \in {<<"CR">>, <<"LF">>} /\ k > 1
              /\ IsPrefix(Prefix, out[k - 1].bytes) /\ Last(out[k - 1].bytes) \in {"CR", "LF"}

(* The converse: what is reported as a message of an encoding was sent in it, and the   *)
(* message is all that is taken out for it.                                              *)
OnlyMessages ==
    /\ \A k \in DOMAIN msgs : \E e \in Encoded : \E i \in 1 .. Len(input) :
          e.t = msgs[k].t /\ i + Len(e.bytes) - 1 = msgs[k].end /\ Occurs(e, i)
    /\ \A k \in DOMAIN out : out[k].how = "decoded" => out[k].bytes \in {e.bytes : e \in Encoded}

(* feed: a message in any of the encodings that begins where the parser is in Ground   *)
(* is found, in whatever pieces it is read.                                             *)
NoneMissed ==
    \A i \in ground : \A e \in Encoded :
       (Occurs(e, i) /\ Len(e.bytes) <= MaxBody + 3) => Found(e, i)

(* "separates APC/OSC/plaintext mux sequences from passthrough data": text in front    *)
(* of a message does not hide it.                                                       *)
TextHidesNothing ==
    \A e \in Encoded : \A i \in 2 .. Len(input) :
       (i - 1 \in ground /\ input[i - 1] \in {"E", "x"} /\ Occurs(e, i)) => Found(e, i)
=============================================================================
