---------------------------- MODULE ScreenSpans ----------------------------
(***************************************************************************)
(* What the pane reader makes of screen switches: the extraction of the    *)
(* main buffer for the scrollback ring, the split-aware span tracker and   *)
(* the agent-status feed scanner of                                        *)
(* src/src-tauri/src/mux/ipc/pty_spawn/write_filter.rs, as the read loop   *)
(* of pty_spawn/mod.rs drives them next to the shadow parser (vt100).  The *)
(* client (term_core) is the reference.  Byte classes:                     *)
(*   E ESC   [ ? ( ] ; h l c   themselves    T `\`     B BEL     x text    *)
(*   4 4   the digits of ?1049 and ?47     4 7   the digits of ?1047       *)
(*   p s q  the body of an OSC 133 mark, 777 agent status, 7501            *)
(***************************************************************************)
EXTENDS Integers, SequencesExt

CONSTANTS
    Tokens,      \* the byte strings a stream is made of
    MaxTokens,   \* bound: tokens of a stream
    BodyCap      \* AGENT_STATUS_FEED_SCANNER_CARRY_OVER_CAP

SpansAssumption == MaxTokens \in Nat /\ BodyCap \in Nat \ {0}

VARIABLES
    stream,     \* what the child writes
    pos,        \* how much of it was read
    client,     \* term_core's parser, with the screen and what it did
    shadow,     \* the shadow parser
    tracker,    \* AltSpanTracker
    scanner,    \* AgentStatusFeedScanner
    slot,       \* DesignatorSlot carried by the reader
    ring,       \* a client replaying the ring
    live,       \* history: the positions the tracker called live
    items,      \* history: the items the scanner produced
    adopted,    \* history: the tracker had to take the shadow parser's word
    split       \* history: a read ended inside an escape sequence

vars == <<stream, pos, client, shadow, tracker, scanner, slot, ring, live, items,
          adopted, split>>

From(bytes, i) == SubSeq(bytes, i, Len(bytes))

Switch(digit, final) == <<"E", "[", "?", "4", digit, final>>

\* ALT_SCREEN_TOGGLES
Patterns == {Switch(d, f) : d \in {"4", "7"}, f \in {"h", "l"}}
IsEnter(p) == p[6] = "h"
ScreenModes == {<<"4", "4">>, <<"4", "7">>}

\* shadow_follows
ShadowFollows(p) == p[5] = "4"
-----------------------------------------------------------------------------
(* The parsers: term_core, and the shadow parser where it differs.         *)

Parser == [at |-> "ground", private |-> FALSE, value |-> <<>>, modes |-> {},
           body |-> <<>>, alt |-> FALSE, did |-> <<>>]

Goes(st, at) == [st EXCEPT !.at = at]
OpensCsi(st) == [st EXCEPT !.at = "csi", !.private = FALSE, !.value = <<>>, !.modes = {}]

AfterEsc(st, b) ==
    CASE b = "[" -> OpensCsi(st)
      [] b = "(" -> Goes(st, "designator")
      [] b = "]" -> [st EXCEPT !.at = "osc", !.body = <<>>]
      [] b = "c" -> [st EXCEPT !.at = "ground", !.alt = FALSE,
                               !.did = Append(@, "reset")]
      [] b = "E" -> Goes(st, "escape")
      [] OTHER -> Goes(st, "ground")

\* The end of an OSC string: a mark counts on the main screen only, a 7501 string
\* only when it is terminated.
Ends(st, terminated) ==
    LET what == IF st.body = <<>> THEN "" ELSE st.body[1]
    IN  IF \/ what = "s" \/ (what = "p" /\ ~st.alt) \/ (what = "q" /\ terminated)
        THEN [st EXCEPT !.at = "ground", !.did = Append(@, what)]
        ELSE Goes(st, "ground")

InCsi(st, b, follows) ==
    CASE b = "E" -> Goes(st, "escape")
      [] b = "?" /\ st.value = <<>> /\ st.modes = {} -> [st EXCEPT !.private = TRUE]
      [] b \in {"4", "7"} -> [st EXCEPT !.value = Append(@, b)]
      [] b = ";" -> [st EXCEPT !.modes = @ \cup {st.value}, !.value = <<>>]
      [] b \in {"h", "l"} ->
           [st EXCEPT !.at = "ground",
                      !.alt = IF st.private /\ (st.modes \cup {st.value}) \cap follows # {}
                              THEN b = "h" ELSE @]
      [] OTHER -> Goes(st, "ground")

Step(st, b, isClient) ==
    CASE st.at = "ground" -> IF b = "E" THEN Goes(st, "escape") ELSE st
      [] st.at = "escape" -> AfterEsc(st, b)
      [] st.at = "designator" ->
           IF b = "E" /\ ~isClient THEN Goes(st, "escape") ELSE Goes(st, "ground")
      [] st.at = "csi" ->
           InCsi(st, b, IF isClient THEN ScreenModes ELSE {<<"4", "4">>})
      [] st.at = "osc" -> CASE b = "B" -> Ends(st, TRUE)
                            [] b = "E" -> Goes(st, "oscEscape")
                            [] OTHER -> [st EXCEPT !.body = Append(@, b)]
      [] st.at = "oscEscape" -> IF b = "T" THEN Ends(st, TRUE)
                                ELSE AfterEsc(Ends(st, FALSE), b)

ClientParses(st, bytes) == FoldLeft(LAMBDA s, b : Step(s, b, TRUE), st, bytes)
ShadowParses(st, bytes) ==
    [FoldLeft(LAMBDA s, b : Step(s, b, FALSE), st, bytes) EXCEPT !.did = <<>>]
-----------------------------------------------------------------------------
(* extract_main_buffer: one read at a time.                                *)

StartsSwitch(bytes) == \E p \in Patterns : IsPrefix(p, bytes)

RECURSIVE Extract(_, _, _)
\* next_live_toggle and the loop of extract_main_buffer from index i.  x: [alt,
\* shadow, main (positions kept), cut (a switch was removed before these
\* positions), slot].
Extract(data, i, x) ==
    LET n == Len(data)
        keep(k) == IF x.alt THEN x.main ELSE x.main \cup (i .. k)
        designator(at) ==
            [x EXCEPT !.main = keep(at), !.slot = "ground",
                      !.shadow = IF StartsSwitch(From(data, at))
                                 THEN From(data, at)[6] = "h" ELSE @]
    IN  CASE i > n -> x
          [] i <= n /\ x.slot = "awaiting" -> Extract(data, i + 1, designator(i))
          [] i <= n /\ x.slot = "escape" /\ data[i] = "(" ->
               Extract(data, i + 1, [x EXCEPT !.main = keep(i), !.slot = "awaiting"])
          [] i <= n /\ data[i] = "E" /\ x.slot \in {"ground", "escape"}
               /\ StartsSwitch(From(data, i)) ->
               LET enter == data[i + 5] = "h"
               IN  Extract(data, i + 6, [x EXCEPT !.alt = enter, !.shadow = enter,
                                                  !.slot = "ground",
                                                  !.cut = @ \cup {i + 6}])
          [] i <= n /\ data[i] = "E" /\ ~StartsSwitch(From(data, i))
               /\ x.slot \in {"ground", "escape"} ->
               Extract(data, i + 1, [x EXCEPT !.main = keep(i), !.slot = "escape"])
          [] OTHER -> Extract(data, i + 1, [x EXCEPT !.main = keep(i), !.slot = "ground"])

ExtractMainBuffer(data, alt, s) ==
    Extract(data, 1, [alt |-> alt, shadow |-> alt, main |-> {}, cut |-> {}, slot |-> s])

RECURSIVE Replay(_, _, _, _)
\* What a replay of the ring makes of a read; the filter closes what is open at a
\* cut (module WriteFilter).
Replay(st, data, i, x) ==
    LET at == IF i \in x.cut THEN Goes(st, "ground") ELSE st
    IN  IF i > Len(data) THEN at
        ELSE Replay(IF i \in x.main THEN Step(at, data[i], TRUE) ELSE at, data, i + 1, x)

\* The choice of the read loop between the extraction and the fallbacks.
ToWrite(data, before, after, x) ==
    CASE x.shadow = after -> x
      [] x.shadow # after /\ ~before /\ ~after ->
           [x EXCEPT !.main = DOMAIN data, !.cut = {}]
      [] x.shadow # after /\ (before \/ after) -> [x EXCEPT !.main = {}, !.cut = {1}]
-----------------------------------------------------------------------------
(* AltSpanTracker.                                                         *)

NoParse == [on |-> FALSE, value |-> <<>>, seen |-> FALSE]
NewParse == [NoParse EXCEPT !.on = TRUE]
Carry(kind, held, parse) == [kind |-> kind, held |-> held, parse |-> parse]
NoCarry == Carry("nothing", <<>>, NoParse)
NewTracker == [client |-> FALSE, shadow |-> FALSE, carry |-> NoCarry]

\* match_switch
MatchSwitch(buf) ==
    LET whole == {p \in Patterns : IsPrefix(p, buf)}
    IN  CASE whole # {} -> [how |-> "complete", p |-> CHOOSE p \in whole : TRUE]
          [] whole = {} /\ (\E p \in Patterns : IsStrictPrefix(buf, p)) ->
               [how |-> "prefix", p |-> <<>>]
          [] OTHER -> [how |-> "other", p |-> <<>>]

\* s: a scan: the tracker's fields, at, designator, parse, detected, and the live
\* run: live positions and open (0: none).
OpenAt(s, k) == IF s.open = 0 THEN [s EXCEPT !.open = k] ELSE s
CloseAt(s, k) ==
    IF s.open = 0 THEN s
    ELSE [s EXCEPT !.live = @ \cup (s.open .. k - 1), !.open = 0]

Follow(s, p) == IF ShadowFollows(p) THEN [s EXCEPT !.shadow = IsEnter(p)] ELSE s

\* A live switch that ends right before position k.
TakeSwitch(s, p, k) ==
    LET t == [Follow(s, p) EXCEPT !.client = IsEnter(p), !.at = k]
    IN  IF IsEnter(p) THEN t ELSE OpenAt(t, k)

ResetScreens(s, k) == OpenAt([s EXCEPT !.client = FALSE, !.shadow = FALSE, !.at = k], k)

\* resume: the whole read is still a prefix.
Extends(s, kind, held, read) ==
    [(IF kind = "live" THEN CloseAt(s, 1) ELSE CloseAt(s, Len(read) + 1))
        EXCEPT !.carry = Carry(kind, held \o read, NoParse), !.done = TRUE]

\* resume: the read does not go on as a switch.
Diverges(s, kind, held, read, agreed) ==
    LET first == read[1]
        joined == held \o SubSeq(read, 1, agreed)
        parse == IF Len(joined) < 3 THEN NoParse
                 ELSE [NewParse EXCEPT !.value = SelectSeq(From(joined, 4),
                                                 LAMBDA b : b \in {"4", "7"})]
    IN  CASE kind = "live" /\ Len(held) = 1 /\ first = "(" ->
               [s EXCEPT !.at = 2, !.designator = TRUE]
          [] kind = "live" /\ Len(held) = 1 /\ first = "c" -> ResetScreens(s, 2)
          [] kind = "designator" /\ Len(held) = 1 /\ first = "c" ->
               [s EXCEPT !.shadow = FALSE, !.at = 2]
          [] kind = "live" /\ ~(Len(held) = 1 /\ first \in {"(", "c"}) ->
               [s EXCEPT !.at = agreed + 1, !.parse = parse]
          [] OTHER -> [s EXCEPT !.at = agreed + 1]

\* AltSpanTracker::resume
Resume(s, kind, held, read) ==
    LET candidates == {p \in Patterns : IsStrictPrefix(held, p)}
        rest(p) == From(p, Len(held) + 1)
        common(p) == Max({k \in 0 .. Min({Len(rest(p)), Len(read)}) :
                            SubSeq(rest(p), 1, k) = SubSeq(read, 1, k)})
        completed == {p \in candidates : common(p) = Len(rest(p))}
        p1 == CHOOSE p \in completed : TRUE
        next == Len(p1) - Len(held) + 1
    IN  CASE completed # {} /\ kind = "live" -> TakeSwitch(CloseAt(s, 1), p1, next)
          [] completed # {} /\ kind = "designator" -> [Follow(s, p1) EXCEPT !.at = next]
          [] completed = {} /\ (\E p \in candidates : common(p) = Len(read)) ->
               Extends(s, kind, held, read)
          [] OTHER -> Diverges(s, kind, held, read,
                               Max({common(p) : p \in candidates} \cup {0}))

\* The terminator of a DEC private set or reset.
Terminates(s, b) ==
    LET names == s.parse.seen \/ s.parse.value \in ScreenModes
        t == [s EXCEPT !.at = @ + 1, !.parse = NoParse]
    IN  IF names /\ (s.detected \/ s.client # s.shadow)
        THEN LET u == [t EXCEPT !.detected = TRUE, !.client = (b = "h")]
             IN  IF b = "h" THEN CloseAt(u, u.at) ELSE OpenAt(u, u.at)
        ELSE t

InParse(s, b) ==
    CASE b \in {"4", "7"} -> [s EXCEPT !.parse.value = Append(@, b), !.at = @ + 1]
      [] b = ";" -> [s EXCEPT !.parse.seen = @ \/ s.parse.value \in ScreenModes,
                              !.parse.value = <<>>, !.at = @ + 1]
      [] b \in {"h", "l"} -> Terminates(s, b)
      [] b = "E" -> [s EXCEPT !.parse = NoParse]
      [] OTHER -> [s EXCEPT !.parse = NoParse, !.at = @ + 1]

\* The byte after ESC ( is the designator, whatever it is.
InDesignator(s, read) ==
    LET rest == From(read, s.at)
        m == MatchSwitch(rest)
        t == [s EXCEPT !.designator = FALSE]
    IN  CASE rest[1] # "E" -> [t EXCEPT !.at = @ + 1]
          [] rest[1] = "E" /\ m.how = "complete" -> [Follow(t, m.p) EXCEPT !.at = @ + 6]
          [] rest[1] = "E" /\ m.how = "prefix" ->
               [t EXCEPT !.carry = Carry("designator", rest, NoParse), !.done = TRUE]
          [] rest[1] = "E" /\ m.how = "other" ->
               IF Len(rest) > 1 /\ rest[2] = "c"
               THEN [t EXCEPT !.shadow = FALSE, !.at = @ + 2] ELSE [t EXCEPT !.at = @ + 1]

AtEsc(s, read) ==
    LET rest == From(read, s.at)
        m == MatchSwitch(rest)
        second == IF Len(rest) > 1 THEN rest[2] ELSE ""
    IN  CASE m.how = "complete" -> TakeSwitch(CloseAt(s, s.at), m.p, s.at + 6)
          [] m.how = "prefix" ->
               [CloseAt(s, s.at) EXCEPT !.carry = Carry("live", rest, NoParse),
                                        !.done = TRUE]
          [] m.how = "other" /\ second = "(" -> [s EXCEPT !.at = @ + 2, !.designator = TRUE]
          [] m.how = "other" /\ second = "c" -> ResetScreens(s, s.at + 2)
          [] m.how = "other" /\ second = "[" /\ Len(rest) > 2 /\ rest[3] = "?" ->
               [s EXCEPT !.at = @ + 3, !.parse = NewParse]
          [] OTHER -> [s EXCEPT !.at = @ + 1]

RECURSIVE ScanLoop(_, _)
\* AltSpanTracker::scan after the carried item was taken up.
ScanLoop(s, read) ==
    LET n == Len(read)
    IN  CASE s.done -> s
          [] ~s.done /\ s.at > n /\ s.designator ->
               [s EXCEPT !.carry = Carry("awaiting", <<>>, NoParse), !.done = TRUE]
          [] ~s.done /\ s.at > n /\ s.parse.on ->
               [s EXCEPT !.carry = Carry("csi", <<>>, s.parse), !.done = TRUE]
          [] ~s.done /\ s.at > n /\ ~s.designator /\ ~s.parse.on -> s
          [] ~s.done /\ s.at <= n /\ s.designator -> ScanLoop(InDesignator(s, read), read)
          [] ~s.done /\ s.at <= n /\ s.parse.on -> ScanLoop(InParse(s, read[s.at]), read)
          [] OTHER -> ScanLoop(IF read[s.at] = "E" THEN AtEsc(s, read)
                               ELSE [s EXCEPT !.at = @ + 1], read)

Resumed(s, carry, read) ==
    IF carry.kind \in {"live", "designator"} THEN Resume(s, carry.kind, carry.held, read) ELSE s
Scan(t, read) ==
    LET s0 == [client |-> t.client, shadow |-> t.shadow, carry |-> NoCarry, at |-> 1,
               designator |-> t.carry.kind = "awaiting", parse |-> t.carry.parse,
               detected |-> FALSE, done |-> FALSE, live |-> {},
               open |-> IF t.client THEN 0 ELSE 1]
    IN  CloseAt(ScanLoop(Resumed(s0, t.carry, read), read), Len(read) + 1)

Adopt(alt) == [client |-> alt, shadow |-> alt, carry |-> NoCarry]

\* AltSpanTracker::advance
Judged(s, read, switched, before, after) ==
    LET now == [client |-> s.client, shadow |-> s.shadow, carry |-> s.carry]
    IN  CASE s.detected ->
               [tracker |-> [now EXCEPT !.shadow = after], adopted |-> TRUE,
                live |-> IF s.client THEN {} ELSE DOMAIN read]
          [] ~s.detected /\ s.shadow # after ->
               [tracker |-> Adopt(after), adopted |-> TRUE,
                live |-> IF before \/ after THEN {} ELSE DOMAIN read]
          [] ~s.detected /\ s.shadow = after ->
               [tracker |-> now, adopted |-> switched, live |-> s.live]
AdvanceTracker(t, read, before, after) ==
    Judged(Scan(IF t.shadow # before THEN Adopt(before) ELSE t, read), read,
           t.shadow # before, before, after)
-----------------------------------------------------------------------------
(* AgentStatusFeedScanner.                                                 *)

NewScanner == [state |-> "idle", body |-> <<>>, ris |-> "other", tail |-> FALSE,
               cut |-> FALSE]

Number(body) == IF body = <<>> THEN "" ELSE body[1]

\* commit
Commit(f, isLive) ==
    LET what == Number(f.body)
    IN  [scanner |-> [f EXCEPT !.state = "idle", !.body = <<>>],
         out |-> IF what \in {"s", "q"} \/ (what = "p" /\ isLive) THEN <<what>> ELSE <<>>]

\* A plausible slip: a string that is cut is judged by the byte that cuts it.
CutLiveNow(f, b, preceding, isLive) ==
    LET what == Number(f.body)
    IN  [scanner |-> [f EXCEPT !.body = <<>>,
                               !.state = CASE b = "]" -> "inside" [] b = "E" -> "seenEsc"
                                           [] OTHER -> "idle"],
         out |-> IF what = "s" \/ (what = "p" /\ isLive) THEN <<what>> ELSE <<>>]

\* cut, with the state the byte after the ESC leads to
Cut(f, b, preceding, isLive) ==
    LET what == Number(f.body)
    IN  [scanner |-> [f EXCEPT !.body = <<>>,
                               !.state = CASE b = "]" -> "inside" [] b = "E" -> "seenEsc"
                                           [] OTHER -> "idle"],
         out |-> IF what = "s" \/ f.cut THEN <<what>> ELSE <<>>]

\* step, the OSC decode state.  preceding: the byte before was live.
StepOsc(f, b, preceding, isLive) ==
    LET quiet(g) == [scanner |-> g, out |-> <<>>]
    IN  CASE f.state = "idle" ->
               quiet(IF b = "E" THEN [f EXCEPT !.state = "seenEsc"] ELSE f)
          [] f.state = "seenEsc" ->
               quiet(CASE b = "]" -> [f EXCEPT !.state = "inside", !.body = <<>>]
                       [] b = "E" -> f
                       [] OTHER -> [f EXCEPT !.state = "idle"])
          [] f.state = "inside" ->
               (CASE b = "B" -> Commit(f, isLive)
                  [] b = "E" -> quiet([f EXCEPT !.state = "pendingSt",
                                                !.cut = Number(f.body) = "p" /\ preceding])
                  [] OTHER -> quiet([f EXCEPT !.body = Append(@, b)]))
          [] f.state = "pendingSt" ->
               IF b = "T" THEN Commit(f, isLive) ELSE Cut(f, b, preceding, isLive)

\* step_ris
StepRis(ris, b) ==
    CASE ris = "designator" -> "other"
      [] ris # "designator" /\ b = "E" -> "escape"
      [] ris = "escape" /\ b = "(" -> "designator"
      [] OTHER -> "other"

RECURSIVE FeedFrom(_, _, _, _, _)
FeedFrom(f, read, i, liveHere, out) ==
    IF i > Len(read)
    THEN [scanner |-> IF f.state = "inside" THEN [f EXCEPT !.tail = Len(read) \in liveHere]
                      ELSE f,
          out |-> out]
    ELSE LET b == read[i]
             r == StepOsc(f, b, IF i = 1 THEN f.tail ELSE (i - 1) \in liveHere,
                          i \in liveHere)
             g == [r.scanner EXCEPT !.ris = StepRis(f.ris, b)]
             h == IF Len(g.body) > BodyCap THEN [g EXCEPT !.body = <<>>, !.state = "idle"]
                  ELSE g
         IN  FeedFrom(h, read, i + 1, liveHere,
                      out \o r.out \o (IF f.ris = "escape" /\ b = "c" THEN <<"reset">>
                                       ELSE <<>>))

\* feed
Feed(f, read, liveHere) == FeedFrom(f, read, 1, liveHere, <<>>)
-----------------------------------------------------------------------------
Init ==
    /\ \E k \in 1 .. MaxTokens : \E ts \in [1 .. k -> Tokens] : stream = FlattenSeq(ts)
    /\ pos = 0 /\ client = Parser /\ shadow = Parser /\ tracker = NewTracker
    /\ scanner = NewScanner /\ slot = "ground" /\ ring = Parser
    /\ live = {} /\ items = <<>> /\ adopted = FALSE /\ split = FALSE

\* One read of the loop, of k bytes.
Shares(data, spans, fed) ==
    /\ tracker' = spans.tracker /\ scanner' = fed.scanner
    /\ live' = live \cup {pos + i : i \in spans.live}
    /\ items' = items \o fed.out
    /\ adopted' = (adopted \/ spans.adopted)
Shared(data, spans) == Shares(data, spans, Feed(scanner, data, spans.live))
Records(data, after, x) ==
    /\ slot' = x.slot
    /\ ring' = [Replay(ring, data, 1, ToWrite(data, shadow.alt, after, x)) EXCEPT !.did = <<>>]
Reads(data, after) ==
    /\ client' = ClientParses(client, data) /\ shadow' = after
    /\ Shared(data, AdvanceTracker(tracker, data, shadow.alt, after.alt))
    /\ Records(data, after.alt, ExtractMainBuffer(data, shadow.alt, slot))
    /\ split' = (split \/ client'.at \in {"escape", "csi", "oscEscape"})
Read(k) ==
    /\ pos + k <= Len(stream)
    /\ pos' = pos + k
    /\ LET data == SubSeq(stream, pos + 1, pos + k) IN Reads(data, ShadowParses(shadow, data))
    /\ UNCHANGED stream

Next == \E k \in 1 .. Len(stream) : Read(k)

Spec == Init /\ [][Next]_vars
-----------------------------------------------------------------------------
\* The state of the client before the byte at a position, and after the last.
ClientAt(k) == ClientParses(Parser, SubSeq(stream, 1, k))

\* The bytes of a live switch sequence: from its ESC to its final byte.
InSwitch ==
    UNION {k .. k + 5 : k \in {j \in 1 .. Len(stream) - 5 :
             /\ StartsSwitch(From(stream, j)) /\ ClientAt(j - 1).at # "designator"}}

\* Every byte the tracker calls live is main-screen content of the client, and every
\* main-screen byte it does not call live is part of an escape sequence (a tail that
\* was undecided when its read ended), wherever the reads split the stream.
LiveIsMain ==
    ~adopted =>
        \A k \in 1 .. pos :
           LET main == ~ClientAt(k - 1).alt /\ k \notin InSwitch
           IN  /\ k \in live => main
               /\ main /\ k \notin live =>
                    (stream[k] = "E" \/ ClientAt(k - 1).at \in {"escape", "csi", "oscEscape"})

\* The scanner does not follow designators: an OSC whose ESC the client took for
\* one is text to the client and a string to the scanner.
DesignatedOsc ==
    \E k \in 1 .. pos - 1 :
       stream[k] = "E" /\ stream[k + 1] = "]" /\ ClientAt(k - 1).at = "designator"

\* But for that, the scanner reports exactly what the client acts on, in the
\* client's order, wherever the reads split the stream.
ItemsAreClients == DesignatedOsc \/ items = client.did

\* When nothing is carried the tracker knows the client's screen.
ScreenKnown == tracker.carry.kind = "nothing" => tracker.client = client.alt

\* As long as no read ended inside an escape sequence, a replay of the ring never
\* leaves the client on the alternate screen.
UnsplitRingStaysOnMain == split \/ ~ring.alt

\* What the comments of the read loop promise for every read: a replay of the ring
\* never leaves the client on the alternate screen.
RingStaysOnMain == ~ring.alt
=============================================================================
