------------------------------ MODULE TerminalInput ------------------------------
(***************************************************************************)
(* The input reader of the terminal interface (internal/tui, tui.go): it   *)
(* turns the bytes of a terminal into keys, one byte at a time, and must   *)
(* keep what is pasted apart from what is pressed.                         *)
(*                                                                         *)
(* The terminal sends a key as one sequence of bytes and wraps a paste in  *)
(* ESC[200~ and ESC[201~.  Pasted text is any bytes that do not spell the  *)
(* end marker.  A byte stands for its class where classes suffice.         *)
(* Left out: the queue behind emit, which drops what it has no room for.   *)
(***************************************************************************)
EXTENDS Naturals, SequencesExt

VARIABLES
  reader,    \* inputReader
  sending,   \* bytes of the current key, marker or text that are on their way
  pasting,   \* the terminal is between the two markers
  spelled,   \* how much of the end marker the pasted text spells just now
  due,       \* history: keys that were pressed or pasted and not yet emitted
  forged     \* history: a key was emitted that nobody pressed or pasted

inputVars == <<reader, sending, pasting, spelled, due, forged>>

Esc == "esc"
Printable == {"[", "O", "0", "1", "2", "3", "~", "A", "M", "<", "x"}
Controls == {"cr", "tab", "ctrl-c"}
Bytes == Printable \cup Controls \cup {Esc}

Char(b) == <<"char", b>>
Key(k) == <<"key", k>>
Chars(bytes) == [i \in 1..Len(bytes) |-> Char(bytes[i])]

PasteTerminator == <<"[", "2", "0", "1", "~">>
PasteBegin == <<Esc, "[", "2", "0", "0", "~">>
PasteEnd == <<Esc>> \o PasteTerminator

\* What a user does, the bytes it sends and the keys it means.
Presses ==
  {[bytes |-> <<b>>, keys |-> <<Char(b)>>] : b \in Printable}
    \cup {[bytes |-> <<c>>, keys |-> <<Key(c)>>] : c \in Controls}
    \cup {[bytes |-> <<Esc>>, keys |-> <<Key("esc")>>],
          [bytes |-> <<Esc, "[", "A">>, keys |-> <<Key("up")>>],
          [bytes |-> <<Esc, "O", "A">>, keys |-> <<Key("up")>>],
          [bytes |-> <<Esc, "[", "3", "~">>, keys |-> <<Key("delete")>>],
          [bytes |-> <<Esc, "[", "1", "~">>, keys |-> <<Key("home")>>],
          [bytes |-> <<Esc, "[", "<", "0", "M">>, keys |-> <<Key("mouse")>>]}

NewReader == [state |-> "normal", params |-> <<>>, paste |-> FALSE, buf |-> <<>>]

InputInit ==
  /\ reader = NewReader
  /\ sending = <<>> /\ pasting = FALSE /\ spelled = 0
  /\ due = <<>> /\ forged = FALSE

--------------------------------------------------------------------------
(* feed: what a byte makes of the reader, and the keys it emits *)

Result(r, keys) == [reader |-> r, keys |-> keys]
Turned(r, state) == [r EXCEPT !.state = state]

FeedNormal(r, b) ==
  IF r.paste
    THEN CASE b = Esc -> Result([Turned(r, "escPaste") EXCEPT !.buf = <<>>], <<>>)
           [] b \in Printable -> Result(r, <<Char(b)>>)
           [] OTHER -> Result(r, <<>>)
    ELSE CASE b = Esc -> Result(Turned(r, "esc"), <<>>)
           [] b \in Printable -> Result(r, <<Char(b)>>)
           [] OTHER -> Result(r, <<Key(b)>>)

\* Feeding the byte again that did not fit, after some keys.
Again(r, keys, b) ==
  LET s == FeedNormal(Turned(r, "normal"), b) IN Result(s.reader, keys \o s.keys)

FeedEsc(r, b) ==
  CASE b = "[" -> Result([Turned(r, "csi") EXCEPT !.params = <<>>], <<>>)
    [] b = "O" -> Result(Turned(r, "ss3"), <<>>)
    [] b = Esc -> Result(Turned(r, "normal"), <<Key("esc")>>)
    [] OTHER   -> Again(r, <<Key("esc")>>, b)

\* A plausible bug: what looked like the marker and was not is dropped.
FeedEscPasteDrops(r, b) ==
  LET n == Len(r.buf) + 1 IN
  IF n <= Len(PasteTerminator) /\ PasteTerminator[n] = b
    THEN IF n = Len(PasteTerminator)
           THEN Result([Turned(r, "normal") EXCEPT !.paste = FALSE, !.buf = <<>>], <<>>)
           ELSE Result([r EXCEPT !.buf = Append(@, b)], <<>>)
    ELSE Again([r EXCEPT !.buf = <<>>], <<>>, b)

FeedEscPaste(r, b) ==
  LET n == Len(r.buf) + 1 IN
  IF n <= Len(PasteTerminator) /\ PasteTerminator[n] = b
    THEN IF n = Len(PasteTerminator)
           THEN Result([Turned(r, "normal") EXCEPT !.paste = FALSE, !.buf = <<>>], <<>>)
           ELSE Result([r EXCEPT !.buf = Append(@, b)], <<>>)
    ELSE Again([r EXCEPT !.buf = <<>>], Chars(r.buf), b)

FeedSS3(r, b) == Result(Turned(r, "normal"), IF b = "A" THEN <<Key("up")>> ELSE <<>>)

DispatchCSI(r, final) ==
  LET s == [r EXCEPT !.params = <<>>]
      number == SelectSeq(r.params, LAMBDA p : p \in {"0", "1", "2", "3"})
  IN  CASE r.params # <<>> /\ r.params[1] = "<" -> Result(s, <<Key("mouse")>>)
        [] final = "A" -> Result(s, <<Key("up")>>)
        [] final = "~" /\ number = <<"1">> -> Result(s, <<Key("home")>>)
        [] final = "~" /\ number = <<"3">> -> Result(s, <<Key("delete")>>)
        [] final = "~" /\ number = <<"2", "0", "0">> -> Result([s EXCEPT !.paste = TRUE], <<>>)
        [] final = "~" /\ number = <<"2", "0", "1">> -> Result([s EXCEPT !.paste = FALSE], <<>>)
        [] OTHER -> Result(s, <<>>)

FeedCSI(r, b) ==
  CASE b \in {"0", "1", "2", "3", "<"} -> Result([r EXCEPT !.params = Append(@, b)], <<>>)
    [] b \in Printable \ {"0", "1", "2", "3", "<"} -> DispatchCSI(Turned(r, "normal"), b)
    [] OTHER -> Result(Turned(r, "normal"), <<>>)

Fed(r, b) ==
  CASE r.state = "normal"   -> FeedNormal(r, b)
    [] r.state = "esc"      -> FeedEsc(r, b)
    [] r.state = "escPaste" -> FeedEscPaste(r, b)
    [] r.state = "ss3"      -> FeedSS3(r, b)
    [] r.state = "csi"      -> FeedCSI(r, b)

--------------------------------------------------------------------------
(* Actions *)

EmitKeys(keys) ==
  IF IsPrefix(keys, due)
    THEN due' = SubSeq(due, Len(keys) + 1, Len(due)) /\ UNCHANGED forged
    ELSE forged' = TRUE /\ UNCHANGED due

Feed ==
  /\ sending # <<>>
  /\ LET s == Fed(reader, Head(sending)) IN reader' = s.reader /\ EmitKeys(s.keys)
  /\ sending' = Tail(sending)
  /\ UNCHANGED <<pasting, spelled>>

\* Thirty milliseconds without a byte: the sequences themselves come in one piece.
FlushEsc ==
  /\ sending = <<>> /\ reader.state = "esc"
  /\ reader' = Turned(reader, "normal") /\ EmitKeys(<<Key("esc")>>)
  /\ UNCHANGED <<sending, pasting, spelled>>

\* The next key; so soon after Escape that it was not yet flushed, only one that
\* does not begin like a sequence.
Press(p) ==
  /\ sending = <<>> /\ ~ pasting
  /\ reader.state = "esc" => p.bytes[1] \notin {Esc, "[", "O"}
  /\ sending' = p.bytes /\ due' = due \o p.keys
  /\ UNCHANGED <<reader, pasting, spelled, forged>>

BeginPaste ==
  /\ sending = <<>> /\ ~ pasting /\ reader.state # "esc"
  /\ sending' = PasteBegin /\ pasting' = TRUE /\ spelled' = 0
  /\ UNCHANGED <<reader, due, forged>>

\* Any byte that does not complete the end marker.
Paste(b) ==
  LET n == IF b = PasteEnd[spelled + 1] THEN spelled + 1 ELSE IF b = Esc THEN 1 ELSE 0 IN
  /\ sending = <<>> /\ pasting /\ n < Len(PasteEnd)
  /\ sending' = <<b>> /\ spelled' = n
  /\ due' = IF b \in Printable THEN Append(due, Char(b)) ELSE due
  /\ UNCHANGED <<reader, pasting, forged>>

EndPaste ==
  /\ sending = <<>> /\ pasting
  /\ sending' = PasteEnd /\ pasting' = FALSE
  /\ UNCHANGED <<reader, spelled, due, forged>>

InputNext ==
  \/ Feed \/ FlushEsc \/ BeginPaste \/ EndPaste
  \/ \E p \in Presses : Press(p)
  \/ \E b \in Bytes : Paste(b)

InputSpec == InputInit /\ [][InputNext]_inputVars

(* Whatever is pasted, parts of the end marker and escape sequences        *)
(* included, comes out as characters in their order: no key is emitted that *)
(* was not pressed, so that a pasted text cannot press Enter or Escape, and *)
(* once the last byte has been fed and no marker may be under way, every    *)
(* key has been emitted and the reader knows whether a paste goes on.       *)
KeysAreThosePressed ==
  /\ ~ forged
  /\ sending = <<>> /\ reader.state = "normal" => due = <<>> /\ reader.paste = pasting
=================================================================================
