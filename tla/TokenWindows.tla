---------------------------- MODULE TokenWindows ----------------------------
(***************************************************************************)
(* The chunks of the token_window mode: windows of tokens that overlap,    *)
(* moved to where a token starts or ends a letter.  Positions count the    *)
(* tokens before them; the bytes of the tokens are those of the text, so   *)
(* the start and the end of the text are both aligned.                     *)
(***************************************************************************)
EXTENDS Naturals, Integers, Sequences

CONSTANT Config  \* values of ChunkingConfig

(* ChunkingConfig: overlap_tokens is below window_tokens.                  *)
ASSUME ConfigAssumption ==
  \A c \in Config : /\ c.window \in Nat /\ c.overlap \in Nat
                    /\ c.overlap < c.window

VARIABLES
  config,
  count,    \* tokens of the text
  aligned,  \* the positions between two letters
  start,    \* start_token
  end,      \* end_token, 0 before it is looked for
  windows   \* the chunks so far

windowing == <<config, count, aligned, start, end, windows>>

WindowsInit ==
  /\ config \in Config
  /\ count \in Nat \ {0}
  /\ aligned \in {a \in SUBSET (0 .. count) : 0 \in a /\ count \in a}
  /\ start = 0 /\ end = 0
  /\ windows = <<>>

Seeking(position) == position \notin aligned

(* next_token_start_at_char_boundary                                       *)
SkipStart ==
  /\ end = 0 /\ start < count /\ Seeking(start)
  /\ start' = start + 1
  /\ UNCHANGED <<config, count, aligned, end, windows>>

Capped(position) == IF position > count THEN count ELSE position

OpenWindow ==
  /\ end = 0 /\ start < count /\ ~Seeking(start)
  /\ end' = Capped(start + config.window)
  /\ UNCHANGED <<config, count, aligned, start, windows>>

(* next_token_end_at_char_boundary                                         *)
SkipEnd ==
  /\ end > 0 /\ Seeking(end)
  /\ end' = end + 1
  /\ UNCHANGED <<config, count, aligned, start, windows>>

WithoutOverlap(first, last) == last + 1  \* variant: one past the window
NextStart(first, last) ==
  IF last - config.overlap > first + 1 THEN last - config.overlap ELSE first + 1

CloseWindow ==
  /\ end > 0 /\ ~Seeking(end)
  /\ windows' = Append(windows, [start |-> start, end |-> end])
  /\ start' = IF end = count THEN count ELSE NextStart(start, end)
  /\ end' = 0
  /\ UNCHANGED <<config, count, aligned>>

WindowStep == SkipStart \/ OpenWindow \/ SkipEnd \/ CloseWindow

WindowsSpec == WindowsInit /\ [][WindowStep]_windowing

-----------------------------------------------------------------------------
(* tokenizer.py:46-69: no letter is cut, no text is left out between two   *)
(* chunks, every chunk goes further than the one before and repeats at     *)
(* most overlap_tokens of it; in the end the chunks reach the end.         *)
WindowsCover ==
  /\ \A i \in DOMAIN windows :
       /\ windows[i].start \in aligned /\ windows[i].end \in aligned
       /\ i = 1 => windows[i].start = 0
       /\ i > 1 => /\ windows[i].start <= windows[i - 1].end
                   /\ windows[i].end > windows[i - 1].end
                   /\ windows[i].start >= windows[i - 1].end - config.overlap
  /\ start = count /\ count > 0 =>
       windows # <<>> /\ windows[Len(windows)].end = count
=============================================================================
