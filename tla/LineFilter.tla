----------------------------- MODULE LineFilter -----------------------------
(***************************************************************************)
(* The filters that shorten the output of a command, src/reduce/rtk.  A     *)
(* text is a sequence of lines; a line is what the regular expressions tell *)
(* apart (word), its length in characters, how many of them are escape      *)
(* sequences, and whether it has been cut short.  A filter is the record of *)
(* the options of its TOML definition; a limit that is not given is Absent, *)
(* and a message is a text of one line, or of none when there is none.      *)
(***************************************************************************)
EXTENDS Integers, FiniteSetsExt, SequencesExt

CONSTANT FilterCases   \* the definitions and texts that are tried, records [def, text]

Absent == -1

Lines == {l \in [word : STRING, len : Nat, ansi : Nat, cut : BOOLEAN] : l.ansi <= l.len}
Rules == [from : STRING, to : Lines]
Limits == Nat \cup {Absent}

\* An Option<usize> for each limit, and a line for each replacement.
ASSUME FilterAssumption ==
  \A c \in FilterCases :
    /\ c.text \in Seq(Lines)
    /\ c.def.replace \in Seq(Rules)
    /\ {c.def.head_lines, c.def.tail_lines, c.def.max_lines, c.def.truncate_lines_at} \subseteq Limits

VARIABLE trial         \* one case as [def, text, out], or <<>>

Line(word, len) == [word |-> word, len |-> len, ansi |-> 0, cut |-> FALSE]

\* "... (n lines omitted)" and "... (n lines truncated)"; n is one digit here.
Omitted(n) == [word |-> "omitted", len |-> 21, ansi |-> 0, cut |-> FALSE, count |-> n]
Truncated(n) == [word |-> "truncated", len |-> 23, ansi |-> 0, cut |-> FALSE, count |-> n]

Characters(text) ==
  FoldSeq(LAMBDA l, n : n + l.len, Len(text) - 1, text)

\* The elements of a sequence that are in a set, in their order.
Those(seq, set) ==
  LET kept[n \in 0..Len(seq)] ==
        IF n = 0 THEN <<>>
        ELSE IF seq[n] \in set THEN Append(kept[n - 1], seq[n]) ELSE kept[n - 1]
  IN kept[Len(seq)]

\* What an anchored expression sees of a line.
Seen(line) == IF line.ansi > 0 THEN "escaped" ELSE line.word

(***************************************************************************)
(* Compiling: a definition that both strips and keeps, or has an expression *)
(* beside match_command that is not one, is left out of the registry with a *)
(* warning, while the set of the commands that have a filter is built from  *)
(* all definitions.                                                         *)
(***************************************************************************)
Compiles(def) ==
  /\ def.strip_lines_matching = {} \/ def.keep_lines_matching = {}
  /\ ~def.bad_regex

CommandMatchesFilter(defs, command) ==
  \E i \in DOMAIN defs : command[1] \in defs[i].match_command

FindMatchingFilter(defs, command) ==
  LET compiled == SelectSeq(defs, Compiles)
      fits == {i \in DOMAIN compiled : command[1] \in compiled[i].match_command}
  IN IF fits = {} THEN <<>> ELSE <<compiled[Min(fits)]>>

(***************************************************************************)
(* The stages, in the order of apply_filter_with_info.                      *)
(***************************************************************************)
StripAnsi(f, text) ==
  IF f.strip_ansi
  THEN [i \in DOMAIN text |-> [text[i] EXCEPT !.len = @ - text[i].ansi, !.ansi = 0]]
  ELSE text

\* The rules are applied to a line one after the other.
Rewritten(rules, line) ==
  LET after[n \in 0..Len(rules)] ==
        IF n = 0 THEN line
        ELSE IF Seen(after[n - 1]) = rules[n].from THEN rules[n].to ELSE after[n - 1]
  IN after[Len(rules)]

Replace(f, text) == [i \in DOMAIN text |-> Rewritten(f.replace, text[i])]

\* The first rule that fits the whole text, and has no excuse, answers for it.
MatchOutput(f, text) ==
  LET words == {Seen(text[i]) : i \in DOMAIN text}
      fires == {k \in DOMAIN f.match_output :
                  /\ f.match_output[k].pattern \in words
                  /\ f.match_output[k].unless \notin words}
  IN IF fires = {} THEN <<>> ELSE f.match_output[Min(fires)].message

FilterLines(f, text) ==
  IF f.strip_lines_matching # {}
  THEN Those(text, {l \in Range(text) : Seen(l) \notin f.strip_lines_matching})
  ELSE IF f.keep_lines_matching # {}
  THEN Those(text, {l \in Range(text) : Seen(l) \in f.keep_lines_matching})
  ELSE text

\* truncate: a limit below three leaves only the dots.
TruncateLines(f, text) ==
  LET n == f.truncate_lines_at
      Short(l) == [l EXCEPT !.len = IF n < 3 THEN 3 ELSE n, !.cut = TRUE]
  IN IF n = Absent THEN text
     ELSE [i \in DOMAIN text |-> IF text[i].len <= n THEN text[i] ELSE Short(text[i])]

\* head_lines and tail_lines: the lines that stay, and where the head was cut.
HeadTail(f, text) ==
  LET total == Len(text)
      head == f.head_lines
      tail == f.tail_lines
      Kept(lines, cut, gap) == [lines |-> lines, head_cut |-> cut, gap |-> gap]
      Ending(n) == SubSeq(text, total - n + 1, total)
      whole == Kept(text, Absent, FALSE)
  IN IF head # Absent /\ tail # Absent
     THEN IF total > head + tail
          THEN Kept(SubSeq(text, 1, head) \o <<Omitted(total - head - tail)>> \o Ending(tail),
                    Absent, TRUE)
          ELSE whole
     ELSE IF head # Absent /\ total > head
     THEN Kept(Append(SubSeq(text, 1, head), Omitted(total - head)), head, FALSE)
     ELSE IF head = Absent /\ tail # Absent /\ total > tail
     THEN Kept(<<Omitted(total - tail)>> \o Ending(tail), Absent, TRUE)
     ELSE whole

\* max_lines counts the line that HeadTail has added.
MaxLines(f, text) ==
  LET max == f.max_lines
  IN IF max # Absent /\ Len(text) > max
     THEN [lines |-> Append(SubSeq(text, 1, max), Truncated(Len(text) - max)), max_cut |-> max]
     ELSE [lines |-> text, max_cut |-> Absent]

Blank(text) == \A i \in DOMAIN text : text[i].word = "blank"

NoLoss == [kind |-> "none"]
WholeLoss == [kind |-> "whole"]
TailLoss(payload, offset) == [kind |-> "tail", tee_payload |-> payload, tail_offset |-> offset]

\* Mutant of Lossiness: a cut by both limits is told as a tail.
LossinessOfHead(f, before, ht, mx) ==
  IF f.tail_lines = Absent /\ ht.head_cut # Absent THEN TailLoss(before, ht.head_cut + 1)
  ELSE IF ht.gap \/ mx.max_cut # Absent THEN WholeLoss ELSE NoLoss

\* The Lossiness of a text: a tail can be told apart only when one cut at the
\* end is all that happened to whole lines.
Lossiness(f, before, ht, mx) ==
  LET intra == \E i \in DOMAIN before : before[i].cut
      snapshot == ~intra /\ f.tail_lines = Absent /\ (f.head_lines # Absent \/ f.max_lines # Absent)
  IN IF ~snapshot
     THEN IF ht.gap \/ intra \/ ht.head_cut # Absent \/ mx.max_cut # Absent THEN WholeLoss ELSE NoLoss
     ELSE IF ht.head_cut # Absent /\ mx.max_cut # Absent THEN WholeLoss
     ELSE IF ht.head_cut # Absent THEN TailLoss(before, ht.head_cut + 1)
     ELSE IF mx.max_cut # Absent THEN TailLoss(before, mx.max_cut + 1)
     ELSE NoLoss

\* What the line filter leaves of a text.
Selected(f, text) == FilterLines(f, Replace(f, StripAnsi(f, text)))

ApplyFilter(f, text) ==
  LET replaced == Replace(f, StripAnsi(f, text))
      message == MatchOutput(f, replaced)
      before == TruncateLines(f, FilterLines(f, replaced))
      ht == HeadTail(f, before)
      mx == MaxLines(f, ht.lines)
  IN IF message # <<>> THEN [text |-> message, loss |-> WholeLoss]
     ELSE IF Blank(mx.lines) /\ f.on_empty # <<>> THEN [text |-> f.on_empty, loss |-> NoLoss]
     ELSE [text |-> mx.lines, loss |-> Lossiness(f, before, ht, mx)]
-----------------------------------------------------------------------------
FilterInit == trial \in {[def |-> c.def, text |-> c.text, out |-> <<>>] : c \in FilterCases}

FilterIdle == trial = <<>>

RunFilter ==
  /\ trial # <<>>
  /\ trial.out = <<>>
  /\ Compiles(trial.def)
  /\ trial' = [trial EXCEPT !.out = <<ApplyFilter(trial.def, trial.text)>>]
-----------------------------------------------------------------------------
(***************************************************************************)
(* The loss that a filter reports is the loss there is, for every mixture   *)
(* of its limits, at their boundaries.  When it reports a tail, the shown   *)
(* lines and the lines from tail_offset of tee_payload are together what    *)
(* the line filter selected ("`tail -n +{tail_offset}` over `tee_payload`   *)
(* reproduces the dropped lines", toml_filter.rs:366), and the number in    *)
(* the last line is their number.  When it reports none, the selected lines *)
(* are all shown, unless they are blank and on_empty speaks for them.       *)
(***************************************************************************)
LossIsTold ==
  (trial # <<>> /\ trial.out # <<>>) =>
    LET selected == Selected(trial.def, trial.text)
        out == trial.out[1].text
        loss == trial.out[1].loss
    IN /\ loss.kind = "tail" =>
            LET dropped == SubSeq(loss.tee_payload, loss.tail_offset, Len(loss.tee_payload))
            IN /\ dropped # <<>>
               /\ Front(out) \o dropped = selected
               /\ Last(out).count = Len(dropped)
       /\ loss.kind = "none" => out = selected \/ (out = trial.def.on_empty /\ Blank(selected))
=============================================================================
