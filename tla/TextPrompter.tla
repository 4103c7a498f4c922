---------------------------- MODULE TextPrompter ----------------------------
(***************************************************************************)
(* TextPrompter: every prompt prints, reads one line and either answers,   *)
(* fails or asks again. A failed write is remembered and surfaced by the   *)
(* prompt that flushes it; the end of the input comes with the last line   *)
(* read and stays.                                                         *)
(***************************************************************************)
EXTENDS Naturals, Sequences, Selection

CONSTANTS
    Blank,      \* a line with nothing on it
    Unfit,      \* a line no menu takes
    Broken      \* a read that fails other than at the end of the input

VARIABLE prompter

PrompterType == prompter \in [exhausted : BOOLEAN, writeErr : BOOLEAN, piped : BOOLEAN]

PrompterInit == prompter \in [exhausted : {FALSE}, writeErr : {FALSE}, piped : BOOLEAN]

Line(text, end) == [text |-> text, end |-> end]

(* readLine: a line of the user's, the last one when the input is a pipe;  *)
(* nothing but its end once it is exhausted.                               *)
ReadLine(texts) ==
    IF prompter.exhausted THEN {Line(Blank, TRUE)}
    ELSE {Line(Broken, FALSE)}
         \cup [text : texts, end : {FALSE, prompter.piped}]

(* printf: writes until one fails, and remembers that. *)
Printed == {prompter.writeErr, TRUE}

(* A prompt that surfaces the write failure clears it. *)
Prompted(line, lost, flushed) ==
    prompter' = [prompter EXCEPT !.exhausted = @ \/ line.end,
                                 !.writeErr = lost /\ ~flushed]

Notify == \E lost \in Printed : prompter' = [prompter EXCEPT !.writeErr = lost]

Value(v) == [is |-> "value", value |-> v]
Again    == [is |-> "again"]
Fails    == [is |-> "fails"]

Flush(lost, value) == IF lost THEN Fails ELSE Value(value)

(* Every prompt with its answer to a line and to the fate of what it wrote. *)
Select(line, lost, size, default) ==
    CASE line.text = Broken -> Fails
      [] line.text = Blank -> Flush(lost, default)
      [] line.text \in 1..size -> Flush(lost, line.text)
      [] OTHER -> IF line.end THEN Fails ELSE Again

(* The picks come in the order typed, a repeated one once. *)
MultiSelect(line, lost, size, preselected) ==
    CASE line.text = Broken -> Fails
      [] line.text = Blank -> Flush(lost, preselected)
      [] line.text = Unfit -> IF line.end THEN Fails ELSE Again
      [] \E i \in DOMAIN line.text : line.text[i] \notin 1..size ->
             IF line.end THEN Fails ELSE Again
      [] OTHER -> Flush(lost, Unique(line.text))

Confirm(line, lost, default) ==
    CASE line.text = Broken \/ lost -> Fails
      [] line.text = Blank -> Value(default)
      [] OTHER -> Value(line.text = TRUE)

Input(line, lost, default) ==
    CASE line.text = Broken \/ lost -> Fails
      [] line.text = Blank -> Value(default)
      [] OTHER -> Value(line.text)

(* A secret read with the end of the input still counts; an empty one asks *)
(* again unless there is nothing left to read. What it failed to write is  *)
(* left for the next prompt.                                               *)
Secret(line) ==
    CASE line.text = Broken -> Fails
      [] line.text = Blank -> IF line.end THEN Fails ELSE Again
      [] OTHER -> Value(line.text)
=============================================================================
