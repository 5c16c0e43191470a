------------------------------- MODULE TuiEditor -------------------------------
(***************************************************************************)
(* tui's input line: widgets/editor.rs and paste.rs, one key at a time as  *)
(* app.rs hands them on.  A character is a word's, a blank, another, or    *)
(* half of a paste's marker, which editing may break; "nl" ends a line.    *)
(***************************************************************************)
EXTENDS Integers, Sequences, SequencesExt

CONSTANTS Habits,       \* what a user does: sets of kinds of keys
          SmallPastes,  \* what is pasted: up to ten lines, and more
          LargePastes,
          MaxUndo,      \* undo states that are kept: 100 in the code
          MaxRing,      \* entries of the kill ring: 10 in the code
          MaxKeys       \* keys pressed, a bound of the model

VARIABLES habit, keys, key,  \* the keys: how many, and the last one's name
          buffer,            \* EditorState: [lines, line, col]; the first column is 0
          preferred_col,
          history, history_index,
          kill_ring, last_kill_appended,
          undo_stack, redo_stack,
          char_jump_target,  \* whether the next character is one to jump to
          markers,           \* PasteStore: the large pastes, in the order of their ids
          sent               \* the last message, markers expanded

keyVars == <<habit, keys, key>>
historyVars == <<history, history_index>>
killVars == <<kill_ring, last_kill_appended>>
undoVars == <<undo_stack, redo_stack>>
editorVars == <<keyVars, buffer, preferred_col, historyVars, killVars, undoVars, char_jump_target, markers, sent>>

NoCol == -1
NoIndex == 0
Empty == [lines |-> << <<>> >>, line |-> 1, col |-> 0]
NL == "nl"

EditorInit ==
    /\ habit \in Habits /\ keys = 0 /\ key = "none"
    /\ buffer = Empty /\ preferred_col = NoCol
    /\ history = <<>> /\ history_index = NoIndex
    /\ kill_ring = <<>> /\ last_kill_appended = FALSE
    /\ undo_stack = <<>> /\ redo_stack = <<>> /\ char_jump_target = FALSE
    /\ markers = <<>> /\ sent = <<>>

Key(kind, name) == kind \in habit /\ keys < MaxKeys /\ keys' = keys + 1 /\ key' = name /\ habit' = habit

-----------------------------------------------------------------------------
(* Lines and columns.                                                       *)

Less(m, n) == IF m < n THEN m ELSE n
Line(b) == b.lines[b.line]
Length(b) == Len(Line(b))
Before(s, col) == SubSeq(s, 1, Less(col, Len(s)))
Behind(s, col) == SubSeq(s, col + 1, Len(s))
Joined(ls) == FoldLeft(LAMBDA text, l : text \o <<NL>> \o l, Head(ls), Tail(ls))

\* How the marker of a paste begins; as many pastes as there are names, a bound of the model.
Opening == <<"[paste #0", "[paste #1", "[paste #2">>
IsWord(ch) == ch = "a" \/ ch \in ToSet(Opening)
\* The character before a position; a blank behind the end of the line.
At(s, col) == IF col \in 1..Len(s) THEN s[col] ELSE " "

InsertChar(b, ch) ==
    [b EXCEPT !.lines[b.line] = Before(Line(b), b.col) \o <<ch>> \o Behind(Line(b), b.col), !.col = b.col + 1]
InsertNewline(b) ==
    [lines |-> SubSeq(b.lines, 1, b.line - 1) \o <<Before(Line(b), b.col), Behind(Line(b), b.col)>>
               \o SubSeq(b.lines, b.line + 1, Len(b.lines)),
     line |-> b.line + 1, col |-> 0]
InsertText(b, text) == FoldLeft(LAMBDA at, ch : IF ch = NL THEN InsertNewline(at) ELSE InsertChar(at, ch), b, text)

JoinNext(b) == [b EXCEPT !.lines = SubSeq(b.lines, 1, b.line - 1) \o <<b.lines[b.line] \o b.lines[b.line + 1]>>
                                   \o SubSeq(b.lines, b.line + 2, Len(b.lines))]
EndOf(b, line) == [b EXCEPT !.line = line, !.col = Len(b.lines[line])]
StartOf(b, line) == [b EXCEPT !.line = line, !.col = 0]

-----------------------------------------------------------------------------
(* Undo.                                                                    *)

Saved_DropsNewest ==
    LET all == IF undo_stack # <<>> /\ Last(undo_stack) = buffer THEN undo_stack ELSE Append(undo_stack, buffer)
    IN SubSeq(all, 1, Less(MaxUndo, Len(all)))

\* save_undo_state: nothing twice in a row, and the oldest goes.
Saved == LET all == IF undo_stack # <<>> /\ Last(undo_stack) = buffer THEN undo_stack ELSE Append(undo_stack, buffer)
         IN SubSeq(all, Len(all) - Less(MaxUndo, Len(all)) + 1, Len(all))

SaveUndoState == undo_stack' = Saved /\ redo_stack' = redo_stack

Undo ==
    /\ Key("undo", "undo") /\ undo_stack # <<>>
    /\ buffer' = Last(undo_stack) /\ undo_stack' = Front(undo_stack) /\ redo_stack' = Append(redo_stack, buffer)
    /\ UNCHANGED <<preferred_col, historyVars, killVars, char_jump_target, markers, sent>>

\* An edit leaves redo_stack alone, and redo does not look at the limit.
Redo ==
    /\ Key("undo", "redo") /\ redo_stack # <<>>
    /\ buffer' = Last(redo_stack) /\ redo_stack' = Front(redo_stack) /\ undo_stack' = Append(undo_stack, buffer)
    /\ UNCHANGED <<preferred_col, historyVars, killVars, char_jump_target, markers, sent>>

-----------------------------------------------------------------------------
(* Moving.  Up and down, and pages, keep or ignore the preferred column.    *)

Move(b, preferred) ==
    /\ SaveUndoState /\ buffer' = b /\ preferred_col' = preferred
    /\ UNCHANGED <<historyVars, killVars, char_jump_target, markers, sent>>

Vertical(line) ==
    LET col == IF preferred_col = NoCol THEN buffer.col ELSE preferred_col
    IN [buffer EXCEPT !.line = line, !.col = Less(col, Len(buffer.lines[line]))]

CursorLeft == IF buffer.col > 0 THEN [buffer EXCEPT !.col = @ - 1]
              ELSE IF buffer.line > 1 THEN EndOf(buffer, buffer.line - 1) ELSE buffer
CursorRight == IF buffer.col < Length(buffer) THEN [buffer EXCEPT !.col = @ + 1]
               ELSE IF buffer.line < Len(buffer.lines) THEN StartOf(buffer, buffer.line + 1) ELSE buffer

\* From a position to the left over what is not a word's, then over what is.
CursorWordLeft ==
    IF buffer.col = 0 /\ buffer.line > 1 THEN EndOf(buffer, buffer.line - 1)
    ELSE LET s == Line(buffer)
             Stop(P(_), from) == CHOOSE n \in 0..from : (n = 0 \/ P(At(s, n))) /\ \A k \in (n + 1)..from : ~P(At(s, k))
         IN [buffer EXCEPT !.col = Stop(LAMBDA ch : ~IsWord(ch), Stop(IsWord, buffer.col))]

CursorWordRight ==
    IF buffer.col >= Length(buffer) /\ buffer.line < Len(buffer.lines) THEN StartOf(buffer, buffer.line + 1)
    ELSE LET s == Line(buffer)
             Stop(P(_), from) == CHOOSE n \in from..Len(s) : (n = Len(s) \/ P(s[n + 1])) /\ \A k \in from..(n - 1) : ~P(s[k + 1])
             start == Less(buffer.col, Len(s))
             word == IF start < Len(s) /\ IsWord(s[start + 1]) THEN start ELSE Stop(IsWord, start)
         IN [buffer EXCEPT !.col = Stop(LAMBDA ch : ~IsWord(ch), word)]

\* Ten lines up or down, within the text.
Page(line) == [buffer EXCEPT !.line = line, !.col = Less(buffer.col, Len(buffer.lines[line]))]

Walk == /\ Key("move", "move")
        /\ \/ \E line \in {buffer.line - 1, buffer.line + 1} \cap DOMAIN buffer.lines : Move(Vertical(line), preferred_col)
           \/ \E b \in {CursorLeft, CursorRight, CursorWordLeft, CursorWordRight,
                        StartOf(buffer, buffer.line), EndOf(buffer, buffer.line)} : Move(b, b.col)
           \/ Move(Page(1), preferred_col) \/ Move(Page(Len(buffer.lines)), preferred_col)

SetCharJump ==
    /\ Key("jump", "arm") /\ ~char_jump_target /\ char_jump_target' = TRUE
    /\ UNCHANGED <<buffer, preferred_col, historyVars, killVars, undoVars, markers, sent>>
CharJump(ch) ==
    /\ Key("jump", "jump") /\ char_jump_target /\ char_jump_target' = FALSE
    /\ LET hits == {n \in (buffer.col + 2)..Length(buffer) : Line(buffer)[n] = ch}
           col == IF hits = {} THEN buffer.col ELSE (CHOOSE n \in hits : \A k \in hits : n <= k) - 1
       IN /\ buffer' = [buffer EXCEPT !.col = col]
          /\ preferred_col' = IF hits = {} THEN preferred_col ELSE col
    /\ SaveUndoState /\ UNCHANGED <<historyVars, killVars, markers, sent>>

-----------------------------------------------------------------------------
(* Typing and deleting.                                                     *)

Edit(b, preferred) ==
    /\ SaveUndoState /\ buffer' = b /\ preferred_col' = preferred /\ last_kill_appended' = FALSE
    /\ UNCHANGED <<historyVars, kill_ring, char_jump_target, markers, sent>>

TypeChar(ch) == Key("type", "type") /\ ~char_jump_target /\ Edit(InsertChar(buffer, ch), buffer.col + 1)
TypeNewline == Key("lines", "type") /\ Edit(InsertNewline(buffer), 0)

DeleteCharBackward ==
    LET b == IF buffer.col > 0
             THEN [buffer EXCEPT !.lines[buffer.line] = Before(@, buffer.col - 1) \o Behind(@, buffer.col), !.col = @ - 1]
             ELSE IF buffer.line > 1 THEN JoinNext(EndOf(buffer, buffer.line - 1)) ELSE buffer
    IN Key("lines", "delete") /\ Edit(b, b.col)

DeleteCharForward ==
    LET b == IF buffer.col < Length(buffer)
             THEN [buffer EXCEPT !.lines[buffer.line] = Before(@, buffer.col) \o Behind(@, buffer.col + 1)]
             ELSE IF buffer.line < Len(buffer.lines) THEN JoinNext(buffer) ELSE buffer
    IN Key("lines", "delete") /\ Edit(b, preferred_col)

\* delete_range: within one line only.
InRange(from, to) == from.line = to.line /\ from.col <= to.col
Deleted(from, to) == IF InRange(from, to) THEN SubSeq(Line(from), from.col + 1, Less(to.col, Length(from))) ELSE <<>>
DeleteRange(from, to) ==
    IF InRange(from, to) THEN [buffer.lines EXCEPT ![from.line] = Before(@, from.col) \o Behind(@, to.col)] ELSE buffer.lines

PushKillRing(text, append) ==
    IF text = <<>> THEN UNCHANGED killVars
    ELSE /\ kill_ring' = IF append /\ last_kill_appended /\ kill_ring # <<>>
                         THEN Append(Front(kill_ring), Last(kill_ring) \o text)
                         ELSE LET all == Append(kill_ring, text) IN SubSeq(all, Len(all) - Less(MaxRing, Len(all)) + 1, Len(all))
         /\ last_kill_appended' = append

\* The cursor is put back to where the kill began, also where the text before it is gone.
Kill(from, to, col, preferred, append) ==
    /\ Key("kill", "kill") /\ SaveUndoState
    /\ buffer' = [buffer EXCEPT !.lines = DeleteRange(from, to), !.col = col] /\ preferred_col' = preferred
    /\ PushKillRing(Deleted(from, to), append)
    /\ UNCHANGED <<historyVars, char_jump_target, markers, sent>>

DeleteWordBackward == Kill(CursorWordLeft, buffer, buffer.col, CursorWordLeft.col, FALSE)
DeleteWordForward == Kill(buffer, CursorWordRight, buffer.col, CursorWordRight.col, FALSE)
DeleteToLineStart == Kill(StartOf(buffer, buffer.line), buffer, 0, preferred_col, FALSE)
DeleteToLineEnd == Kill(buffer, EndOf(buffer, buffer.line), buffer.col, preferred_col, TRUE)

\* insert_text, by which pastes, yanks and tabs come, does not end a run of kills.
Insert(text) ==
    /\ SaveUndoState /\ buffer' = InsertText(buffer, text)
    /\ preferred_col' = IF text = <<>> THEN preferred_col ELSE InsertText(buffer, text).col

Yank ==
    /\ Key("kill", "yank") /\ kill_ring # <<>> /\ Insert(Last(kill_ring))
    /\ UNCHANGED <<historyVars, killVars, char_jump_target, markers, sent>>
YankPop ==
    /\ Key("kill", "turn") /\ Len(kill_ring) > 1
    /\ kill_ring' = <<Last(kill_ring)>> \o Front(kill_ring)
    /\ UNCHANGED <<buffer, preferred_col, historyVars, last_kill_appended, undoVars, char_jump_target, markers, sent>>

-----------------------------------------------------------------------------
(* Pastes and messages.                                                     *)

Marker(id) == <<Opening[id], "]">>

\* store: what is short is inserted without the line ends it ends with.
Stripped(text) == LET ends == {n \in 0..Len(text) : \A k \in (n + 1)..Len(text) : text[k] = NL}
                  IN SubSeq(text, 1, CHOOSE n \in ends : \A m \in ends : n <= m)
PasteSmall(text) ==
    /\ Key("paste", "paste") /\ Insert(Stripped(text))
    /\ UNCHANGED <<historyVars, killVars, char_jump_target, markers, sent>>
PasteLarge(text) ==
    /\ Key("paste", "paste") /\ Len(markers) < Len(Opening) /\ Insert(Marker(Len(markers) + 1)) /\ markers' = Append(markers, text)
    /\ UNCHANGED <<historyVars, killVars, char_jump_target, sent>>

\* str::replace: every marker of one paste, from the left.
Replaced(text, id) ==
    LET Step(done, ch) == IF ch = "]" /\ done # <<>> /\ Last(done) = Opening[id] THEN Front(done) \o markers[id]
                          ELSE Append(done, ch)
    IN FoldLeft(Step, <<>>, text)

\* expand: one paste after the other, in the order of a hash map.
Expand(text, order) == FoldLeft(Replaced, text, order)

Blank(text) == \A n \in DOMAIN text : text[n] \in {" ", NL}

\* take_text, then expand: nothing blank is remembered or sent.
SubmitText ==
    /\ Key("submit", "submit")
    /\ LET text == Joined(buffer.lines)
       IN IF Blank(text) THEN UNCHANGED <<history, sent>>
          ELSE history' = Append(history, text) /\ \E order \in SetToSeqs(DOMAIN markers) : sent' = Expand(text, order)
    /\ history_index' = NoIndex /\ buffer' = Empty /\ undo_stack' = <<>> /\ redo_stack' = <<>>
    /\ UNCHANGED <<preferred_col, killVars, char_jump_target, markers>>

\* str::lines drops an empty last line.
Lines(text) ==
    LET Step(ls, ch) == IF ch = NL THEN Append(ls, <<>>) ELSE [ls EXCEPT ![Len(ls)] = Append(@, ch)]
        all == FoldLeft(Step, << <<>> >>, text)
    IN IF Len(all) > 1 /\ Last(all) = <<>> THEN Front(all) ELSE all
Entry(index) == LET ls == Lines(history[index]) IN [lines |-> ls, line |-> Len(ls), col |-> Len(Last(ls))]

\* The draft is not kept, and undo does not know of it.
Recall(index, b) ==
    /\ history_index' = index /\ buffer' = b
    /\ UNCHANGED <<preferred_col, history, killVars, undoVars, char_jump_target, markers, sent>>
HistoryPrev ==
    /\ Key("history", "recall") /\ buffer.line = 1 /\ history # <<>> /\ history_index # 1
    /\ LET index == IF history_index = NoIndex THEN Len(history) ELSE history_index - 1 IN Recall(index, Entry(index))
HistoryNext ==
    /\ Key("history", "recall") /\ buffer.line = Len(buffer.lines) /\ history_index # NoIndex
    /\ IF history_index < Len(history) THEN Recall(history_index + 1, Entry(history_index + 1)) ELSE Recall(NoIndex, Empty)

\* clear, and what an editor outside or the queue gives in its place.
Replace(text) ==
    /\ Key("clear", "clear")
    /\ history_index' = NoIndex /\ redo_stack' = <<>> /\ char_jump_target' = FALSE
    /\ buffer' = InsertText(Empty, text)
    /\ undo_stack' = <<Empty>> /\ preferred_col' = IF text = <<>> THEN preferred_col ELSE buffer'.col
    /\ UNCHANGED <<history, killVars, markers, sent>>
Clear ==
    /\ Key("clear", "clear")
    /\ history_index' = NoIndex /\ redo_stack' = <<>> /\ undo_stack' = <<>> /\ char_jump_target' = FALSE /\ buffer' = Empty
    /\ UNCHANGED <<preferred_col, history, killVars, markers, sent>>

EditorNext ==
    \/ \E ch \in {"a", " "} : TypeChar(ch) \/ CharJump(ch)
    \/ TypeNewline \/ DeleteCharBackward \/ DeleteCharForward \/ Walk \/ SetCharJump \/ Undo \/ Redo
    \/ DeleteWordBackward \/ DeleteWordForward \/ DeleteToLineStart \/ DeleteToLineEnd \/ Yank \/ YankPop
    \/ \E text \in SmallPastes : PasteSmall(text) \/ Replace(Stripped(text))
    \/ \E text \in LargePastes : PasteLarge(text)
    \/ SubmitText \/ HistoryPrev \/ HistoryNext \/ Clear

EditorSpec == EditorInit /\ [][EditorNext]_editorVars

-----------------------------------------------------------------------------
(* Properties.                                                              *)

\* What a message is, each whole marker read from the left: the reference for expand.
Whole(text) ==
    LET Step(done, ch) ==
            LET ids == {id \in DOMAIN markers : done # <<>> /\ ch = "]" /\ Last(done) = Opening[id]}
            IN IF ids = {} THEN Append(done, ch) ELSE Front(done) \o markers[CHOOSE id \in ids : TRUE]
    IN FoldLeft(Step, <<>>, text)
Nested == \E id \in DOMAIN markers : ToSet(markers[id]) \cap ToSet(Opening) # {}

Timeline == undo_stack \o <<buffer>> \o Reverse(redo_stack)

\* No key loses text for good, and none leaves the cursor on a line that is not there, where the
\* next key would panic.  One undo gives back what any edit changed; undo and redo only move
\* along the line of what there was; what a kill removes is where yank finds it; a message has
\* each whole marker replaced by its own paste, in any order of the hash map.
EditorStep ==
    /\ buffer'.line \in DOMAIN buffer'.lines
    /\ key' \in {"undo", "redo"} => Timeline' = Timeline
    /\ key' \in {"type", "delete", "kill", "yank", "paste"} /\ buffer'.lines # buffer.lines =>
           undo_stack' # <<>> /\ Last(undo_stack').lines = buffer.lines
    /\ key' = "kill" /\ buffer'.lines # buffer.lines =>
           LET was == Joined(buffer.lines)
               is == Joined(buffer'.lines)
               gone == Len(was) - Len(is)
           IN \E n \in 0..Len(is) :
                  /\ is = SubSeq(was, 1, n) \o SubSeq(was, n + gone + 1, Len(was))
                  /\ IsSuffix(SubSeq(was, n + 1, n + gone), Last(kill_ring'))
    /\ key' = "submit" /\ history' # history /\ ~Nested => sent' = Whole(Last(history'))
EditorKept == [][EditorStep]_editorVars

(* What documents say, or a reader may expect, and the code does not keep.  *)

\* The cursor is within its line: a word deleted before it leaves it behind the end.
CursorInText == buffer.col <= Length(buffer)
\* A redo gives back what the last undo took, also after an edit.
RedoFollowsUndo == redo_stack # <<>> => key \notin {"type", "delete", "kill"}
\* What is recalled is what was sent, and what was typed before comes back.
RecallIsExact == history_index # NoIndex => Joined(buffer.lines) = history[history_index] \/ key # "recall"
DraftKept == [][key' = "recall" /\ history_index = NoIndex => buffer = Empty]_editorVars
\* A paste that holds another's marker: expanded or not, as the hash map has it.
PasteUnchanged == \A id \in DOMAIN markers : sent # <<>> /\ Joined(buffer.lines) = <<>> /\ history # <<>> /\ Last(history) = Marker(id) => sent = markers[id]
===============================================================================
