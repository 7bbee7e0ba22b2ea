------------------------------ MODULE Lxdialog ------------------------------
(***************************************************************************)
(* The dialogs of menuconfig (scripts/kconfig/lxdialog), in three parts.   *)
(***************************************************************************)
EXTENDS Integers, Sequences, SequencesExt, FiniteSets

(***************************************************************************)
(* The menus and radio lists of menuconfig (scripts/kconfig/lxdialog,      *)
(* menubox.c, checklist.c and the items of util.c): which items are on the *)
(* screen, which one is highlighted and which one a key selects.  The      *)
(* window is only repainted where the code does it: a row keeps what was   *)
(* printed there, and scrolling moves the rows.  Between two menus the     *)
(* items may change; the scroll position is kept.                          *)
(***************************************************************************)

CONSTANTS
  ItemCounts,     \* numbers of items of a menu
  WindowRows,     \* heights of the window
  HotKey,         \* item -> letter it answers to
  Letters,        \* letters pressed
  MaxKeys         \* keys pressed in one behaviour
ASSUME LxAssumption == ItemCounts \subseteq Nat /\ WindowRows \subseteq Nat \ {0}

VARIABLES
  lx,         \* the open dialog, or Closed
  lxscroll,   \* *s_scroll, kept by the caller for the menu
  lxpicked,   \* what the last dialog selected and what was highlighted then
  lxkeys      \* keys pressed so far
lxVars == <<lx, lxscroll, lxpicked, lxkeys>>

Closed == [kind |-> "closed"]
NoItem == -1
Row(item, hi) == [item |-> item, hi |-> hi]
Least(a, b) == IF a < b THEN a ELSE b
max_choice(d) == Least(d.rows, d.count)

-----------------------------------------------------------------------------
(* The window.                                                             *)
\* Beyond the last item item_set leaves no current item, whose text cannot be read.
print_item(d, item, row, hi) == [d EXCEPT !.win[row] = Row(IF item < d.count THEN item ELSE NoItem, hi)]
wscrl(d, n) ==
  [d EXCEPT !.win = [r \in DOMAIN d.win |-> IF r + n \in DOMAIN d.win THEN d.win[r + n] ELSE Row(NoItem, FALSE)]]
do_scroll(d, n) == [wscrl(d, n) EXCEPT !.scroll = @ + n]
EmptyWindow(rows) == [r \in 0..rows - 1 |-> Row(NoItem, FALSE)]
PrintAll(d, from) ==
  [d EXCEPT !.win = [r \in DOMAIN d.win |->
      IF r < max_choice(d) THEN Row(IF from + r < d.count THEN from + r ELSE NoItem, r = d.choice) ELSE d.win[r]]]

-----------------------------------------------------------------------------
(* dialog_menu.                                                            *)
\* The saved scroll position is used if the item is in the window with it.
Usable(d, scroll) ==
  /\ scroll <= d.choice /\ scroll + max_choice(d) > d.choice
  /\ scroll >= 0 /\ scroll + max_choice(d) <= d.count
FromSaved(d, scroll) ==
  IF Usable(d, scroll) THEN [d EXCEPT !.scroll = scroll, !.first = scroll, !.choice = @ - scroll]
                       ELSE [d EXCEPT !.scroll = 0]
Centred(d) ==
  LET s == IF d.choice >= d.count - max_choice(d) \div 2 THEN d.count - max_choice(d) ELSE d.choice - max_choice(d) \div 2
  IN IF d.choice >= max_choice(d) THEN [d EXCEPT !.scroll = s, !.first = s, !.choice = @ - s] ELSE d
\* do_resize: the choice is the selected item again, if there is one; first_item is not.
DrawMenu(d, rows) ==
  LET e == [d EXCEPT !.rows = rows, !.win = EmptyWindow(rows), !.choice = IF d.sel = NoItem THEN @ ELSE d.sel]
      f == Centred(FromSaved(e, lxscroll))
  IN PrintAll(f, f.first)
OpenMenu ==
  /\ lx = Closed /\ lxkeys < MaxKeys
  /\ \E n \in ItemCounts, rows \in WindowRows : \E sel \in {NoItem} \cup 0..n - 1 :
       lx' = DrawMenu([kind |-> "menu", count |-> n, rows |-> rows, win |-> <<>>, scroll |-> 0, choice |-> 0,
                       first |-> 0, button |-> 0, sel |-> sel, resized |-> FALSE], rows)
  /\ UNCHANGED <<lxscroll, lxpicked, lxkeys>>

KeyUp(d) == IF d.choice < 2 /\ d.scroll > 0 THEN print_item(do_scroll(d, -1), d.scroll - 1, 0, FALSE)
         ELSE [d EXCEPT !.choice = IF @ > 0 THEN @ - 1 ELSE 0]
ScrollOn(d) == print_item(do_scroll(d, 1), d.scroll + max_choice(d), max_choice(d) - 1, FALSE)
KeyDown(d) ==
  IF d.choice > max_choice(d) - 3 /\ d.scroll + max_choice(d) < d.count THEN ScrollOn(d)
  ELSE [d EXCEPT !.choice = Least(@ + 1, max_choice(d) - 1)]
PageUp(d) ==
  FoldLeft(LAMBDA e, i : IF e.scroll > 0 THEN print_item(do_scroll(e, -1), e.scroll - 1, 0, FALSE)
                         ELSE [e EXCEPT !.choice = IF @ > 0 THEN @ - 1 ELSE 0],
           d, [i \in 1..max_choice(d) |-> i])
PageDown(d) ==
  FoldLeft(LAMBDA e, i : IF e.scroll + max_choice(e) < e.count THEN ScrollOn(e)
                         ELSE [e EXCEPT !.choice = IF @ + 1 < max_choice(e) THEN @ + 1 ELSE @],
           d, [i \in 1..max_choice(d) |-> i])
\* The row a letter leads to: the next one behind the choice, or the first one; -1 for none.
Answers(d, key) == {r \in 0..max_choice(d) - 1 : d.scroll + r < d.count /\ HotKey[d.scroll + r] = key}
FirstRow(S) == CHOOSE r \in S : \A q \in S : r <= q
HotRow(d, key) ==
  LET hits == IF key \in {"y", "n", "m", "h"} THEN {} ELSE Answers(d, key)
      later == {r \in hits : r > d.choice}
  IN IF later # {} THEN FirstRow(later) ELSE IF hits # {} THEN FirstRow(hits) ELSE -1

\* The highlight is taken off the row, the key does its work, and the row then chosen gets it.
Highlight(d) == print_item(d, d.scroll + d.choice, d.choice, TRUE)
Plain_row(d) == print_item(d, d.scroll + d.choice, d.choice, FALSE)
Moves_to(d, key) ==
  CASE key = "up" -> KeyUp(d) [] key = "down" -> KeyDown(d) [] key = "ppage" -> PageUp(d) [] key = "npage" -> PageDown(d)
    [] OTHER -> [d EXCEPT !.choice = HotRow(d, key)]
MoveKeys == {"up", "down", "ppage", "npage"}

Pressed(key) == lxkeys < MaxKeys /\ lxkeys' = lxkeys + 1
MenuMove(key) ==
  /\ lx.kind = "menu" /\ lx.count # 0 /\ (key \in MoveKeys \/ HotRow(lx, key) # -1)
  /\ lx' = Highlight(Moves_to(Plain_row(lx), key))
  /\ UNCHANGED <<lxscroll, lxpicked>>
ShownChoice(d) == IF d.choice \in DOMAIN d.win THEN d.win[d.choice].item ELSE NoItem
\* item_set(scroll + choice); item_set_selected(1)
Select(d) == lxpicked' = [item |-> IF d.scroll + d.choice < d.count THEN d.scroll + d.choice ELSE NoItem,
                          shown |-> ShownChoice(d), resized |-> d.resized]
MenuSelect(key) ==
  /\ lx.kind = "menu"
  /\ key = "enter" \/ (key \in {"s", "y", "n", "m", "h"} /\ (lx.count = 0 \/ HotRow(lx, key) = -1))
  /\ lxscroll' = lx.scroll
  /\ Select(lx) /\ lx' = Closed

-----------------------------------------------------------------------------
(* dialog_checklist: the height of the list does not change with the       *)
(* window's, and no page keys.                                             *)
DrawList(d) ==
  LET s == d.choice - d.rows + 1
      e == IF d.choice >= d.rows THEN [d EXCEPT !.scroll = s, !.choice = @ - s] ELSE d
  IN PrintAll([e EXCEPT !.win = EmptyWindow(d.rows)], e.scroll)
OpenList ==
  /\ lx = Closed /\ lxkeys < MaxKeys
  /\ \E n \in ItemCounts \ {0}, rows \in WindowRows : \E x \in 0..n - 1 :
       lx' = DrawList([kind |-> "list", count |-> n, rows |-> rows, win |-> <<>>, scroll |-> 0, choice |-> x,
                       first |-> 0, button |-> 0, sel |-> x, resized |-> FALSE])
  /\ UNCHANGED <<lxscroll, lxpicked, lxkeys>>

EdgeScrollLit(d, row, n) ==
  LET e == IF d.rows > 1 THEN wscrl(d, n) ELSE d
  IN print_item([e EXCEPT !.scroll = @ + n], d.scroll + n + row, row, TRUE)
\* At the edge of a window of more than one row the rows move.
EdgeScroll(d, row, n) ==
  LET e == IF d.rows > 1 THEN wscrl(print_item(d, d.scroll + row, row, FALSE), n) ELSE d
  IN print_item([e EXCEPT !.scroll = @ + n], d.scroll + n + row, row, TRUE)
StepTo(d, row) ==
  IF row = d.choice THEN d ELSE Highlight([Plain_row(d) EXCEPT !.choice = row])
ListUp(d) ==
  IF d.choice = 0 THEN IF d.scroll = 0 THEN d ELSE EdgeScroll(d, 0, -1) ELSE StepTo(d, d.choice - 1)
ListDown(d) ==
  IF d.choice = max_choice(d) - 1
  THEN IF d.scroll + d.choice >= d.count - 1 THEN d ELSE EdgeScroll(d, max_choice(d) - 1, 1)
  ELSE StepTo(d, d.choice + 1)
ListMove(key) ==
  /\ lx.kind = "list" /\ (key \in {"up", "down"} \/ Answers(lx, key) # {})
  /\ lx' = CASE key = "up" -> ListUp(lx) [] key = "down" -> ListDown(lx)
             [] OTHER -> StepTo(lx, FirstRow(Answers(lx, key)))
  /\ UNCHANGED <<lxscroll, lxpicked>>
ListSelect(key) ==
  /\ lx.kind = "list" /\ (key = "enter" \/ (key \in {"s", "h"} /\ Answers(lx, key) = {}))
  /\ Select(lx) /\ lx' = Closed /\ UNCHANGED lxscroll

-----------------------------------------------------------------------------
Buttons(d) == IF d.kind = "menu" THEN 5 ELSE 2
Button(key) ==
  /\ lx # Closed /\ key \in {"left", "right"}
  /\ lx' = [lx EXCEPT !.button = (@ + (IF key = "left" THEN Buttons(lx) - 1 ELSE 1)) % Buttons(lx)]
  /\ UNCHANGED <<lxscroll, lxpicked>>
\* on_key_esc: the second of two ESC closes the dialog, a lone one is dropped.
Escape(key) == lx # Closed /\ key = "esc" /\ lx' = Closed /\ UNCHANGED <<lxscroll, lxpicked>>
Resize(key) ==
  /\ lx # Closed /\ key = "resize"
  /\ \/ /\ lx.kind = "menu"
        /\ \E rows \in WindowRows \ {lx.rows} : lx' = DrawMenu([lx EXCEPT !.resized = TRUE], rows)
     \/ lx.kind = "list" /\ lx' = DrawList(lx)
  /\ UNCHANGED <<lxscroll, lxpicked>>

Key == \E key \in MoveKeys \cup Letters \cup {"enter", "left", "right", "esc", "resize"} :
  /\ lx # Closed /\ Pressed(key)
  /\ MenuMove(key) \/ MenuSelect(key) \/ ListMove(key) \/ ListSelect(key) \/ Button(key) \/ Escape(key) \/ Resize(key)

LxInit == lx = Closed /\ lxscroll = 0 /\ lxkeys = 0
          /\ lxpicked = [item |-> NoItem, shown |-> NoItem, resized |-> FALSE]
LxNext == OpenMenu \/ OpenList \/ Key
LxSpec == LxInit /\ [][LxNext]_lxVars

-----------------------------------------------------------------------------
\* The window shows rows that exist, and the choice is one of them; a menu
\* scrolls no further than its last item.
LxTypeOK == lx # Closed =>
  /\ lx.choice \in 0..(IF max_choice(lx) = 0 THEN 0 ELSE max_choice(lx) - 1)
  /\ lx.scroll \in 0..lx.count - max_choice(lx)
  /\ lx.button \in 0..Buttons(lx) - 1

\* Every row shows the item that belongs there and just the chosen one is
\* highlighted, after any keys and however the window was opened (a menu that
\* was resized may show others: do_resize keeps first_item).
RowsExact == lx # Closed /\ ~lx.resized =>
  \A r \in DOMAIN lx.win :
    lx.win[r] = IF r < max_choice(lx) THEN Row(lx.scroll + r, r = lx.choice) ELSE Row(NoItem, FALSE)

\* What a key selects is what was highlighted on the screen.
PicksShown == ~lxpicked.resized => lxpicked.item = lxpicked.shown

-----------------------------------------------------------------------------
(***************************************************************************)
(* The input box of menuconfig (scripts/kconfig/lxdialog/inputbox.c).  It  *)
(* edits a string of bounded length in a field narrower than it and        *)
(* repaints only the cells it writes.                                      *)
(***************************************************************************)

CONSTANTS
  MaxLen,       \* MAX_LEN
  FieldWidths,  \* box_width
  FirstTexts,   \* what an input box starts with
  Typed,        \* characters typed: letters, some of which name a button
  MaxInput      \* keys pressed in one behaviour
ASSUME LxInputAssumption ==
  /\ MaxLen \in Nat \ {0} /\ FieldWidths \subseteq Nat \ {0}
  /\ \A t \in FirstTexts : Len(t) <= MaxLen

VARIABLES
  inbox,    \* the input box
  typed     \* what the user takes the text left and right of the cursor to be
inputVars == <<inbox, typed>>

Nul == "0"
Blank == " "
Text(instr) == LET n == CHOOSE i \in 0..MaxLen : instr[i] = Nul /\ \A j \in 0..i - 1 : instr[j] # Nul
               IN [i \in 1..n |-> instr[i - 1]]
Stored(text) == [i \in 0..MaxLen |-> IF i < Len(text) THEN text[i + 1] ELSE Nul]

-----------------------------------------------------------------------------
(* dialog_inputbox.                                                        *)
\* The field after the box is drawn: the end of a long text, the cursor behind it.
DrawInput(b, width) ==
  LET len == Len(Text(b.instr))
      show == IF len >= width THEN len - width + 1 ELSE 0
  IN [b EXCEPT !.width = width, !.len = len, !.pos = len, !.show_x = show, !.input_x = len - show,
               !.cells = [i \in 0..width - 1 |-> IF show + i < len THEN b.instr[show + i] ELSE Blank]]
\* The loop of every repaint: up to the terminating NUL, which is painted as one blank.
Repaint(b) ==
  [b EXCEPT !.cells = [i \in 0..b.width - 1 |->
      IF \E j \in 0..i - 1 : b.instr[b.show_x + j] = Nul THEN @[i]
      ELSE IF b.instr[b.show_x + i] = Nul THEN Blank ELSE b.instr[b.show_x + i]]]

Backspace(b) ==
  LET shifted == IF b.pos < b.len THEN [i \in 0..MaxLen |-> IF i \in b.pos - 1..b.len - 1 THEN b.instr[i + 1] ELSE b.instr[i]]
                 ELSE b.instr
  IN IF b.pos = 0 THEN b
     ELSE Repaint([b EXCEPT !.show_x = IF b.input_x = 0 THEN @ - 1 ELSE @, !.input_x = IF @ = 0 THEN 0 ELSE @ - 1,
                            !.pos = @ - 1, !.len = @ - 1, !.instr = [shifted EXCEPT ![b.len - 1] = Nul]])
CursorLeft(b) ==
  IF b.pos = 0 THEN b
  ELSE IF b.input_x > 0 THEN [b EXCEPT !.input_x = @ - 1, !.pos = @ - 1]
  ELSE Repaint([b EXCEPT !.show_x = @ - 1, !.pos = @ - 1])
CursorRight(b) ==
  IF b.pos >= b.len THEN b
  ELSE IF b.input_x < b.width - 1 THEN [b EXCEPT !.input_x = @ + 1, !.pos = @ + 1]
  ELSE Repaint([b EXCEPT !.show_x = @ + 1, !.pos = @ + 1])
Insert(b, c) ==
  LET shifted == [i \in 0..MaxLen |-> IF i \in b.pos + 1..b.len THEN b.instr[i - 1] ELSE b.instr[i]]
  IN IF b.len >= MaxLen THEN b
     ELSE Repaint([b EXCEPT !.instr = [[shifted EXCEPT ![b.pos] = c] EXCEPT ![b.len + 1] = Nul],
                            !.pos = @ + 1, !.len = @ + 1,
                            !.show_x = IF b.input_x = b.width - 1 THEN @ + 1 ELSE @,
                            !.input_x = IF @ = b.width - 1 THEN @ ELSE @ + 1])

OpenInput ==
  /\ ~inbox.open /\ inbox.keys < MaxInput
  /\ \E first \in FirstTexts, width \in FieldWidths :
       /\ inbox' = DrawInput([inbox EXCEPT !.open = TRUE, !.instr = Stored(first), !.button = -1, !.result = "none"], width)
       /\ typed' = [left |-> first, right |-> <<>>]

\* What the keys mean to the user, whatever the width of the field.
UserSees(key) ==
  LET l == typed.left  r == typed.right IN
  typed' = CASE key = "backspace" /\ l # <<>> -> [typed EXCEPT !.left = Front(l)]
             [] key = "left" /\ l # <<>> -> [left |-> Front(l), right |-> <<Last(l)>> \o r]
             [] key = "right" /\ r # <<>> -> [left |-> Append(l, Head(r)), right |-> Tail(r)]
             [] key \in Typed /\ Len(l) + Len(r) < MaxLen -> [typed EXCEPT !.left = Append(l, key)]
             [] OTHER -> typed
EditKey(key) ==
  /\ inbox.button = -1
  /\ \/ key = "backspace" /\ inbox' = [Backspace(inbox) EXCEPT !.keys = @ + 1]
     \/ key = "left" /\ inbox' = [CursorLeft(inbox) EXCEPT !.keys = @ + 1]
     \/ key = "right" /\ inbox' = [CursorRight(inbox) EXCEPT !.keys = @ + 1]
     \/ key \in Typed /\ inbox' = [Insert(inbox, key) EXCEPT !.keys = @ + 1]
  /\ UserSees(key)
\* -1 is the text, 0 is Ok and 1 is Help.
NextButton(n) == IF n = 1 THEN -1 ELSE n + 1
PrevButton(n) == IF n = -1 THEN 1 ELSE n - 1
ButtonKey(key) ==
  /\ UNCHANGED typed
  /\ \/ /\ key = "down" \/ (key = "right" /\ inbox.button # -1)
        /\ inbox' = [inbox EXCEPT !.button = NextButton(@), !.keys = @ + 1]
     \/ /\ key = "up" \/ (key = "left" /\ inbox.button # -1)
        /\ inbox' = [inbox EXCEPT !.button = PrevButton(@), !.keys = @ + 1]
CloseInput(key) ==
  /\ UNCHANGED typed
  /\ \E result \in {"ok", "help", "esc"} :
       /\ \/ key = "enter" /\ result = (IF inbox.button = 1 THEN "help" ELSE "ok")
          \/ inbox.button # -1 /\ key = "o" /\ result = "ok"
          \/ inbox.button # -1 /\ key = "h" /\ result = "help"
          \/ key = "esc" /\ result = "esc"
       /\ inbox' = [inbox EXCEPT !.open = FALSE, !.result = result, !.keys = @ + 1]
\* do_resize puts the cursor behind the text.
ResizeInput(key) ==
  /\ key = "resize"
  /\ \E width \in FieldWidths : inbox' = [DrawInput(inbox, width) EXCEPT !.keys = @ + 1]
  /\ typed' = [left |-> typed.left \o typed.right, right |-> <<>>]
InputKey == \E key \in Typed \cup {"backspace", "left", "right", "up", "down", "enter", "esc", "resize"} :
  /\ inbox.open /\ inbox.keys < MaxInput
  /\ EditKey(key) \/ ButtonKey(key) \/ CloseInput(key) \/ ResizeInput(key)

LxInputInit ==
  /\ inbox = [open |-> FALSE, instr |-> Stored(<<>>), width |-> 0, len |-> 0, pos |-> 0, show_x |-> 0, input_x |-> 0,
              cells |-> <<>>, button |-> -1, result |-> "none", keys |-> 0]
  /\ typed = [left |-> <<>>, right |-> <<>>]
LxInputNext == OpenInput \/ InputKey
LxInputSpec == LxInputInit /\ [][LxInputNext]_inputVars

-----------------------------------------------------------------------------
\* The string and the cursor stay inside the buffer, the field and the text.
LxInputTypeOK == inbox.open =>
  /\ inbox.len \in 0..MaxLen /\ inbox.pos \in 0..inbox.len
  /\ inbox.input_x \in 0..inbox.width - 1 /\ inbox.show_x \in 0..inbox.len
  /\ inbox.instr[inbox.len] = Nul

\* The text that is taken is the one typed, and it was inserted and deleted at
\* the cursor the user saw, however the field was scrolled or resized.
InputAsTyped ==
  /\ inbox.len = Len(typed.left) + Len(typed.right)
  /\ Text(inbox.instr) = typed.left \o typed.right
  /\ inbox.open => inbox.pos = Len(typed.left)

\* The field shows the text from show_x on and nothing of what stood there
\* before, with the cursor on its character.
FieldExact == inbox.open =>
  /\ inbox.show_x + inbox.input_x = inbox.pos
  /\ \A i \in 0..inbox.width - 1 :
       inbox.cells[i] = IF inbox.show_x + i < inbox.len THEN inbox.instr[inbox.show_x + i] ELSE Blank

-----------------------------------------------------------------------------
(***************************************************************************)
(* The text box of menuconfig (scripts/kconfig/lxdialog/textbox.c), which  *)
(* shows help texts and search results.  It pages through a text with a    *)
(* pointer that stands behind the page on the screen; the search results   *)
(* keep their place when the box is closed and opened again.               *)
(***************************************************************************)

CONSTANTS
  LineMax,      \* MAX_LEN
  Pages,        \* texts shown, as sequences of characters ("\n" ends a line)
  BoxHeights,   \* boxh of a window of the text box
  BoxWidth,     \* boxw
  MaxPaging     \* keys pressed in one behaviour
ASSUME LxPageAssumption ==
  /\ LineMax \in Nat \ {0} /\ BoxHeights \subseteq Nat \ {0} /\ BoxWidth \in Nat
  /\ \A t \in Pages : t # <<>>

VARIABLES
  tbox,     \* the text box
  vscroll   \* *_vscroll and *_hscroll, with the line that was on top when they were saved
pageVars == <<tbox, vscroll>>

Lesser(a, b) == IF a < b THEN a ELSE b

-----------------------------------------------------------------------------
(* dialog_textbox.  page is an offset into the text; at Len(text) stands   *)
(* the terminating NUL.                                                    *)
At_end(t) == t.page = Len(t.text)
CharAt(t, i) == t.text[i + 1]
\* The end of the line that begins at i: the "\n" or the NUL.
LineEnd(t, i) == CHOOSE j \in i..Len(t.text) :
                   (j = Len(t.text) \/ CharAt(t, j) = "\n") /\ \A k \in i..j - 1 : CharAt(t, k) # "\n"
LineFrom(t, i) == SubSeq(t.text, i + 1, Lesser(LineEnd(t, i), i + LineMax))
get_line(t) ==
  LET e == LineEnd(t, t.page) IN
  [t EXCEPT !.end_reached = e = Len(t.text), !.page = IF e = Len(t.text) THEN e ELSE e + 1]
\* The start of the line before the one that begins at i.
LineBefore(t, i) ==
  IF \E j \in 0..i - 2 : CharAt(t, j) = "\n"
  THEN 1 + CHOOSE j \in 0..i - 2 : CharAt(t, j) = "\n" /\ \A k \in j + 1..i - 2 : CharAt(t, k) # "\n"
  ELSE 0
back_line(t) ==
  IF t.begin_reached THEN t
  ELSE IF At_end(t) /\ t.end_reached THEN [t EXCEPT !.end_reached = FALSE]
  ELSE [t EXCEPT !.page = LineBefore(t, @), !.begin_reached = LineBefore(t, t.page) = 0]
back_lines(t, n) == FoldLeft(LAMBDA u, i : back_line(u), [t EXCEPT !.begin_reached = FALSE], [i \in 1..n |-> i])

\* update_text is called with the page's first and last offset before it is printed.
MarkPage(t) ==
  IF t.update THEN back_lines(FoldLeft(LAMBDA u, i : get_line(u), t, [i \in 1..t.boxh |-> i]), t.boxh) ELSE t
RowOf(t, i) ==
  LET line == LineFrom(t, i)  skip == Lesser(Len(line), t.hscroll)
  IN SubSeq(line, skip + 1, Lesser(Len(line), skip + BoxWidth - 2))
print_line(t) ==
  LET u == get_line(t) IN
  [u EXCEPT !.rows = Append(@, RowOf(t, t.page)),
            !.page_length = IF t.passed THEN @ ELSE @ + 1, !.passed = t.passed \/ u.end_reached]
PrintRows(t) ==
  FoldLeft(LAMBDA u, i : print_line(u),
           [t EXCEPT !.rows = <<>>, !.page_length = 0, !.passed = FALSE, !.top = t.page], [i \in 1..t.boxh |-> i])
print_page(t) == PrintRows(MarkPage(t))

\* Reopened with the position saved for the same text.
OpenText ==
  /\ ~tbox.open /\ tbox.keys < MaxPaging
  /\ \E text \in Pages, boxh \in BoxHeights, update \in BOOLEAN :
       LET again == vscroll.text = text
           t == [tbox EXCEPT !.open = TRUE, !.text = text, !.boxh = boxh, !.update = update, !.page = 0,
                             !.begin_reached = ~again \/ vscroll.lines = 0, !.end_reached = FALSE,
                             !.hscroll = IF again THEN vscroll.hscroll ELSE 0]
       IN tbox' = print_page(FoldLeft(LAMBDA u, i : get_line(u), t, [i \in 1..(IF again THEN vscroll.lines ELSE 0) |-> i]))
  /\ UNCHANGED vscroll

Home(t) == IF t.begin_reached THEN t ELSE print_page([t EXCEPT !.begin_reached = TRUE, !.page = 0])
EndKey(t) == print_page(back_lines([t EXCEPT !.end_reached = TRUE, !.page = Len(t.text)], t.boxh))
PrevLine(t) == IF t.begin_reached THEN t ELSE print_page(back_lines(t, t.page_length + 1))
PrevPage(t) == IF t.begin_reached THEN t ELSE print_page(back_lines(t, t.page_length + t.boxh))
NextLineBare(t) == IF t.end_reached THEN t ELSE print_page(back_lines(t, t.boxh))
NextLine(t) == IF t.end_reached THEN t ELSE print_page(back_lines(t, t.page_length - 1))
NextPage(t) == IF t.end_reached THEN t ELSE print_page([t EXCEPT !.begin_reached = FALSE])
Sideways(t, n) ==
  IF n # 0 /\ t.hscroll + n \in 0..LineMax THEN print_page(back_lines([t EXCEPT !.hscroll = @ + n], t.page_length)) ELSE t
\* height is four more than boxh.
ResizeText(t, boxh) == print_page([back_lines(t, t.boxh + 4) EXCEPT !.boxh = boxh])
LineStart(t) == Sideways(t, -t.hscroll)
PagingKeys == {"home", "end", "up", "ppage", "down", "npage", "0", "left", "right"}
Paged(t, key) ==
  CASE key = "home" -> Home(t) [] key = "end" -> EndKey(t) [] key = "up" -> PrevLine(t) [] key = "ppage" -> PrevPage(t)
    [] key = "down" -> NextLine(t) [] key = "npage" -> NextPage(t) [] key = "left" -> Sideways(t, -1)
    [] key = "0" -> LineStart(t)
    [] OTHER -> Sideways(t, 1)
PageKey(key) ==
  /\ tbox.open /\ tbox.keys < MaxPaging
  /\ tbox' = [Paged(tbox, key) EXCEPT !.keys = @ + 1, !.key = key]
  /\ UNCHANGED vscroll
ResizePage ==
  /\ tbox.open /\ tbox.keys < MaxPaging
  /\ \E boxh \in BoxHeights : tbox' = [ResizeText(tbox, boxh) EXCEPT !.keys = @ + 1, !.key = "resize"]
  /\ UNCHANGED vscroll
LinesBefore(t, i) == Len(SelectSeq(SubSeq(t.text, 1, i), LAMBDA c : c = "\n"))
\* The search results keep their place.
CloseText ==
  /\ tbox.open /\ tbox.keys < MaxPaging
  /\ tbox' = [tbox EXCEPT !.open = FALSE, !.keys = @ + 1, !.key = "exit"]
  /\ vscroll' = [text |-> tbox.text, lines |-> LinesBefore(tbox, back_lines(tbox, tbox.page_length).page),
                 hscroll |-> tbox.hscroll, top |-> LinesBefore(tbox, tbox.top)]

LxPageInit ==
  /\ tbox = [open |-> FALSE, text |-> <<>>, page |-> 0, top |-> 0, boxh |-> 0, update |-> FALSE, begin_reached |-> TRUE,
             end_reached |-> FALSE, page_length |-> 0, hscroll |-> 0, rows |-> <<>>, passed |-> FALSE, keys |-> 0, key |-> "none"]
  /\ vscroll = [text |-> <<>>, lines |-> 0, hscroll |-> 0, top |-> 0]
LxPageNext == OpenText \/ (\E key \in PagingKeys : PageKey(key)) \/ ResizePage \/ CloseText
LxPageSpec == LxPageInit /\ [][LxPageNext]_pageVars

-----------------------------------------------------------------------------
\* The pointer of a page stands where a line begins or at the end.
LxPageTypeOK == tbox.open =>
  /\ tbox.page = 0 \/ At_end(tbox) \/ CharAt(tbox, tbox.page - 1) = "\n"
  /\ tbox.page_length \in 1..tbox.boxh

EndsInNewline(t) == Last(t.text) = "\n"
\* Every row is a line of the text, in order and without a gap, from the one
\* on top; up is refused just when the first line is on top, and down only when
\* the last one is shown (the text must end with a newline: back_lines counts a
\* last line without one twice).
PageExact == tbox.open =>
  /\ \A r \in 1..tbox.boxh :
       LET before == {i \in 0..Len(tbox.text) : (i = 0 \/ CharAt(tbox, i - 1) = "\n") /\ i >= tbox.top
                                                 /\ LinesBefore(tbox, i) = LinesBefore(tbox, tbox.top) + r - 1}
       IN tbox.rows[r] = IF before = {} THEN <<>> ELSE RowOf(tbox, CHOOSE i \in before : TRUE)
  /\ tbox.begin_reached <=> tbox.top = 0
  /\ EndsInNewline(tbox) => (tbox.end_reached <=> LinesBefore(tbox, tbox.top) + tbox.boxh > LinesBefore(tbox, Len(tbox.text)))

\* A sideways scroll keeps the page, a line key moves it by one line and none
\* skips a line.
PagingKeepsPlace == [][tbox.open /\ tbox'.open /\ EndsInNewline(tbox) /\ ~tbox.update =>
  LET was == LinesBefore(tbox, tbox.top)  now == LinesBefore(tbox', tbox'.top) IN
  /\ tbox'.key \in {"0", "left", "right"} => now = was
  /\ tbox'.key = "down" => now = IF tbox.end_reached THEN was ELSE was + 1
  /\ tbox'.key = "up" => now = IF was = 0 THEN 0 ELSE was - 1
  /\ tbox'.key = "npage" => now <= was + tbox.boxh]_pageVars

\* The position saved for the search results is the line that was on top.
PlaceSaved == vscroll.text # <<>> /\ Last(vscroll.text) = "\n" => vscroll.lines = vscroll.top
=============================================================================
