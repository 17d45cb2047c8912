--------------------------------- MODULE Chars ---------------------------------
(******************************************************************************)
(* The conversion of characters between DOS and UNIX (Build Automation):      *)
(* dtou and utod are given one character after another, and each keeps        *)
(* whether it holds back a carriage return.  Characters are their codes.      *)
(******************************************************************************)
EXTENDS Integers, SequencesExt

NUL == 0
LF == 10
CR == 13

istext(c) == c \in 8..13 \cup 32..126

\* What is put into str, and what becomes of cr.
Out(str, cr) == [str |-> str, cr |-> cr]

\* Mutant: cr is not reset.
OrdinaryHolds(c, cr) == Out(IF cr THEN <<CR, c>> ELSE <<c>>, cr)

\* A character that shows that a carriage return stood for itself.
Ordinary(c, cr) == Out(IF cr THEN <<CR, c>> ELSE <<c>>, FALSE)

dtou(next, cr, dflt) ==
    LET c == IF istext(next) THEN next ELSE dflt
    IN  CASE c = LF                           -> Out(<<LF>>, FALSE)
          [] next = CR                        -> Out(IF cr THEN <<CR>> ELSE <<>>, TRUE)
          [] next # CR /\ c = CR              -> Out(<<>>, TRUE)   \* str[0] is set, but not counted
          [] istext(c) /\ c \notin {LF, CR}   -> Ordinary(c, cr)
          [] ~istext(c)                       -> Out(<<>>, cr)

utod(next, cr, dflt) ==
    LET c == IF istext(next) THEN next ELSE dflt
    IN  CASE c = LF                           -> Out(<<CR, LF>>, FALSE)
          [] c = CR                           -> Out(IF cr THEN <<CR>> ELSE <<>>, TRUE)
          [] istext(c) /\ c \notin {LF, CR}   -> Ordinary(c, cr)
          [] ~istext(c)                       -> Out(<<>>, cr)

\* The main loops of tounix and todos, over some more characters.
After(done, o) == Out(done.str \o o.str, o.cr)

tounix(text, cr, dflt) ==
    FoldLeft(LAMBDA done, next : After(done, dtou(next, done.cr, dflt)), Out(<<>>, cr), text)
todos(text, cr, dflt) ==
    FoldLeft(LAMBDA done, next : After(done, utod(next, done.cr, dflt)), Out(<<>>, cr), text)

-----------------------------------------------------------------------------
(* What the two promise of a whole text.                                   *)

\* The text with dflt for what is not plain text, or without it.
PlainText(text, dflt) ==
    SelectSeq([i \in 1..Len(text) |-> IF istext(text[i]) THEN text[i] ELSE dflt], istext)

\* Each end of line is a line feed, and a return that ends the text is held back.
UnixText(text, dflt) ==
    LET t == PlainText(text, dflt)
        Dropped(i) == t[i] = CR /\ (i = Len(t) \/ t[i + 1] = LF)
    IN  FlattenSeq([i \in 1..Len(t) |-> IF Dropped(i) THEN <<>> ELSE <<t[i]>>])

DosText(text, dflt) ==
    LET t == UnixText(text, dflt)
    IN  FlattenSeq([i \in 1..Len(t) |-> IF t[i] = LF THEN <<CR, LF>> ELSE <<t[i]>>])

=============================================================================
