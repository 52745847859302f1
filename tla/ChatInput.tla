----------------------------- MODULE ChatInput -----------------------------
(***************************************************************************)
(* Who gets the keyboard on /play: the chat mode of the store, the focus   *)
(* of the chat's input element, and the keyboards of the world scenes that *)
(* focusArbitration turns on and off; and the recall of submitted lines.   *)
(*                                                                         *)
(* focus() and the reaction to a lost focus run in microtasks: steps of    *)
(* their own, which end before the next handler starts.                    *)
(***************************************************************************)
EXTENDS Naturals, Sequences, SequenceTheorems, TLAPS

CONSTANTS
  Inputs,        \* the lines a user types
  HISTORY_CAP,
  MaxRebuilds    \* bound: how often /play is left and entered again

ASSUME InputAssumption == HISTORY_CAP \in Nat

VARIABLES
  keys,     \* [mode, visible, focused, composing, world, micro, rebuilds]
  recall    \* chatStore and sessionStorage: [input, history, index]

inputVars == <<keys, recall>>

(***************************************************************************)
(* focusArbitration.                                                       *)
(***************************************************************************)
ShouldEnableWorldKeyboard(k) == ~k.focused /\ k.mode = "movement"

Evaluate(k) == [k EXCEPT !.world = ShouldEnableWorldKeyboard(k)]

Micro(k, task) == [k EXCEPT !.micro = @ \union {task}]

SetModeWithoutBlur(k, mode) ==
  IF k.mode = mode THEN k
  ELSE LET e == Evaluate([k EXCEPT !.mode = mode])
       IN IF mode = "chat" THEN Micro([e EXCEPT !.visible = TRUE], "focus")
          ELSE [e EXCEPT !.visible = FALSE, !.focused = FALSE, !.composing = FALSE]

\* setMode: the arbitration and the scene's onModeChanged hear it in turn.
SetMode(k, mode) ==
  IF k.mode = mode THEN k
  ELSE LET e == Evaluate([k EXCEPT !.mode = mode])
       IN IF mode = "chat" THEN Micro([e EXCEPT !.visible = TRUE], "focus")
          ELSE Micro([e EXCEPT !.visible = FALSE, !.focused = FALSE, !.composing = FALSE],
                     "evaluate")

(***************************************************************************)
(* Handlers.                                                               *)
(***************************************************************************)
Idle == keys.micro = {}
InChat == Idle /\ keys.focused

\* The chat scene is exempt from the arbitration; T opens the chat from movement only.
PressT ==
  /\ Idle /\ keys.mode = "movement"
  /\ keys' = SetMode(keys, "chat")
  /\ UNCHANGED recall

PressEscape ==
  /\ InChat
  /\ keys' = IF keys.mode = "chat" THEN SetMode(keys, "movement") ELSE keys
  /\ UNCHANGED recall

RunMicrotask ==
  /\ keys.micro # {}
  /\ \E t \in keys.micro :
       LET k == [keys EXCEPT !.micro = @ \ {t}]
       IN keys' = IF t = "focus" THEN (IF k.visible THEN Evaluate([k EXCEPT !.focused = TRUE]) ELSE k)
                  ELSE Evaluate(k)
  /\ UNCHANGED recall

ClickInput ==
  /\ Idle /\ keys.visible /\ ~keys.focused
  /\ keys' = Evaluate([keys EXCEPT !.focused = TRUE])
  /\ UNCHANGED recall

ClickWorld ==
  /\ InChat
  /\ keys' = Micro([keys EXCEPT !.focused = FALSE, !.composing = FALSE], "evaluate")
  /\ UNCHANGED recall

Compose ==
  /\ InChat
  /\ keys' = [keys EXCEPT !.composing = ~@]
  /\ UNCHANGED recall

Type(line) ==
  /\ InChat
  /\ recall' = [recall EXCEPT !.input = line]
  /\ UNCHANGED keys

\* pushHistory drops a repetition of the last line and keeps the newest lines.
PushHistory(r, line) ==
  LET h == Append(r.history, line)
  IN IF r.history # <<>> /\ r.history[Len(r.history)] = line THEN [r EXCEPT !.index = 0]
     ELSE [r EXCEPT !.index = 0,
                    !.history = IF Len(h) > HISTORY_CAP THEN Tail(h) ELSE h]

Enter ==
  /\ InChat /\ ~keys.composing /\ recall.input # ""
  /\ recall' = [PushHistory(recall, recall.input) EXCEPT !.input = ""]
  /\ UNCHANGED keys

\* recallHistory at position i; past the newest line the input is empty again.
\* Index 0 stands for "no recall"; the code counts from 0 and uses -1.
RecallHistory(r, i) == IF i > Len(r.history) THEN [r EXCEPT !.index = 0, !.input = ""]
                       ELSE [r EXCEPT !.index = i, !.input = r.history[i]]

ArrowUp ==
  /\ InChat /\ ~keys.composing /\ recall.history # <<>>
  /\ LET i == CASE recall.index = 0 -> Len(recall.history)
                [] recall.index > 1 -> recall.index - 1
                [] OTHER -> 1
     IN recall' = RecallHistory(recall, i)
  /\ UNCHANGED keys

ArrowDown ==
  /\ InChat /\ ~keys.composing /\ recall.history # <<>> /\ recall.index > 0
  /\ recall' = RecallHistory(recall, recall.index + 1)
  /\ UNCHANGED keys

\* The scene is cleaned up and built again with a new game, whose keyboards
\* start enabled; the store keeps its mode, and the arbitration of the new page
\* runs before there is a game.
Rebuild ==
  /\ Idle /\ keys.rebuilds < MaxRebuilds
  /\ keys' = [keys EXCEPT !.visible = FALSE, !.focused = FALSE, !.composing = FALSE,
                          !.world = TRUE, !.micro = {}, !.rebuilds = @ + 1]
  /\ UNCHANGED recall

InputInit ==
  /\ keys = [mode |-> "movement", visible |-> FALSE, focused |-> FALSE, composing |-> FALSE,
             world |-> TRUE, micro |-> {}, rebuilds |-> 0]
  /\ recall = [input |-> "", history |-> <<>>, index |-> 0]

InputNext ==
  \/ PressT \/ PressEscape \/ RunMicrotask \/ ClickInput \/ ClickWorld \/ Compose
  \/ \E line \in Inputs : Type(line)
  \/ Enter \/ ArrowUp \/ ArrowDown \/ Rebuild

InputSpec == InputInit /\ [][InputNext]_inputVars

(***************************************************************************)
(* Properties.                                                             *)
(***************************************************************************)
InputTypeOK ==
  /\ keys.mode \in {"movement", "chat"} /\ keys.micro \subseteq {"focus", "evaluate"}
  /\ recall.index \in 0..Len(recall.history) /\ Len(recall.history) <= HISTORY_CAP

\* Letters typed into the input never move the player, and once the microtasks have
\* run the player can move again in movement mode with the input unfocused; the arrow
\* keys recall one of the lines kept.
KeyboardHasOneOwner ==
  /\ InputTypeOK
  /\ keys.focused => ~keys.world
  /\ Idle /\ keys.mode = "movement" /\ ~keys.focused => keys.world

(***************************************************************************)
(* Proof that the keyboard has one owner and that a line recalled is one   *)
(* of those kept, for any lines and any bounds.                            *)
(***************************************************************************)
KeysTypeOK ==
  keys \in [mode : {"movement", "chat"}, visible : BOOLEAN, focused : BOOLEAN,
            composing : BOOLEAN, world : BOOLEAN, micro : SUBSET {"focus", "evaluate"},
            rebuilds : Nat]

\* The world may wait for its keyboard only while the reaction to a lost focus is due.
KeysInv ==
  /\ KeysTypeOK
  /\ keys.focused => ~keys.world
  /\ "evaluate" \notin keys.micro /\ keys.mode = "movement" /\ ~keys.focused => keys.world

\* focusArbitration's evaluate leaves the keyboard with its owner, whatever was before.
LEMMA EvaluateSettles ==
  ASSUME NEW k \in [mode : {"movement", "chat"}, visible : BOOLEAN, focused : BOOLEAN,
                    composing : BOOLEAN, world : BOOLEAN,
                    micro : SUBSET {"focus", "evaluate"}, rebuilds : Nat],
         keys' = Evaluate(k)
  PROVE  KeysInv'
BY DEF Evaluate, ShouldEnableWorldKeyboard, KeysInv, KeysTypeOK

LEMMA SetModeKeeps ==
  ASSUME KeysInv, Idle, NEW mode \in {"movement", "chat"}, keys' = SetMode(keys, mode)
  PROVE  KeysInv'
<1>1. CASE keys.mode = mode
  BY <1>1 DEF SetMode, KeysInv, KeysTypeOK
<1>2. CASE keys.mode # mode /\ mode = "chat"
  BY <1>2 DEF SetMode, Evaluate, ShouldEnableWorldKeyboard, Micro, KeysInv, KeysTypeOK, Idle
<1>3. CASE keys.mode # mode /\ mode # "chat"
  BY <1>3 DEF SetMode, Evaluate, ShouldEnableWorldKeyboard, Micro, KeysInv, KeysTypeOK, Idle
<1> QED
  BY <1>1, <1>2, <1>3

LEMMA MicrotaskKeeps == ASSUME KeysInv, RunMicrotask PROVE KeysInv'
<1>1. PICK t \in keys.micro :
        LET k == [keys EXCEPT !.micro = @ \ {t}]
        IN keys' = IF t = "focus" THEN (IF k.visible THEN Evaluate([k EXCEPT !.focused = TRUE]) ELSE k)
                   ELSE Evaluate(k)
  BY DEF RunMicrotask
<1> DEFINE k == [keys EXCEPT !.micro = @ \ {t}]
<1>2. CASE t = "focus" /\ ~k.visible
  BY <1>1, <1>2 DEF KeysInv, KeysTypeOK
<1>3. CASE t = "focus" /\ k.visible
  BY <1>1, <1>3, EvaluateSettles DEF KeysInv, KeysTypeOK
<1>4. CASE t # "focus"
  BY <1>1, <1>4, EvaluateSettles DEF KeysInv, KeysTypeOK
<1> QED
  BY <1>2, <1>3, <1>4

LEMMA KeysNextKeeps == KeysInv /\ [InputNext]_inputVars => KeysInv'
<1> SUFFICES ASSUME KeysInv, [InputNext]_inputVars PROVE KeysInv'
  OBVIOUS
<1>1. CASE PressT \/ PressEscape
  BY <1>1, SetModeKeeps DEF PressT, PressEscape, InChat, KeysInv, KeysTypeOK
<1>2. CASE RunMicrotask
  BY <1>2, MicrotaskKeeps
<1>3. CASE ClickInput
  BY <1>3, EvaluateSettles DEF ClickInput, KeysInv, KeysTypeOK
<1>4. CASE ClickWorld
  BY <1>4 DEF ClickWorld, InChat, Idle, Micro, KeysInv, KeysTypeOK
<1>5. CASE Compose
  BY <1>5 DEF Compose, KeysInv, KeysTypeOK
<1>6. CASE Rebuild
  <2>1. keys.rebuilds + 1 \in Nat
    BY DEF KeysInv, KeysTypeOK
  <2>2. keys' = [keys EXCEPT !.visible = FALSE, !.focused = FALSE, !.composing = FALSE,
                             !.world = TRUE, !.micro = {}, !.rebuilds = @ + 1]
    BY <1>6 DEF Rebuild
  <2>3. KeysTypeOK'
    BY <2>1, <2>2 DEF KeysInv, KeysTypeOK
  <2>4. keys'.focused = FALSE /\ keys'.world = TRUE
    BY <2>2 DEF KeysInv, KeysTypeOK
  <2> QED
    BY <2>3, <2>4 DEF KeysInv
<1>7. CASE UNCHANGED keys
  BY <1>7 DEF KeysInv, KeysTypeOK
<1> QED
  BY <1>1, <1>2, <1>3, <1>4, <1>5, <1>6, <1>7
     DEF InputNext, inputVars, Type, Enter, ArrowUp, ArrowDown

\* A line is recalled by its place among those kept.
Blank == ""
Lines == Inputs \union {Blank}
Recalls == [input : Lines, history : Seq(Lines), index : Nat]
RecallInv ==
  /\ recall \in Recalls
  /\ recall.index <= Len(recall.history) /\ Len(recall.history) <= HISTORY_CAP

LEMMA OneLineMore ==
  ASSUME NEW old \in Seq(Lines), NEW line \in Lines
  PROVE  LET h == Append(old, line)
         IN  /\ h \in Seq(Lines) /\ Len(h) = Len(old) + 1
             /\ Tail(h) \in Seq(Lines) /\ Len(Tail(h)) = Len(old) /\ Len(old) \in Nat
<1> DEFINE h == Append(old, line)
<1>1. h \in Seq(Lines) /\ h # <<>> /\ Len(h) = Len(old) + 1 /\ Len(old) \in Nat
  BY AppendProperties, LenProperties
<1> HIDE DEF h
<1>2. Tail(h) \in Seq(Lines) /\ Len(Tail(h)) = Len(h) - 1
  BY <1>1, HeadTailProperties
<1> QED BY <1>1, <1>2 DEF h

\* What follows a recall whose place and lines are replaced by these.
LEMMA RecallBy ==
  ASSUME NEW r \in Recalls, NEW i \in Nat, NEW h \in Seq(Lines), NEW line \in Lines,
         i <= Len(h), Len(h) <= HISTORY_CAP,
         recall' = [r EXCEPT !.index = i, !.history = h, !.input = line]
  PROVE  RecallInv'
<1>1. recall' \in Recalls /\ recall'.index = i /\ recall'.history = h
  BY DEF Recalls
<1> QED BY <1>1 DEF RecallInv

LEMMA EnterKeeps == ASSUME RecallInv, Enter PROVE RecallInv'
<1> DEFINE old == recall.history
           line == recall.input
           h == Append(old, line)
           kept == IF old # <<>> /\ old[Len(old)] = line THEN old
                   ELSE IF Len(h) > HISTORY_CAP THEN Tail(h) ELSE h
<1>1. recall \in Recalls /\ old \in Seq(Lines) /\ line \in Lines /\ Len(old) <= HISTORY_CAP
  BY DEF RecallInv, Recalls
<1>2. recall' = [recall EXCEPT !.index = 0, !.history = kept, !.input = Blank]
  BY <1>1 DEF Enter, PushHistory, Recalls, Blank
<1>3. kept \in Seq(Lines) /\ Len(kept) <= HISTORY_CAP /\ Len(kept) \in Nat
  <2> HIDE DEF old, line
  <2>1. /\ h \in Seq(Lines) /\ Len(h) = Len(old) + 1
        /\ Tail(h) \in Seq(Lines) /\ Len(Tail(h)) = Len(old) /\ Len(old) \in Nat
    BY <1>1, OneLineMore
  <2> HIDE DEF h
  <2>2. HISTORY_CAP \in Nat
    BY InputAssumption
  <2> QED BY <1>1, <2>1, <2>2
<1>4. Blank \in Lines
  BY DEF Lines
<1> HIDE DEF kept, old, line
<1>5. 0 \in Nat /\ 0 <= Len(kept)
  BY <1>3
<1> QED BY <1>1, <1>2, <1>3, <1>4, <1>5, RecallBy

LEMMA RecallKeeps ==
  ASSUME RecallInv, NEW i \in Nat \ {0}, recall' = RecallHistory(recall, i)
  PROVE  RecallInv'
<1> DEFINE h == recall.history
<1>1. recall \in Recalls /\ h \in Seq(Lines) /\ Blank \in Lines /\ Len(h) <= HISTORY_CAP
  BY DEF RecallInv, Recalls, Lines
<1>2. Len(h) \in Nat
  BY <1>1, LenProperties
<1>3. CASE i > Len(h)
  <2>1. recall' = [recall EXCEPT !.index = 0, !.history = h, !.input = Blank]
    BY <1>1, <1>3 DEF RecallHistory, Recalls, Blank
  <2> HIDE DEF h
  <2>2. 0 \in Nat /\ 0 <= Len(h)
    BY <1>2
  <2> QED BY <1>1, <2>1, <2>2, RecallBy
<1>4. CASE ~(i > Len(h))
  <2> DEFINE line == h[i]
  <2>1. line \in Lines
    <3>1. i \in 1..Len(h)
      BY <1>2, <1>4
    <3> HIDE DEF h
    <3> QED BY <1>1, <3>1, ElementOfSeq
  <2>2. recall' = [recall EXCEPT !.index = i, !.history = h, !.input = line]
    BY <1>1, <1>4 DEF RecallHistory, Recalls
  <2> HIDE DEF line, h
  <2>3. i <= Len(h)
    BY <1>2, <1>4
  <2> QED BY <1>1, <2>1, <2>2, <2>3, RecallBy
<1> QED BY <1>3, <1>4

LEMMA RecallStep == RecallInv /\ [InputNext]_inputVars => RecallInv'
<1> SUFFICES ASSUME RecallInv, [InputNext]_inputVars PROVE RecallInv'
  OBVIOUS
<1>1. ASSUME NEW line \in Inputs, Type(line) PROVE RecallInv'
  BY <1>1 DEF Type, RecallInv, Recalls, Lines
<1>2. CASE Enter
  BY <1>2, EnterKeeps
<1>3. CASE ArrowUp
  <2> DEFINE i == CASE recall.index = 0 -> Len(recall.history)
                    [] recall.index > 1 -> recall.index - 1
                    [] OTHER -> 1
  <2>1. recall.history \in Seq(Lines) /\ recall.history # <<>> /\ recall.index \in Nat
    BY <1>3 DEF ArrowUp, RecallInv, Recalls
  <2>2. Len(recall.history) \in Nat \ {0}
    BY <2>1
  <2>3. i \in Nat \ {0}
    BY <2>1, <2>2
  <2>4. recall' = RecallHistory(recall, i)
    BY <1>3 DEF ArrowUp
  <2> HIDE DEF i
  <2> QED BY <2>3, <2>4, RecallKeeps
<1>4. CASE ArrowDown
  <2>1. recall.index + 1 \in Nat \ {0}
    BY <1>4 DEF ArrowDown, RecallInv, Recalls
  <2> QED BY <1>4, <2>1, RecallKeeps DEF ArrowDown
<1>5. CASE UNCHANGED recall
  BY <1>5 DEF RecallInv
<1> QED
  BY <1>1, <1>2, <1>3, <1>4, <1>5
     DEF InputNext, inputVars, PressT, PressEscape, RunMicrotask, ClickInput, ClickWorld, Compose,
         Rebuild

\* Whatever is pressed, clicked or rebuilt in whatever order, letters typed into the chat input
\* never move the player, and once the microtasks have run the player can move in movement
\* mode whenever the input has no focus (focusArbitration, UIScene).  Nothing is said of chat
\* mode with an input that has lost the focus, where a rebuild leaves the world its keys.
THEOREM KeyboardOwned == InputSpec => []KeyboardHasOneOwner
<1>1. InputInit => KeysInv
  <2> SUFFICES ASSUME keys = [mode |-> "movement", visible |-> FALSE, focused |-> FALSE,
                              composing |-> FALSE, world |-> TRUE, micro |-> {}, rebuilds |-> 0]
               PROVE  KeysInv
    BY DEF InputInit
  <2>1. keys.world = TRUE /\ keys.focused = FALSE
    OBVIOUS
  <2>2. KeysTypeOK
    BY DEF KeysTypeOK
  <2> QED
    BY <2>1, <2>2 DEF KeysInv
<1>2. InputInit => RecallInv
  <2> DEFINE none == <<>>
  <2>1. none \in Seq(Lines) /\ Len(none) = 0
    OBVIOUS
  <2>2. InputInit => recall = [input |-> Blank, history |-> none, index |-> 0]
    BY DEF InputInit, Blank
  <2>3. Blank \in Lines /\ HISTORY_CAP \in Nat
    BY InputAssumption DEF Lines
  <2> HIDE DEF none
  <2> SUFFICES ASSUME InputInit PROVE RecallInv
    OBVIOUS
  <2>4. recall \in Recalls /\ recall.index = 0 /\ recall.history = none
    <3> DEFINE r == [input |-> Blank, history |-> none, index |-> 0]
    <3>1. recall = r
      BY <2>2
    <3>2. r.index = 0 /\ r.history = none
      OBVIOUS
    <3>3. r \in Recalls
      BY <2>1, <2>3 DEF Recalls
    <3> HIDE DEF r
    <3> QED BY <3>1, <3>2, <3>3
  <2> QED BY <2>1, <2>3, <2>4 DEF RecallInv
<1>3. KeysInv /\ RecallInv => KeyboardHasOneOwner
  <2> SUFFICES ASSUME KeysInv, RecallInv PROVE KeyboardHasOneOwner
    OBVIOUS
  <2>1. recall.index \in 0..Len(recall.history)
    <3>1. recall.index \in Nat /\ Len(recall.history) \in Nat
      BY LenProperties DEF RecallInv, Recalls
    <3> QED BY <3>1 DEF RecallInv
  <2> QED BY <2>1 DEF KeysInv, KeysTypeOK, RecallInv, InputTypeOK, KeyboardHasOneOwner, Idle
<1> QED
  BY <1>1, <1>2, <1>3, KeysNextKeeps, RecallStep, PTL DEF InputSpec
=============================================================================
