------------------------------ MODULE Keyboard ------------------------------
(***************************************************************************)
(* Keyboard.cpp: the decoder of scan codes, which is called for each byte  *)
(* by the keyboard's interrupt and keeps its place in static variables,    *)
(* and setPressed, which marks keys, collects a line and tells the         *)
(* listener.  The user strikes keys; their bytes come one by one.          *)
(***************************************************************************)
EXTENDS Naturals, Sequences, FiniteSets

CONSTANTS
    Struck,      \* the keys of the keyboard that the user strikes
    LINE_SIZE,   \* sizeof lineBuffer, 78 in the code
    MaxDown      \* a bound: how many keys are held at a time

ASSUME KeyboardAssumption == LINE_SIZE \in Nat \ {0} /\ MaxDown \in Nat

----------------------------------------------------------------------------
(* The keyboard, scan code set 2: the bytes of a key that goes down, and   *)
(* those of a key that goes up.  PAUSE sends all its bytes when it goes    *)
(* down.  LESS, the key beside the left SHIFT, and GUI are not in the      *)
(* driver's table; ENTER ends a line.  The keys on the right have names of *)
(* their own: RSHIFT has another code than SHIFT, and RCONTROL sends the   *)
(* code of CONTROL behind E0.                                              *)

E0 == 224
E1 == 225
F0 == 240
Responses == {250, 254}

Code == [A |-> 28, ONE |-> 22, SHIFT |-> 18, RSHIFT |-> 89, ALT |-> 17,
         CONTROL |-> 20, RCONTROL |-> 20, ENTER |-> 90, NUM_LOCK |-> 119,
         MULTIPLY |-> 124, LESS |-> 97, GUI |-> 31]

Extended == {"RCONTROL", "GUI"}

Bytes(k, down) ==
    CASE k = "PAUSE" -> <<E1, 20, 119, E1, F0, 20, F0, 119>>
      [] k = "PRINTSCREEN" -> IF down THEN <<E0, 18, E0, 124>> ELSE <<E0, F0, 124, E0, F0, 18>>
      [] k \in Extended -> IF down THEN <<E0, Code[k]>> ELSE <<E0, F0, Code[k]>>
      [] OTHER -> IF down THEN <<Code[k]>> ELSE <<F0, Code[k]>>

(* The value the driver has for a key, its VK constant: the two SHIFTs have *)
(* the same in its table, and it makes nothing of E0.                      *)
VK(k) == CASE k = "RSHIFT" -> "SHIFT" [] k = "RCONTROL" -> "CONTROL" [] OTHER -> k

Event(k, down) == [key |-> k, pressed |-> down]

(* What the listener should hear of a key. *)
Expected(s) ==
    CASE s.key \in {"LESS", "GUI"} -> <<>>
      [] s.key = "PAUSE" -> <<Event("PAUSE", TRUE), Event("PAUSE", FALSE)>>
      [] OTHER -> <<Event(VK(s.key), s.pressed)>>

----------------------------------------------------------------------------

VARIABLES
    KEY_PRESS_TABLE,   \* the keys that are marked as pressed
    lbLen,             \* how many characters are in lineBuffer
    callback,          \* whether a listener has been set
    length, pressed, timesToIgnore,
    down,              \* the keys the user holds
    crossed,           \* those another key of the same value went up beside
    wire,              \* the bytes still to come
    stroke,            \* the last key that went down or up
    rested,            \* the decoder was at rest when it did
    inStep,            \* it was so for every key so far
    heard              \* what the listener heard since

driver == <<KEY_PRESS_TABLE, lbLen>>
decoder == <<length, pressed, timesToIgnore>>
user == <<down, crossed, stroke, rested, inStep>>
vars == <<driver, callback, decoder, user, wire, heard>>

(* The codes setupKeyMap knows, of the keys above. *)
SCANCODE_TO_KEY_TABLE == [code \in {17, 18, 20, 22, 28, 89, 90, 119, 124} |->
    CASE code = 17 -> "ALT" [] code \in {18, 89} -> "SHIFT" [] code = 20 -> "CONTROL"
      [] code = 22 -> "ONE" [] code = 28 -> "A" [] code = 90 -> "ENTER"
      [] code = 119 -> "NUM_LOCK" [] code = 124 -> "MULTIPLY"]

Key == {"A", "ONE", "SHIFT", "ALT", "CONTROL", "ENTER", "NUM_LOCK", "MULTIPLY",
        "PAUSE", "PRINTSCREEN"}

Known == {"A", "ONE", "SHIFT", "RSHIFT", "ALT", "CONTROL", "RCONTROL", "ENTER",
          "NUM_LOCK", "MULTIPLY"}

ASSUME StruckAssumption == Struck \subseteq Known \cup {"PAUSE", "PRINTSCREEN", "LESS", "GUI"}

TypeOK ==
    /\ KEY_PRESS_TABLE \subseteq Key
    /\ lbLen \in 0 .. LINE_SIZE - 1
    /\ length \in 0 .. 3 /\ pressed \in BOOLEAN /\ timesToIgnore \in 0 .. 7
    /\ down \subseteq Struck /\ crossed \subseteq down
    /\ {callback, rested, inStep} \subseteq BOOLEAN
    /\ \A i \in 1 .. Len(wire) : wire[i] \in 0 .. 255
    /\ heard \in Seq([key : Key, pressed : BOOLEAN])

(* The driver at rest: the next byte begins a key that goes down. *)
Rest == length = 0 /\ pressed /\ timesToIgnore = 0

Init ==
    /\ KEY_PRESS_TABLE = {} /\ lbLen = 0 /\ callback = FALSE
    /\ length = 0 /\ pressed = TRUE /\ timesToIgnore = 0
    /\ down = {} /\ crossed = {} /\ wire = <<>>
    /\ stroke = Event("GUI", FALSE) /\ rested = FALSE /\ inStep = TRUE /\ heard = <<>>

----------------------------------------------------------------------------
(* setPressed. *)

(* The characters a key adds to the line and to the screen.  The test that *)
(* should except CONTROL, as it does SHIFT and ALT, asks for a key that is *)
(* not there; so CONTROL adds one too.                                     *)
Typed(k) == IF k \in {"SHIFT", "ALT"} THEN 0 ELSE 1

(* A mutant: only ENTER ends a line. *)
EndsWithEnter(k, n) == IF k = "ENTER" THEN 0 ELSE n

(* The line goes to the listener and begins again, at ENTER or when it is  *)
(* full.                                                                   *)
EndLine(k, n) == IF k = "ENTER" \/ n = LINE_SIZE THEN 0 ELSE n

Press(k) ==
    /\ KEY_PRESS_TABLE' = KEY_PRESS_TABLE \cup {k}
    /\ lbLen' = EndLine(k, lbLen + Typed(k))

(* A mutant: a key stays marked. *)
ReleaseUnmarked(k) == UNCHANGED <<KEY_PRESS_TABLE, lbLen>>

Release(k) == KEY_PRESS_TABLE' = KEY_PRESS_TABLE \ {k} /\ UNCHANGED lbLen

setPressed(k) == IF pressed THEN Press(k) ELSE Release(k)

(* keyPressed and keyReleased of the listener. *)
Tell(events) == heard' = IF callback THEN heard \o events ELSE heard

----------------------------------------------------------------------------
(* handleKeyboardEvent, one byte at a time.  length only matters up to 2.  *)

Longer == IF length < 3 THEN length + 1 ELSE 3

Next1 == Head(wire)

Taken == wire # <<>> /\ wire' = Tail(wire)

(* A mutant: the place in the sequence is kept. *)
HandledKept(ignore) == pressed' = TRUE /\ timesToIgnore' = ignore /\ length' = Longer

(* A key has been handled: the decoder starts again, with so many bytes to *)
(* ignore first.                                                           *)
Handled(ignore) == pressed' = TRUE /\ timesToIgnore' = ignore /\ length' = 0

(* An answer of the keyboard to a command. *)
Response ==
    /\ Taken /\ Next1 \in Responses
    /\ UNCHANGED <<driver, callback, decoder, user, heard>>

Ignore ==
    /\ Taken /\ Next1 \notin Responses /\ timesToIgnore > 0
    /\ timesToIgnore' = timesToIgnore - 1
    /\ length' = Longer
    /\ UNCHANGED <<driver, callback, pressed, user, heard>>

Pause == length = 0 /\ Next1 = E1

PrintScreenDown == length = 1 /\ Next1 = Code["SHIFT"] /\ pressed

PrintScreenUp == length = 2 /\ Next1 = Code["MULTIPLY"] /\ ~pressed

Begins == Taken /\ Next1 \notin Responses /\ timesToIgnore = 0

(* PAUSE is pressed and released at its first byte, and types a character. *)
HandlePause ==
    /\ Begins /\ Pause /\ Handled(7)
    /\ KEY_PRESS_TABLE' = KEY_PRESS_TABLE \ {"PAUSE"}
    /\ lbLen' = EndLine("PAUSE", lbLen + Typed("PAUSE"))
    /\ Tell(<<Event("PAUSE", TRUE), Event("PAUSE", FALSE)>>)
    /\ UNCHANGED <<callback, user>>

(* Mutants: one byte of the sequence is left. *)
HandlePrintScreenShort ==
    /\ Begins /\ (PrintScreenDown \/ PrintScreenUp)
    /\ Handled(IF pressed THEN 1 ELSE 2)
    /\ setPressed("PRINTSCREEN")
    /\ Tell(<<Event("PRINTSCREEN", pressed)>>)
    /\ UNCHANGED <<callback, user>>

HandlePrintScreen ==
    /\ Begins /\ (PrintScreenDown \/ PrintScreenUp)
    /\ Handled(IF pressed THEN 2 ELSE 3)
    /\ setPressed("PRINTSCREEN")
    /\ Tell(<<Event("PRINTSCREEN", pressed)>>)
    /\ UNCHANGED <<callback, user>>

Special == Pause \/ PrintScreenDown \/ PrintScreenUp

(* A prefix, or a code that is not in the table. *)
Prefix ==
    /\ Begins /\ ~Special
    /\ Next1 \notin DOMAIN SCANCODE_TO_KEY_TABLE
    /\ pressed' = (pressed /\ Next1 # F0)
    /\ length' = Longer
    /\ UNCHANGED <<driver, callback, timesToIgnore, user, heard>>

HandleKey ==
    /\ Begins /\ ~Special
    /\ Next1 \in DOMAIN SCANCODE_TO_KEY_TABLE /\ Handled(0)
    /\ setPressed(SCANCODE_TO_KEY_TABLE[Next1])
    /\ Tell(<<Event(SCANCODE_TO_KEY_TABLE[Next1], pressed)>>)
    /\ UNCHANGED <<callback, user>>

handleKeyboardEvent == Response \/ Ignore \/ HandlePause \/ HandlePrintScreen \/ Prefix \/ HandleKey

----------------------------------------------------------------------------
(* The user and the keyboard. *)

Strike(k, goesDown) ==
    /\ wire = <<>> /\ wire' = Bytes(k, goesDown)
    /\ stroke' = Event(k, goesDown)
    /\ rested' = (Rest /\ callback)
    /\ inStep' = (inStep /\ Rest)
    /\ heard' = <<>>
    /\ UNCHANGED <<driver, callback, decoder>>

setListener ==
    /\ ~callback /\ callback' = TRUE
    /\ UNCHANGED <<driver, decoder, user, wire, heard>>

(* A key that is held repeats its bytes. *)
PressKey(k) ==
    /\ Strike(k, TRUE)
    /\ down' = down \cup ({k} \ {"PAUSE"}) /\ crossed' = crossed \ {k}
    /\ Cardinality(down') <= MaxDown

ReleaseKey(k) ==
    /\ k \in down /\ Strike(k, FALSE)
    /\ down' = down \ {k}
    /\ crossed' = (crossed \cup {j \in down : VK(j) = VK(k)}) \ {k}

(* An answer comes between two bytes. *)
Respond ==
    /\ wire # <<>> /\ Next1 \notin Responses
    /\ wire' = <<250>> \o wire
    /\ UNCHANGED <<driver, callback, decoder, user, heard>>

Next ==
    \/ handleKeyboardEvent \/ setListener \/ Respond
    \/ \E k \in Struck : PressKey(k) \/ ReleaseKey(k)

(* Interrupts come for the bytes that are waiting. *)
Spec == Init /\ [][Next]_vars /\ WF_vars(handleKeyboardEvent)

----------------------------------------------------------------------------

(* When the decoder is at rest as a key goes down or up, a listener        *)
(* hears of the value that key has for the driver, exactly once and with   *)
(* the right direction, whatever keys are held and whatever answers come   *)
(* between its bytes.                                                      *)
HeardFromRest == wire = <<>> /\ rested => heard = Expected(stroke)

(* The table says which keys are pressed, as far as it can tell keys       *)
(* apart: between two keys, if all of them found the decoder at rest, a    *)
(* value is marked exactly when a key of that value is held and no other   *)
(* key of it went up since.  So no key stays marked that nobody holds, and *)
(* a held one is unmarked only beside another of its value.                *)
TableInStep ==
    wire = <<>> /\ inStep => KEY_PRESS_TABLE = {VK(k) : k \in down \ crossed} \cap Key

(* Whatever it has misread, the decoder does not stay out of step: once    *)
(* only keys of the table are struck, every key begins at rest in the end. *)
KnownStruck == \E k \in Known \cap Struck : PressKey(k) \/ ReleaseKey(k)

Recovers ==
    <>[](stroke.key \in Known) /\ []<><<KnownStruck>>_vars => <>[](wire = <<>> => Rest)
=============================================================================
